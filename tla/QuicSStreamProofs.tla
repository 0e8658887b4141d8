-------------------------- MODULE QuicSStreamProofs --------------------------
(***************************************************************************)
(* Proofs about the QUIC send buffer and the integer sets it is built on,  *)
(* for every list of ranges, every ring size, any order of acknowledgement *)
(* and loss: the range lists are exact, every byte is in one state, and    *)
(* what is not acknowledged can be sent again.                             *)
(***************************************************************************)
EXTENDS QuicSStream, FiniteSetTheorems, WellFoundedInduction, TLAPS

-----------------------------------------------------------------------------
(* Least and greatest elements, and induction.                             *)

LEMMA Smallest ==
  ASSUME NEW T \in SUBSET Nat, T # {}
  PROVE  \E x \in T : \A y \in T : x <= y
<1> DEFINE R == OpToRel(<, Nat)
<1>1. IsWellFoundedOn(R, Nat)
  BY NatLessThanWellFounded
<1>2. \A x, y \in Nat : <<y, x>> \in R <=> y < x
  BY DEF OpToRel
<1> HIDE DEF R
<1>3. PICK x \in T : \A y \in T : ~ (<<y, x>> \in R)
  BY <1>1, WFMin
<1>4. x \in Nat /\ \A y \in T : y \in Nat
  OBVIOUS
<1>5. ASSUME NEW y \in T PROVE x <= y
  <2>1. ~ (y < x)
    BY <1>2, <1>3, <1>4, Zenon
  <2> QED BY <1>4, <2>1
<1> QED BY <1>5

LEMMA SetInduction ==
  ASSUME NEW S, 0 \in S, \A n \in Nat : n \in S => n + 1 \in S
  PROVE  Nat \subseteq S
<1> SUFFICES ASSUME Nat \ S # {} PROVE FALSE
  OBVIOUS
<1> DEFINE T == Nat \ S
<1>1. T \in SUBSET Nat /\ T # {}
  OBVIOUS
<1>2. PICK n \in T : \A m \in T : n <= m
  <2> HIDE DEF T
  <2> QED BY <1>1, Smallest
<1>3. n # 0 /\ n - 1 \in Nat
  BY <1>2
<1>4. n - 1 \in S
  BY <1>2, <1>3
<1> QED BY <1>2, <1>3, <1>4

LEMMA LeastIn ==
  ASSUME NEW n \in Nat, NEW T \in SUBSET (1..n), T # {}
  PROVE  Min(T) \in T /\ \A i \in T : Min(T) <= i
<1>1. \E x \in T : \A y \in T : x <= y
  <2>1. T \in SUBSET Nat
    OBVIOUS
  <2> QED BY <2>1, Smallest
<1> QED BY <1>1 DEF Min

LEMMA GreatestIn ==
  ASSUME NEW n \in Nat, NEW T \in SUBSET (1..n), T # {}
  PROVE  Max(T) \in T /\ \A i \in T : i <= Max(T)
<1> DEFINE U == {n - x : x \in T}
<1>1. U \in SUBSET Nat /\ U # {}
  <2>1. \A x \in T : n - x \in Nat
    OBVIOUS
  <2> QED BY <2>1
<1>2. PICK u \in U : \A v \in U : u <= v
  <2> HIDE DEF U
  <2> QED BY <1>1, Smallest
<1>3. PICK x \in T : u = n - x
  BY <1>2
<1>4. \A y \in T : x >= y
  <2>1. \A y \in T : n - x <= n - y
    BY <1>2, <1>3
  <2>2. \A y \in T : y \in Nat
    OBVIOUS
  <2> QED BY <2>1, <2>2
<1> QED BY <1>4 DEF Max

LEMMA MinMax ==
  ASSUME NEW a \in Int, NEW b \in Int
  PROVE  /\ Min({a, b}) = IF a <= b THEN a ELSE b
         /\ Max({a, b}) = IF a >= b THEN a ELSE b
BY DEF Min, Max

-----------------------------------------------------------------------------
(* Lists of ranges.                                                        *)

Ranges == [start : Nat, end : Nat]

\* The ranges are in order, with at least gap integers between two of them.
Apart(s, gap) == \A i, j \in DOMAIN s : i < j => s[i].end + gap < s[j].start

RangeList(s) == s \in Seq(Ranges) /\ WellFormed(s)

LEMMA RangeFields ==
  ASSUME NEW s \in Seq(Ranges)
  PROVE  /\ Len(s) \in Nat /\ DOMAIN s = 1..Len(s)
         /\ \A i \in 1..Len(s) : s[i] \in Ranges /\ s[i].start \in Nat /\ s[i].end \in Nat
<1>1. Len(s) \in Nat /\ DOMAIN s = 1..Len(s)
  OBVIOUS
<1>2. \A i \in 1..Len(s) : s[i] \in Ranges
  OBVIOUS
<1>3. \A x \in Ranges : x.start \in Nat /\ x.end \in Nat
  BY DEF Ranges
<1> QED BY <1>1, <1>2, <1>3, Zenon

LEMMA InMembers ==
  ASSUME NEW s \in Seq(Ranges), NEW v
  PROVE  v \in Members(s) <=> v \in Nat /\ \E i \in 1..Len(s) : s[i].start <= v /\ v <= s[i].end
<1>1. v \in Members(s) <=> \E i \in 1..Len(s) : v \in s[i].start .. s[i].end
  BY RangeFields DEF Members
<1>2. ASSUME NEW i \in 1..Len(s)
      PROVE  v \in s[i].start .. s[i].end <=> v \in Nat /\ s[i].start <= v /\ v <= s[i].end
  BY RangeFields
<1> QED BY <1>1, <1>2

LEMMA NoMembers ==
  ASSUME NEW s, RangeList(s), Members(s) = {}
  PROVE  s = <<>>
<1>1. s \in Seq(Ranges) /\ \A i \in 1..Len(s) : s[i].start <= s[i].end /\ s[i].start \in Nat
  BY RangeFields DEF RangeList, WellFormed
<1>2. Len(s) # 0 => s[1].start \in Members(s)
  BY <1>1, InMembers, RangeFields
<1> QED BY <1>1, <1>2

\* r is s with the one range x in the place of the ranges lo..hi.
IsSplice(r, s, lo, hi, x) ==
  /\ r \in Seq(Ranges) /\ Len(r) = Len(s) - (hi - lo)
  /\ r[lo] = x
  /\ \A i \in 1..(lo - 1) : r[i] = s[i]
  /\ \A i \in (lo + 1)..Len(r) : r[i] = s[i + (hi - lo)]

\* x lies between its neighbours and is the union of [a, b] with what it
\* replaces.
Fits(s, lo, hi, x, a, b, gap) ==
  /\ \A i \in 1..(lo - 1) : s[i].end + gap < x.start
  /\ \A i \in (hi + 1)..Len(s) : x.end + gap < s[i].start
  /\ \A v \in Nat : x.start <= v /\ v <= x.end <=>
       \/ a <= v /\ v <= b
       \/ \E i \in lo..hi : s[i].start <= v /\ v <= s[i].end

LEMMA SpliceExact ==
  ASSUME NEW s, RangeList(s), NEW r, NEW lo \in Nat \ {0}, NEW hi \in Nat,
         lo <= hi + 1, hi <= Len(s), NEW x \in Ranges, NEW a \in Nat, NEW b \in Nat, a <= b,
         NEW gap \in {0, 1}, Apart(s, gap),
         IsSplice(r, s, lo, hi, x), Fits(s, lo, hi, x, a, b, gap)
  PROVE  RangeList(r) /\ Apart(r, gap) /\ Members(r) = Members(s) \cup (a..b)
<1> DEFINE d == hi - lo
           n == Len(s)
           m == Len(r)
<1>0. /\ s \in Seq(Ranges) /\ r \in Seq(Ranges) /\ n \in Nat /\ m \in Nat
      /\ d \in Int /\ hi = lo + d /\ d >= -1 /\ m = n - d /\ lo <= m /\ gap \in Nat
  BY RangeFields DEF RangeList, IsSplice
<1>1. /\ \A i \in 1..n : s[i].start \in Nat /\ s[i].end \in Nat /\ s[i].start <= s[i].end
      /\ \A i, j \in 1..n : i < j => s[i].end + gap < s[j].start
      /\ \A i \in 1..m : r[i].start \in Nat /\ r[i].end \in Nat
      /\ DOMAIN r = 1..m
  BY <1>0, RangeFields DEF RangeList, WellFormed, Apart
<1>a. /\ \A i \in 1..(lo - 1) : s[i].end + gap < x.start
      /\ \A i \in (hi + 1)..n : x.end + gap < s[i].start
  BY DEF Fits
<1> HIDE DEF d, n, m
<1>2. x.start \in Nat /\ x.end \in Nat /\ x.start <= x.end
  <2>1. x.start \in Nat /\ x.end \in Nat
    BY DEF Ranges
  <2>2. x.start <= a /\ a <= x.end
    BY DEF Fits
  <2> QED BY <2>1, <2>2
<1>3. /\ r[lo] = x /\ \A i \in 1..(lo - 1) : r[i] = s[i] /\ i \in 1..n
      /\ \A i \in (lo + 1)..m : r[i] = s[i + d] /\ i + d \in (hi + 1)..n
  <2>1. /\ r[lo] = x /\ \A i \in 1..(lo - 1) : r[i] = s[i]
        /\ \A i \in (lo + 1)..m : r[i] = s[i + d]
    BY DEF IsSplice, m, d
  <2>2. \A i \in 1..(lo - 1) : i \in 1..n
    BY <1>0
  <2>3. \A i \in (lo + 1)..m : i + d \in (hi + 1)..n
    BY <1>0
  <2> QED BY <2>1, <2>2, <2>3
<1>4. \A i \in 1..m : i \in 1..(lo - 1) \/ i = lo \/ i \in (lo + 1)..m
  BY <1>0
<1>5. ASSUME NEW i \in 1..m PROVE r[i].start <= r[i].end
  <2>1. CASE i \in 1..(lo - 1)
    BY <1>1, <1>3, <2>1
  <2>2. CASE i = lo
    BY <1>2, <1>3, <2>2
  <2>3. CASE i \in (lo + 1)..m
    <3>1. r[i] = s[i + d] /\ i + d \in (hi + 1)..n
      BY <1>3, <2>3
    <3>2. i + d \in 1..n
      <4>1. \A k \in (hi + 1)..n : k \in 1..n
        BY <1>0
      <4> QED BY <3>1, <4>1
    <3> QED BY <1>1, <3>1, <3>2
  <2> QED BY <1>4, <2>1, <2>2, <2>3
<1>6. ASSUME NEW i \in 1..m, NEW j \in 1..m, i < j
      PROVE  r[i].end + gap < r[j].start
  <2>0. /\ (i < lo => i \in 1..(lo - 1)) /\ (j < lo => j \in 1..(lo - 1))
        /\ (i > lo => i \in (lo + 1)..m) /\ (j > lo => j \in (lo + 1)..m)
    BY <1>0
  <2>1. CASE i < lo /\ j < lo
    <3>1. r[i] = s[i] /\ r[j] = s[j] /\ i \in 1..n /\ j \in 1..n
      BY <1>3, <2>0, <2>1
    <3> QED BY <1>1, <1>6, <3>1
  <2>2. CASE i < lo /\ j = lo
    BY <1>3, <1>a, <2>0, <2>2, Zenon
  <2>3. CASE i < lo /\ j > lo
    <3>1. r[i] = s[i] /\ i \in 1..n /\ r[j] = s[j + d] /\ j + d \in (hi + 1)..n
      BY <1>3, <2>0, <2>3
    <3>2. i < j + d /\ j + d \in 1..n
      <4>1. j + d \in Int /\ j + d > hi /\ j + d <= n /\ hi >= lo - 1 /\ i < lo
        BY <1>0, <2>3, <3>1
      <4>2. i \in Int /\ lo \in Int /\ hi \in Int /\ n \in Int /\ hi >= 0
        BY <1>0
      <4> QED BY <4>1, <4>2
    <3> QED BY <1>1, <3>1, <3>2
  <2>4. CASE i = lo /\ j > lo
    <3>1. r[i] = x /\ r[j] = s[j + d] /\ j + d \in (hi + 1)..n
      BY <1>3, <2>0, <2>4
    <3> QED BY <1>a, <3>1, Zenon
  <2>5. CASE i > lo
    <3>1. r[i] = s[i + d] /\ i + d \in (hi + 1)..n /\ r[j] = s[j + d] /\ j + d \in (hi + 1)..n
      <4>1. j > lo
        BY <1>6, <2>5
      <4> QED BY <1>3, <2>0, <2>5, <4>1
    <3>2. i + d < j + d /\ i + d \in 1..n /\ j + d \in 1..n
      BY <1>0, <1>6, <3>1
    <3> QED BY <1>1, <3>1, <3>2
  <2> QED BY <1>0, <1>6, <2>1, <2>2, <2>3, <2>4, <2>5
<1>7. RangeList(r) /\ Apart(r, gap)
  <2>1. Apart(r, gap)
    BY <1>1, <1>6 DEF Apart
  <2>2. ASSUME NEW i \in DOMAIN r, NEW j \in DOMAIN r, i < j PROVE r[i].end < r[j].start
    <3>1. i \in 1..m /\ j \in 1..m
      BY <1>1
    <3>2. r[i].end + gap < r[j].start /\ r[i].end \in Nat /\ r[j].start \in Nat
      BY <1>1, <1>6, <2>2, <3>1
    <3>3. ASSUME NEW p \in Nat, NEW q \in Nat, p + gap < q PROVE p < q
      BY ONLY p \in Nat, q \in Nat, <3>3, gap \in {0, 1}
    <3> QED BY <3>2, <3>3
  <2> QED BY <1>0, <1>1, <1>5, <2>1, <2>2 DEF RangeList, WellFormed
<1>8. ASSUME NEW v \in Nat
      PROVE  (\E i \in 1..m : r[i].start <= v /\ v <= r[i].end)
               <=> (\E i \in 1..n : s[i].start <= v /\ v <= s[i].end) \/ (a <= v /\ v <= b)
  <2> DEFINE In(y) == y.start <= v /\ v <= y.end
  <2>0. In(x) <=> (a <= v /\ v <= b) \/ \E i \in lo..hi : In(s[i])
    BY DEF Fits
  <2> HIDE DEF In
  <2>1. ASSUME NEW i \in 1..m, In(r[i])
        PROVE  (\E k \in 1..n : In(s[k])) \/ (a <= v /\ v <= b)
    <3>1. CASE i \in 1..(lo - 1)
      BY <1>3, <2>1, <3>1
    <3>2. CASE i = lo
      <4>1. \A k \in lo..hi : k \in 1..n
        BY <1>0
      <4> QED BY <1>3, <2>0, <2>1, <3>2, <4>1
    <3>3. CASE i \in (lo + 1)..m
      <4>1. r[i] = s[i + d] /\ i + d \in 1..n
        BY <1>0, <1>3, <3>3
      <4> QED BY <2>1, <4>1
    <3> QED BY <1>4, <3>1, <3>2, <3>3
  <2>2. ASSUME NEW i \in 1..n, In(s[i])
        PROVE  \E k \in 1..m : In(r[k])
    <3>1. CASE i < lo
      <4>1. r[i] = s[i] /\ i \in 1..m
        BY <1>0, <1>3, <3>1
      <4> QED BY <2>2, <4>1
    <3>2. CASE i \in lo..hi
      <4>1. In(r[lo]) /\ lo \in 1..m
        BY <1>0, <1>3, <2>0, <2>2, <3>2
      <4> QED BY <4>1
    <3>3. CASE i > hi
      <4>1. i - d \in (lo + 1)..m /\ (i - d) + d = i
        BY <1>0, <3>3
      <4>2. r[i - d] = s[i] /\ i - d \in 1..m
        BY <1>0, <1>3, <4>1
      <4> QED BY <2>2, <4>2
    <3> QED BY <1>0, <3>1, <3>2, <3>3
  <2>3. (a <= v /\ v <= b) => \E k \in 1..m : In(r[k])
    <3>1. lo \in 1..m
      BY <1>0
    <3> QED BY <1>3, <2>0, <3>1
  <2>4. (\E i \in 1..m : In(r[i])) <=> (\E i \in 1..n : In(s[i])) \/ (a <= v /\ v <= b)
    BY <2>1, <2>2, <2>3
  <2> QED BY <2>4 DEF In
<1>9. ASSUME NEW v PROVE v \in Members(r) <=> v \in Members(s) \cup (a..b)
  <2>1. v \in Members(r) <=> v \in Nat /\ \E i \in 1..m : r[i].start <= v /\ v <= r[i].end
    BY <1>0, InMembers DEF n, m
  <2>2. v \in Members(s) <=> v \in Nat /\ \E i \in 1..n : s[i].start <= v /\ v <= s[i].end
    BY <1>0, InMembers DEF n, m
  <2>3. v \in a..b <=> v \in Nat /\ a <= v /\ v <= b
    OBVIOUS
  <2> QED BY <1>8, <2>1, <2>2, <2>3
<1> QED BY <1>7, <1>9

-----------------------------------------------------------------------------
(* Lists put together from parts.                                          *)

LEMMA Joined ==
  ASSUME NEW p \in Seq(Ranges), NEW q \in Seq(Ranges)
  PROVE  /\ p \o q \in Seq(Ranges) /\ Len(p \o q) = Len(p) + Len(q)
         /\ \A i \in 1..Len(p) : (p \o q)[i] = p[i]
         /\ \A i \in 1..Len(q) : (p \o q)[Len(p) + i] = q[i]
OBVIOUS

LEMMA Part ==
  ASSUME NEW s \in Seq(Ranges), NEW k \in Nat, NEW l \in Nat, 1 <= k, k <= l + 1, l <= Len(s)
  PROVE  /\ SubSeq(s, k, l) \in Seq(Ranges) /\ Len(SubSeq(s, k, l)) = (l - k) + 1
         /\ \A i \in 1..((l - k) + 1) : SubSeq(s, k, l)[i] = s[(k + i) - 1]
<1>1. \A i \in k..l : s[i] \in Ranges
  OBVIOUS
<1>2. Len(SubSeq(s, k, l)) = (l - k) + 1
  OBVIOUS
<1>3. \A i \in 1..((l - k) + 1) : SubSeq(s, k, l)[i] = s[(k + i) - 1]
  OBVIOUS
<1> QED BY <1>1, <1>2, <1>3

\* The ranges of p come before those of q.
LEMMA JoinedExact ==
  ASSUME NEW p, NEW q, RangeList(p), RangeList(q),
         \A v \in Members(p), w \in Members(q) : v < w
  PROVE  RangeList(p \o q) /\ Members(p \o q) = Members(p) \cup Members(q)
<1> DEFINE s == p \o q
           n == Len(p)
           m == Len(q)
<1>0. /\ p \in Seq(Ranges) /\ q \in Seq(Ranges) /\ s \in Seq(Ranges) /\ Len(s) = n + m
      /\ n \in Nat /\ m \in Nat /\ DOMAIN s = 1..(n + m)
      /\ (\A i \in 1..n : s[i] = p[i]) /\ \A i \in 1..m : s[n + i] = q[i]
  BY Joined DEF RangeList
<1>1. /\ \A i \in 1..n : p[i].start \in Nat /\ p[i].end \in Nat /\ p[i].start <= p[i].end
      /\ \A i, j \in 1..n : i < j => p[i].end < p[j].start
      /\ \A i \in 1..m : q[i].start \in Nat /\ q[i].end \in Nat /\ q[i].start <= q[i].end
      /\ \A i, j \in 1..m : i < j => q[i].end < q[j].start
  BY RangeFields DEF RangeList, WellFormed
<1>2. ASSUME NEW i \in 1..n, NEW j \in 1..m PROVE p[i].end < q[j].start
  <2>1. p[i].end \in Members(p)
    BY <1>0, <1>1, InMembers
  <2>2. q[j].start \in Members(q)
    BY <1>0, <1>1, InMembers
  <2> QED BY <2>1, <2>2
<1>3. ASSUME NEW v
      PROVE  v \in Members(s) <=> v \in Members(p) \/ v \in Members(q)
  <2>1. v \in Members(s) <=> v \in Nat /\ \E i \in 1..(n + m) : s[i].start <= v /\ v <= s[i].end
    BY <1>0, InMembers
  <2>2. v \in Members(p) <=> v \in Nat /\ \E i \in 1..n : p[i].start <= v /\ v <= p[i].end
    BY <1>0, InMembers
  <2>3. v \in Members(q) <=> v \in Nat /\ \E i \in 1..m : q[i].start <= v /\ v <= q[i].end
    BY <1>0, InMembers
  <2> HIDE DEF s, n, m
  <2>4. \A i \in 1..(n + m) : i \in 1..n \/ (i - n \in 1..m /\ n + (i - n) = i)
    BY <1>0
  <2>5. (\A i \in 1..n : i \in 1..(n + m)) /\ \A i \in 1..m : n + i \in 1..(n + m)
    BY <1>0
  <2>6. \A i \in 1..(n + m) : (i \in 1..n /\ s[i] = p[i]) \/ (i - n \in 1..m /\ s[i] = q[i - n])
    BY <1>0, <2>4
  <2> QED BY <1>0, <2>1, <2>2, <2>3, <2>5, <2>6
<1> HIDE DEF s, n, m
<1>4. ASSUME NEW i \in 1..(n + m) 
      PROVE  (i \in 1..n /\ s[i] = p[i]) \/ (i - n \in 1..m /\ s[i] = q[i - n] /\ i > n)
  <2>1. CASE i <= n
    BY <1>0, <2>1
  <2>2. CASE i > n
    <3>1. i - n \in 1..m /\ n + (i - n) = i
      BY <1>0, <2>2
    <3> QED BY <1>0, <2>2, <3>1
  <2> QED BY <1>0, <2>1, <2>2
<1>5. ASSUME NEW i \in 1..(n + m) PROVE s[i].start <= s[i].end
  BY <1>1, <1>4
<1>6. ASSUME NEW i \in 1..(n + m), NEW j \in 1..(n + m), i < j PROVE s[i].end < s[j].start
  <2>1. CASE i \in 1..n /\ j \in 1..n
    <3>1. s[i] = p[i] /\ s[j] = p[j]
      BY <1>0, <2>1
    <3> QED BY <1>1, <1>6, <2>1, <3>1
  <2>2. CASE i \in 1..n /\ j > n
    <3>1. s[i] = p[i] /\ s[j] = q[j - n] /\ j - n \in 1..m
      BY <1>0, <1>4, <2>2
    <3> QED BY <1>2, <2>2, <3>1
  <2>3. CASE i > n
    <3>1. s[i] = q[i - n] /\ i - n \in 1..m /\ s[j] = q[j - n] /\ j - n \in 1..m
      <4>1. ~ (i \in 1..n) /\ ~ (j \in 1..n)
        BY <1>0, <1>6, <2>3
      <4> QED BY <1>4, <4>1
    <3>2. i - n < j - n
      BY <1>0, <1>6
    <3> QED BY <1>1, <3>1, <3>2
  <2> QED BY <1>0, <1>6, <2>1, <2>2, <2>3
<1>7. RangeList(s)
  BY <1>0, <1>5, <1>6 DEF RangeList, WellFormed
<1> QED BY <1>3, <1>7 DEF s

LEMMA OneRange ==
  ASSUME NEW a \in Nat, NEW b \in Nat, a <= b
  PROVE  RangeList(<<Interval(a, b)>>) /\ Members(<<Interval(a, b)>>) = a..b
<1> DEFINE s == <<Interval(a, b)>>
<1>1. s \in Seq(Ranges) /\ Len(s) = 1 /\ s[1].start = a /\ s[1].end = b /\ DOMAIN s = {1}
  BY DEF Interval, Ranges
<1> HIDE DEF s
<1>2. RangeList(s)
  BY <1>1 DEF RangeList, WellFormed
<1>3. Members(s) = a..b
  BY <1>1 DEF Members
<1> QED BY <1>2, <1>3 DEF s

LEMMA NoRange == RangeList(<<>>) /\ Members(<<>>) = {}
BY DEF RangeList, WellFormed, Members

LEMMA Overlap ==
  ASSUME NEW r \in Ranges, NEW a \in Nat, NEW b \in Nat, a <= b, r.start <= r.end
  PROVE  overlaps(r, a, b) <=> r.start <= b /\ a <= r.end
<1>1. r.start \in Nat /\ r.end \in Nat
  BY DEF Ranges
<1>2. /\ Min({r.end, b}) = IF r.end <= b THEN r.end ELSE b
      /\ Max({r.start, a}) = IF r.start >= a THEN r.start ELSE a
  <2>1. r.end \in Int /\ r.start \in Int /\ a \in Int /\ b \in Int
    BY <1>1
  <2>2. Min({r.end, b}) = IF r.end <= b THEN r.end ELSE b
    BY <2>1, MinMax
  <2>3. Max({r.start, a}) = IF r.start >= a THEN r.start ELSE a
    BY <2>1, MinMax
  <2> QED BY <2>2, <2>3
<1> QED BY <1>1, <1>2 DEF overlaps

\* What ossl_uint_set_remove leaves of one range.
LEMMA CutExact ==
  ASSUME NEW r \in Ranges, NEW a \in Nat, NEW b \in Nat, a <= b, r.start <= r.end
  PROVE  RangeList(cut(r, a, b)) /\ Members(cut(r, a, b)) = (r.start..r.end) \ (a..b)
<1>1. r.start \in Nat /\ r.end \in Nat /\ r = Interval(r.start, r.end)
  BY DEF Ranges, Interval
<1>2. CASE ~ overlaps(r, a, b)
  <2>1. cut(r, a, b) = <<Interval(r.start, r.end)>>
    BY <1>1, <1>2 DEF cut
  <2>2. (r.start..r.end) \ (a..b) = r.start..r.end
    <3>1. ~ (r.start <= b /\ a <= r.end)
      BY <1>2, Overlap
    <3> QED BY <1>1, <3>1
  <2> QED BY <1>1, <2>1, <2>2, OneRange
<1>3. CASE overlaps(r, a, b)
  <2> DEFINE p == IF r.start < a THEN <<Interval(r.start, a - 1)>> ELSE <<>>
             q == IF b < r.end THEN <<Interval(b + 1, r.end)>> ELSE <<>>
  <2>0. cut(r, a, b) = p \o q
    BY <1>3 DEF cut
  <2>1. r.start <= b /\ a <= r.end
    BY <1>3, Overlap
  <2>2. RangeList(p) /\ Members(p) = r.start..(a - 1)
    <3>1. CASE r.start < a
      <4>1. a - 1 \in Nat /\ r.start <= a - 1
        BY <1>1, <3>1
      <4> QED BY <1>1, <3>1, <4>1, OneRange
    <3>2. CASE ~ (r.start < a)
      <4>1. r.start..(a - 1) = {}
        BY <1>1, <3>2
      <4> QED BY <3>2, <4>1, NoRange
    <3> QED BY <3>1, <3>2
  <2>3. RangeList(q) /\ Members(q) = (b + 1)..r.end
    <3>1. CASE b < r.end
      <4>1. b + 1 \in Nat /\ b + 1 <= r.end
        BY <1>1, <3>1
      <4> QED BY <1>1, <3>1, <4>1, OneRange
    <3>2. CASE ~ (b < r.end)
      <4>1. (b + 1)..r.end = {}
        BY <1>1, <3>2
      <4> QED BY <3>2, <4>1, NoRange
    <3> QED BY <3>1, <3>2
  <2> HIDE DEF p, q
  <2>4. \A v \in Members(p), w \in Members(q) : v < w
    BY <1>1, <2>2, <2>3
  <2>5. RangeList(p \o q) /\ Members(p \o q) = (r.start..(a - 1)) \cup ((b + 1)..r.end)
    BY <2>2, <2>3, <2>4, JoinedExact
  <2>6. (r.start..(a - 1)) \cup ((b + 1)..r.end) = (r.start..r.end) \ (a..b)
    <3>1. ASSUME NEW v PROVE v \in (r.start..(a - 1)) \cup ((b + 1)..r.end) <=> v \in (r.start..r.end) \ (a..b)
      BY <1>1, <2>1
    <3> QED BY <3>1
  <2> QED BY <2>0, <2>5, <2>6
<1> QED BY <1>2, <1>3

\* There is a function that the recursion of FlattenSeq describes.
LEMMA FlatExists ==
  ASSUME NEW N \in Nat \ {0}, NEW t \in [1..N -> Seq(Ranges)]
  PROVE  \E g \in [1..N -> Seq(Ranges)] : g = [i \in 1..N |-> IF i = 1 THEN t[i] ELSE g[i - 1] \o t[i]]
<1> DEFINE Flat(g, k) == \A i \in 1..N : i <= k + 1 => g[i] = IF i = 1 THEN t[i] ELSE g[i - 1] \o t[i]
           S == {k \in Nat : \E g \in [1..N -> Seq(Ranges)] : Flat(g, k)}
<1>1. 0 \in S
  <2>1. t \in [1..N -> Seq(Ranges)] /\ Flat(t, 0)
    OBVIOUS
  <2> QED BY <2>1
<1>2. ASSUME NEW k \in Nat, k \in S PROVE k + 1 \in S
  <2> SUFFICES \E h \in [1..N -> Seq(Ranges)] : Flat(h, k + 1)
    <3>1. k + 1 \in Nat
      OBVIOUS
    <3> HIDE DEF Flat
    <3> QED BY <3>1
  <2>1. PICK g \in [1..N -> Seq(Ranges)] : Flat(g, k)
    BY <1>2
  <2>2. CASE k + 2 > N
    <3>1. \A i \in 1..N : i <= k + 1
      BY <2>2
    <3>2. Flat(g, k + 1)
      BY <2>1, <3>1, Zenon
    <3> QED BY <3>2
  <2>3. CASE k + 2 <= N
    <3>1. k + 1 \in 1..N /\ k + 2 \in 1..N
      BY <2>3
    <3>2. g[k + 1] \in Seq(Ranges) /\ t[k + 2] \in Seq(Ranges)
      BY <3>1
    <3> DEFINE x == g[k + 1] \o t[k + 2]
    <3>3. x \in Seq(Ranges)
      BY <3>2, Joined
    <3> DEFINE h == [i \in 1..N |-> IF i = k + 2 THEN x ELSE g[i]]
    <3>4. /\ h \in [1..N -> Seq(Ranges)] /\ h[k + 2] = x
          /\ \A i \in 1..N : i # k + 2 => h[i] = g[i]
      <4> HIDE DEF x
      <4> QED BY <3>1, <3>3
    <3> HIDE DEF h
    <3>5. ASSUME NEW i \in 1..N, i <= k + 2
          PROVE  h[i] = IF i = 1 THEN t[i] ELSE h[i - 1] \o t[i]
      <4>1. CASE i = k + 2
        <5>1. i # 1 /\ i - 1 = k + 1 /\ i - 1 # k + 2 /\ i - 1 \in 1..N
          BY <4>1
        <5>2. h[i] = g[k + 1] \o t[k + 2] /\ h[i - 1] = g[k + 1]
          BY <3>4, <4>1, <5>1
        <5> QED BY <4>1, <5>1, <5>2
      <4>2. CASE i # k + 2
        <5>1. i <= k + 1 /\ (i # 1 => i - 1 \in 1..N /\ i - 1 # k + 2)
          BY <3>5, <4>2
        <5>2. g[i] = IF i = 1 THEN t[i] ELSE g[i - 1] \o t[i]
          BY <2>1, <5>1
        <5>3. h[i] = g[i] /\ (i # 1 => h[i - 1] = g[i - 1])
          BY <3>4, <4>2, <5>1
        <5> QED BY <5>2, <5>3
      <4> QED BY <4>1, <4>2
    <3>6. Flat(h, k + 1)
      BY <3>5
    <3> HIDE DEF Flat
    <3> QED BY <3>4, <3>6
  <2>4. k + 2 > N \/ k + 2 <= N
    OBVIOUS
  <2> HIDE DEF Flat
  <2> QED BY <2>2, <2>3, <2>4
<1> HIDE DEF S
<1>3. N \in S
  BY <1>1, <1>2, SetInduction
<1>4. PICK g \in [1..N -> Seq(Ranges)] : Flat(g, N)
  BY <1>3 DEF S
<1> DEFINE e == [i \in 1..N |-> IF i = 1 THEN t[i] ELSE g[i - 1] \o t[i]]
<1>5. g = e
  <2>1. ASSUME NEW i \in 1..N PROVE g[i] = e[i]
    <3>1. i <= N + 1
      OBVIOUS
    <3>2. g[i] = IF i = 1 THEN t[i] ELSE g[i - 1] \o t[i]
      BY <1>4, <3>1, Zenon
    <3> QED BY <3>2, Zenon
  <2>2. g = [i \in 1..N |-> g[i]] /\ e = [i \in 1..N |-> e[i]]
    OBVIOUS
  <2> HIDE DEF e
  <2> QED BY <2>1, <2>2
<1> QED BY <1>5

\* x is t[1], ..., t[N] joined one after the other.
JoinOf(x, t, N) ==
  \E g \in [1..N -> Seq(Ranges)] :
    /\ x = g[N] /\ g[1] = t[1]
    /\ \A i \in 2..N : g[i] = g[i - 1] \o t[i]

LEMMA Flattened ==
  ASSUME NEW N \in Nat \ {0}, NEW t \in [1..N -> Seq(Ranges)]
  PROVE  JoinOf(FlattenSeq(t), t, N)
<1> DEFINE g == CHOOSE g : g = [i \in 1..N |-> IF i = 1 THEN t[i] ELSE g[i - 1] \o t[i]]
<1>1. g = [i \in 1..N |-> IF i = 1 THEN t[i] ELSE g[i - 1] \o t[i]]
  <2>1. \E h : h = [i \in 1..N |-> IF i = 1 THEN t[i] ELSE h[i - 1] \o t[i]]
    <3>1. \E h \in [1..N -> Seq(Ranges)] : h = [i \in 1..N |-> IF i = 1 THEN t[i] ELSE h[i - 1] \o t[i]]
      BY FlatExists
    <3> QED BY <3>1, Zenon
  <2> QED BY <2>1, Zenon
<1>2. Len(t) = N
  OBVIOUS
<1>3. FlattenSeq(t) = g[N]
  BY <1>2 DEF FlattenSeq
<1> HIDE DEF g
<1>4. g[1] = t[1] /\ \A i \in 2..N : g[i] = g[i - 1] \o t[i]
  <2>1. \A i \in 1..N : g[i] = IF i = 1 THEN t[i] ELSE g[i - 1] \o t[i]
    BY <1>1, Zenon
  <2>2. 1 \in 1..N /\ \A i \in 2..N : i \in 1..N /\ i # 1
    OBVIOUS
  <2> QED BY <2>1, <2>2
<1> DEFINE S == {k \in Nat : k + 1 <= N => g[k + 1] \in Seq(Ranges)}
<1>5. 0 \in S
  BY <1>4
<1>6. ASSUME NEW k \in Nat, k \in S PROVE k + 1 \in S
  <2> SUFFICES ASSUME (k + 1) + 1 <= N PROVE g[(k + 1) + 1] \in Seq(Ranges)
    OBVIOUS
  <2>1. (k + 1) + 1 \in 2..N /\ ((k + 1) + 1) - 1 = k + 1 /\ k + 1 <= N
    OBVIOUS
  <2>2. g[(k + 1) + 1] = g[k + 1] \o t[(k + 1) + 1]
    BY <1>4, <2>1
  <2>3. g[k + 1] \in Seq(Ranges) /\ t[(k + 1) + 1] \in Seq(Ranges)
    BY <1>6, <2>1
  <2> QED BY <2>2, <2>3, Joined
<1> HIDE DEF S
<1>7. Nat \subseteq S
  BY <1>5, <1>6, SetInduction
<1>8. ASSUME NEW i \in 1..N PROVE g[i] \in Seq(Ranges)
  <2>1. i - 1 \in S /\ (i - 1) + 1 = i /\ i <= N
    BY <1>7
  <2> QED BY <2>1 DEF S
<1>9. g \in [1..N -> Seq(Ranges)]
  BY <1>1, <1>8
<1> QED BY <1>3, <1>4, <1>9, Zenon DEF JoinOf

\* ossl_uint_set_remove leaves a list in order, of just what is not removed.
LEMMA RemoveExact ==
  ASSUME NEW s, RangeList(s), NEW a \in Nat, NEW b \in Nat, a <= b
  PROVE  RangeList(remove(s, a, b)) /\ Members(remove(s, a, b)) = Members(s) \ (a..b)
<1> DEFINE n == Len(s)
           t == [i \in DOMAIN s |-> cut(s[i], a, b)]
<1>0. /\ s \in Seq(Ranges) /\ n \in Nat /\ DOMAIN s = 1..n
      /\ \A i \in 1..n : s[i] \in Ranges /\ s[i].start \in Nat /\ s[i].end \in Nat /\ s[i].start <= s[i].end
      /\ \A i, j \in 1..n : i < j => s[i].end < s[j].start
  BY RangeFields DEF RangeList, WellFormed
<1>1. CASE n = 0
  <2>1. s = <<>>
    BY <1>0, <1>1
  <2>2. remove(s, a, b) = <<>>
    <3>1. [i \in DOMAIN s |-> cut(s[i], a, b)] = <<>>
      BY <2>1
    <3> QED BY <3>1 DEF remove, FlattenSeq
  <2> QED BY <2>1, <2>2, NoRange
<1>2. CASE n # 0
  <2>1. \A i \in 1..n : RangeList(t[i]) /\ Members(t[i]) = (s[i].start..s[i].end) \ (a..b)
    <3> SUFFICES ASSUME NEW i \in 1..n
                 PROVE  RangeList(t[i]) /\ Members(t[i]) = (s[i].start..s[i].end) \ (a..b)
      OBVIOUS
    <3>1. t[i] = cut(s[i], a, b)
      BY <1>0
    <3> QED BY <1>0, <3>1, CutExact
  <2>2. t \in [1..n -> Seq(Ranges)]
    <3>1. \A i \in 1..n : t[i] \in Seq(Ranges)
      BY <2>1 DEF RangeList
    <3> QED BY <1>0, <3>1
  <2>3. remove(s, a, b) = FlattenSeq(t)
    BY DEF remove
  <2> HIDE DEF t, n
  <2>4. PICK g \in [1..n -> Seq(Ranges)] :
          /\ FlattenSeq(t) = g[n] /\ g[1] = t[1]
          /\ \A i \in 2..n : g[i] = g[i - 1] \o t[i]
    <3>1. n \in Nat \ {0}
      BY <1>0, <1>2
    <3>2. JoinOf(FlattenSeq(t), t, n)
      BY <2>2, <3>1, Flattened
    <3> QED BY <3>2, Zenon DEF JoinOf
  <2> DEFINE In(v, k) == \E i \in 1..n : i <= k /\ v \in s[i].start..s[i].end
             Good(k) == /\ RangeList(g[k])
                        /\ \A v : v \in Members(g[k]) <=> In(v, k) /\ v \notin a..b
             S == {k \in Nat : k + 1 <= n => Good(k + 1)}
  <2>5. 0 \in S
    <3>1. Good(1)
      <4>1. \A i \in 1..n : i <= 1 <=> i = 1
        BY <1>0
      <4>2. 1 \in 1..n
        BY <1>0, <1>2
      <4>3. \A v : In(v, 1) <=> v \in s[1].start..s[1].end
        BY <4>1, <4>2
      <4> HIDE DEF In
      <4> QED BY <2>1, <2>4, <4>2, <4>3
    <3>2. 0 + 1 = 1
      OBVIOUS
    <3> HIDE DEF Good
    <3> QED BY <3>1, <3>2
  <2>6. ASSUME NEW k \in Nat, k \in S PROVE k + 1 \in S
    <3> SUFFICES ASSUME (k + 1) + 1 <= n PROVE Good((k + 1) + 1)
      <4> HIDE DEF Good
      <4> QED OBVIOUS
    <3> DEFINE j == (k + 1) + 1
               p == g[k + 1]
               q == t[j]
    <3>1. j \in 2..n /\ j \in 1..n /\ j - 1 = k + 1 /\ k + 1 \in 1..n /\ k + 1 <= n /\ k + 1 < j
      BY <1>0
    <3>2. g[j] = p \o q
      BY <2>4, <3>1
    <3>3. Good(k + 1)
      <4> HIDE DEF Good
      <4> QED BY <2>6, <3>1
    <3>4. RangeList(p) /\ \A v : v \in Members(p) <=> In(v, k + 1) /\ v \notin a..b
      BY <3>3
    <3>5. RangeList(q) /\ Members(q) = (s[j].start..s[j].end) \ (a..b)
      BY <2>1, <3>1
    <3>6. \A v : In(v, k + 1) => v \in Int /\ v < s[j].start
      <4> SUFFICES ASSUME NEW v, NEW i \in 1..n, i <= k + 1, v \in s[i].start..s[i].end
                   PROVE  v \in Int /\ v < s[j].start
        OBVIOUS
      <4>1. s[i].end < s[j].start /\ s[i].end \in Nat /\ s[j].start \in Nat
        BY <1>0, <3>1
      <4> QED BY <1>0, <4>1
    <3>7. \A v \in Members(p), w \in Members(q) : v < w
      <4> HIDE DEF In, p, q, j
      <4>1. s[j].start \in Nat /\ s[j].end \in Nat
        BY <1>0, <3>1
      <4> QED BY <3>4, <3>5, <3>6, <4>1
    <3>8. \A v : In(v, j) <=> In(v, k + 1) \/ v \in s[j].start..s[j].end
      <4>1. \A i \in 1..n : i <= j <=> i <= k + 1 \/ i = j
        BY <1>0
      <4>2. \A i \in 1..n : i \in Int
        OBVIOUS
      <4> HIDE DEF j
      <4> QED BY <3>1, <4>1
    <3> HIDE DEF p, q, In
    <3>9. RangeList(p \o q) /\ Members(p \o q) = Members(p) \cup Members(q)
      BY <3>4, <3>5, <3>7, JoinedExact
    <3> HIDE DEF j
    <3>10. Good(j)
      BY <3>2, <3>4, <3>5, <3>8, <3>9
    <3> QED BY <3>10 DEF j
  <2> HIDE DEF S
  <2>7. Nat \subseteq S
    BY <2>5, <2>6, SetInduction
  <2>8. Good(n)
    <3>1. n - 1 \in Nat /\ (n - 1) + 1 = n
      BY <1>0, <1>2
    <3> HIDE DEF Good
    <3>2. n <= n /\ n - 1 \in S
      BY <1>0, <2>7, <3>1
    <3>3. (n - 1) + 1 <= n => Good((n - 1) + 1)
      BY <3>2 DEF S
    <3> QED BY <3>1, <3>2, <3>3
  <2>9. ASSUME NEW v PROVE In(v, n) <=> v \in Members(s)
    BY <1>0 DEF Members
  <2> HIDE DEF In
  <2> QED BY <2>3, <2>4, <2>8, <2>9
<1> QED BY <1>1, <1>2

\* The walk of ossl_uint_set_query, which stops early, misses nothing.
LEMMA QueryExact ==
  ASSUME NEW s, RangeList(s), NEW v \in Nat
  PROVE  query(s, v) <=> v \in Members(s)
<1> DEFINE n == Len(s)
<1>0. /\ s \in Seq(Ranges) /\ n \in Nat /\ DOMAIN s = 1..n
      /\ \A i \in 1..n : s[i].start \in Nat /\ s[i].end \in Nat /\ s[i].start <= s[i].end
      /\ \A i, j \in 1..n : i < j => s[i].end < s[j].start
  BY RangeFields DEF RangeList, WellFormed
<1>1. v \in Members(s) <=> \E i \in 1..n : s[i].start <= v /\ v <= s[i].end
  BY <1>0, InMembers
<1>2. ASSUME NEW i \in 1..n, v <= s[i].end, NEW j \in (i + 1)..n
      PROVE  s[j].end >= v
  <2>1. j \in 1..n /\ i < j
    BY <1>0
  <2> QED BY <1>0, <1>2, <2>1
<1>3. query(s, v) <=> \E i \in 1..n : /\ s[i].start <= v /\ v <= s[i].end
                                      /\ \A j \in (i + 1)..n : s[j].end >= v
  BY <1>0 DEF query
<1> HIDE DEF n
<1> QED BY <1>1, <1>2, <1>3

-----------------------------------------------------------------------------
(* Insertion: each of its cases replaces some neighbouring ranges by one.  *)

LEMMA SpliceIs ==
  ASSUME NEW s \in Seq(Ranges), NEW lo \in Nat \ {0}, NEW hi \in Nat, lo <= hi + 1, hi <= Len(s),
         NEW x \in Ranges
  PROVE  IsSplice(Splice(s, lo, hi, x), s, lo, hi, x)
<1> DEFINE p == SubSeq(s, 1, lo - 1)
           q == SubSeq(s, hi + 1, Len(s))
           u == <<x>>
           m == Len(p \o u)
           r == (p \o u) \o q
<1>1. /\ p \in Seq(Ranges) /\ Len(p) = lo - 1 /\ \A i \in 1..(lo - 1) : p[i] = s[i]
  <2>1. lo - 1 \in Nat /\ 1 <= (lo - 1) + 1 /\ lo - 1 <= Len(s) /\ ((lo - 1) - 1) + 1 = lo - 1
    OBVIOUS
  <2>2. \A i \in 1..(lo - 1) : (1 + i) - 1 = i
    OBVIOUS
  <2> QED BY <2>1, <2>2, Part
<1>2. /\ q \in Seq(Ranges) /\ Len(q) = Len(s) - hi
      /\ \A i \in 1..(Len(s) - hi) : q[i] = s[hi + i]
  <2>1. /\ hi + 1 \in Nat /\ Len(s) \in Nat /\ 1 <= hi + 1 /\ hi + 1 <= Len(s) + 1
        /\ (Len(s) - (hi + 1)) + 1 = Len(s) - hi
    OBVIOUS
  <2>2. \A i \in 1..(Len(s) - hi) : ((hi + 1) + i) - 1 = hi + i
    OBVIOUS
  <2>3. /\ q \in Seq(Ranges) /\ Len(q) = (Len(s) - (hi + 1)) + 1
        /\ \A i \in 1..((Len(s) - (hi + 1)) + 1) : q[i] = s[((hi + 1) + i) - 1]
    <3> DEFINE k == hi + 1
               l == Len(s)
    <3>1. k \in Nat /\ l \in Nat /\ 1 <= k /\ k <= l + 1 /\ l <= Len(s)
      BY <2>1
    <3>2. q = SubSeq(s, k, l)
      OBVIOUS
    <3> HIDE DEF k, q
    <3>3. /\ q \in Seq(Ranges) /\ Len(q) = (l - k) + 1
          /\ \A i \in 1..((l - k) + 1) : q[i] = s[(k + i) - 1]
      <4> HIDE DEF l
      <4> QED BY <3>1, <3>2, Part
    <3> QED BY <3>3 DEF k
  <2> HIDE DEF q
  <2> QED BY <2>1, <2>2, <2>3
<1>3. u \in Seq(Ranges) /\ Len(u) = 1 /\ u[1] = x
  OBVIOUS
<1>n. Len(s) \in Nat
  OBVIOUS
<1> HIDE DEF p, q, u
<1>4. /\ p \o u \in Seq(Ranges) /\ m = lo
      /\ \A i \in 1..(lo - 1) : (p \o u)[i] = s[i]
      /\ (p \o u)[lo] = x
  <2>1. /\ p \o u \in Seq(Ranges) /\ Len(p \o u) = Len(p) + Len(u)
        /\ \A i \in 1..Len(p) : (p \o u)[i] = p[i]
        /\ \A i \in 1..Len(u) : (p \o u)[Len(p) + i] = u[i]
    BY <1>1, <1>3, Joined
  <2>2. (p \o u)[(lo - 1) + 1] = x /\ (lo - 1) + 1 = lo
    BY <1>1, <1>3, <2>1
  <2> QED BY <1>1, <1>3, <2>1, <2>2
<1>5. /\ r \in Seq(Ranges) /\ Len(r) = Len(s) - (hi - lo)
      /\ \A i \in 1..lo : r[i] = (p \o u)[i]
      /\ \A i \in 1..(Len(s) - hi) : r[lo + i] = s[hi + i]
  <2>1. /\ r \in Seq(Ranges) /\ Len(r) = m + Len(q)
        /\ \A i \in 1..m : r[i] = (p \o u)[i]
        /\ \A i \in 1..Len(q) : r[m + i] = q[i]
    BY <1>2, <1>4, Joined
  <2>2. lo + (Len(s) - hi) = Len(s) - (hi - lo)
    BY <1>n
  <2> QED BY <1>2, <1>4, <2>1, <2>2
<1> HIDE DEF r, m
<1>6. r[lo] = x /\ \A i \in 1..(lo - 1) : r[i] = s[i]
  <2>1. lo \in 1..lo /\ \A i \in 1..(lo - 1) : i \in 1..lo
    OBVIOUS
  <2> QED BY <1>4, <1>5, <2>1
<1>7. ASSUME NEW i \in (lo + 1)..Len(r) PROVE r[i] = s[i + (hi - lo)]
  <2>1. i - lo \in 1..(Len(s) - hi) /\ lo + (i - lo) = i /\ hi + (i - lo) = i + (hi - lo)
    BY <1>5, <1>n
  <2> QED BY <1>5, <2>1
<1>8. Splice(s, lo, hi, x) = r
  BY DEF Splice, p, q, u, r
<1> QED BY <1>5, <1>6, <1>7, <1>8 DEF IsSplice

LEMMA ReplacedIs ==
  ASSUME NEW s \in Seq(Ranges), NEW i \in 1..Len(s), NEW x \in Ranges
  PROVE  IsSplice([s EXCEPT ![i] = x], s, i, i, x)
<1> DEFINE r == [s EXCEPT ![i] = x]
<1>1. r \in Seq(Ranges) /\ Len(r) = Len(s) /\ r[i] = x /\ \A j \in 1..Len(s) : j # i => r[j] = s[j]
  OBVIOUS
<1>n. Len(s) \in Nat
  OBVIOUS
<1> HIDE DEF r
<1>2. \A j \in 1..(i - 1) : r[j] = s[j]
  BY <1>1, <1>n
<1>3. \A j \in (i + 1)..Len(r) : r[j] = s[j + (i - i)]
  BY <1>1, <1>n
<1>4. Len(r) = Len(s) - (i - i)
  BY <1>1, <1>n
<1> QED BY <1>1, <1>2, <1>3, <1>4 DEF IsSplice, r

LEMMA AppendedIs ==
  ASSUME NEW s \in Seq(Ranges), NEW x \in Ranges
  PROVE  IsSplice(Append(s, x), s, Len(s) + 1, Len(s), x)
<1> DEFINE r == Append(s, x)
           n == Len(s)
<1>1. r \in Seq(Ranges) /\ Len(r) = n + 1 /\ r[n + 1] = x /\ \A j \in 1..n : r[j] = s[j]
  OBVIOUS
<1>2. n \in Nat
  OBVIOUS
<1> HIDE DEF r, n
<1>3. Len(r) = n - (n - (n + 1)) /\ (n + 1) - 1 = n /\ ((n + 1) + 1)..Len(r) = {}
  BY <1>1, <1>2
<1> QED BY <1>1, <1>3 DEF IsSplice, r, n

LEMMA InsertedIs ==
  ASSUME NEW s \in Seq(Ranges), NEW i \in 1..Len(s), NEW x \in Ranges
  PROVE  IsSplice(InsertAt(s, i, x), s, i, i - 1, x)
<1>1. i - 1 \in Nat /\ (i - 1) + 1 = i /\ i - 1 <= Len(s) /\ i \in Nat \ {0}
  OBVIOUS
<1>2. InsertAt(s, i, x) = Splice(s, i, i - 1, x)
  BY <1>1 DEF InsertAt, Splice
<1> QED BY <1>1, <1>2, SpliceIs

\* Range i takes the place of i - 1 and i.
LEMMA RemovedIs ==
  ASSUME NEW s \in Seq(Ranges), NEW i \in 2..Len(s), NEW x \in Ranges
  PROVE  IsSplice(RemoveAt([s EXCEPT ![i] = x], i - 1), s, i - 1, i, x)
<1> DEFINE t == [s EXCEPT ![i] = x]
           n == Len(s)
           p == SubSeq(t, 1, i - 2)
           q == SubSeq(t, i, n)
           r == p \o q
<1>1. t \in Seq(Ranges) /\ Len(t) = n /\ t[i] = x /\ \A j \in 1..n : j # i => t[j] = s[j]
  OBVIOUS
<1>2. n \in Nat /\ i \in 2..n
  OBVIOUS
<1> HIDE DEF t, n
<1>3. /\ p \in Seq(Ranges) /\ Len(p) = i - 2 /\ \A j \in 1..(i - 2) : p[j] = s[j]
  <2>1. i - 2 \in Nat /\ 1 <= (i - 2) + 1 /\ i - 2 <= n /\ ((i - 2) - 1) + 1 = i - 2
    BY <1>2
  <2>2. \A j \in 1..(i - 2) : (1 + j) - 1 = j /\ j \in 1..n /\ j # i
    BY <1>2
  <2>3. /\ p \in Seq(Ranges) /\ Len(p) = i - 2 /\ \A j \in 1..(i - 2) : p[j] = t[(1 + j) - 1]
    BY <1>1, <2>1, Part
  <2> HIDE DEF p
  <2> QED BY <1>1, <2>2, <2>3
<1>4. /\ q \in Seq(Ranges) /\ Len(q) = (n - i) + 1 /\ \A j \in 1..((n - i) + 1) : q[j] = t[(i + j) - 1]
  <2>1. i \in Nat /\ 1 <= i /\ i <= n + 1 /\ n <= n
    BY <1>2
  <2> QED BY <1>1, <1>2, <2>1, Part
<1> HIDE DEF p, q
<1>5. /\ r \in Seq(Ranges) /\ Len(r) = Len(p) + Len(q)
      /\ \A j \in 1..Len(p) : r[j] = p[j]
      /\ \A j \in 1..Len(q) : r[Len(p) + j] = q[j]
  BY <1>3, <1>4, Joined
<1> HIDE DEF r
<1>6. Len(r) = n - 1 /\ Len(r) = n - (i - (i - 1))
  BY <1>2, <1>3, <1>4, <1>5
<1>7. r[i - 1] = x
  <2>1. 1 \in 1..((n - i) + 1) /\ (i - 2) + 1 = i - 1 /\ (i + 1) - 1 = i
    BY <1>2
  <2>2. r[(i - 2) + 1] = t[(i + 1) - 1]
    BY <1>3, <1>4, <1>5, <2>1
  <2> QED BY <1>1, <2>1, <2>2
<1>8. ASSUME NEW j \in 1..((i - 1) - 1) PROVE r[j] = s[j]
  <2>1. j \in 1..(i - 2)
    BY <1>2
  <2> QED BY <1>3, <1>5, <2>1
<1>9. ASSUME NEW j \in ((i - 1) + 1)..Len(r) PROVE r[j] = s[j + (i - (i - 1))]
  <2> DEFINE k == j - (i - 2)
  <2>1. /\ k \in 1..((n - i) + 1) /\ (i - 2) + k = j /\ (i + k) - 1 = j + 1
        /\ j + (i - (i - 1)) = j + 1 /\ j + 1 \in 1..n /\ j + 1 # i
    BY <1>2, <1>6
  <2> HIDE DEF k
  <2>2. r[(i - 2) + k] = t[(i + k) - 1]
    BY <1>3, <1>4, <1>5, <2>1
  <2> QED BY <1>1, <2>1, <2>2
<1>a. RemoveAt(t, i - 1) = r
  <2>1. (i - 1) - 1 = i - 2 /\ (i - 1) + 1 = i
    BY <1>2
  <2> QED BY <1>1, <2>1 DEF RemoveAt, r, p, q
<1> QED BY <1>5, <1>6, <1>7, <1>8, <1>9, <1>a DEF IsSplice, t, n

\* r is s with [a, b] added, and ranges that did not border one another still
\* do not if [a, b] is new to s.
Inserted(r, s, a, b) ==
  /\ RangeList(r) /\ Members(r) = Members(s) \cup (a..b)
  /\ Apart(s, 1) /\ Members(s) \cap (a..b) = {} => Apart(r, 1)

LEMMA SpliceInserts ==
  ASSUME NEW s, RangeList(s), NEW r, NEW lo \in Nat \ {0}, NEW hi \in Nat,
         lo <= hi + 1, hi <= Len(s), NEW x \in Ranges, NEW a \in Nat, NEW b \in Nat, a <= b,
         IsSplice(r, s, lo, hi, x), Fits(s, lo, hi, x, a, b, 0),
         Apart(s, 1) /\ Members(s) \cap (a..b) = {} => Fits(s, lo, hi, x, a, b, 1)
  PROVE  Inserted(r, s, a, b)
<1>1. Apart(s, 0)
  <2>1. \A i \in DOMAIN s : s[i].end \in Nat
    BY RangeFields DEF RangeList
  <2>2. \A e \in Nat : e + 0 = e
    OBVIOUS
  <2> QED BY <2>1, <2>2 DEF RangeList, WellFormed, Apart
<1>2. 0 \in {0, 1} /\ 1 \in {0, 1}
  OBVIOUS
<1>3. RangeList(r) /\ Members(r) = Members(s) \cup (a..b)
  BY <1>1, <1>2, SpliceExact
<1>4. Apart(s, 1) /\ Members(s) \cap (a..b) = {} => Apart(r, 1)
  BY <1>2, SpliceExact
<1> QED BY <1>3, <1>4 DEF Inserted

\* [a, b] after all that is there.
LEMMA InsertedLast ==
  ASSUME NEW s, RangeList(s), NEW a \in Nat, NEW b \in Nat, a <= b,
         s # <<>>, a > s[Len(s)].end
  PROVE  Inserted(IF s[Len(s)].end + 1 = a THEN [s EXCEPT ![Len(s)].end = b]
                  ELSE Append(s, Interval(a, b)), s, a, b)
<1> DEFINE n == Len(s)
<1>0. /\ s \in Seq(Ranges) /\ n \in Nat /\ n >= 1 /\ DOMAIN s = 1..n
      /\ \A i \in 1..n : s[i].start \in Nat /\ s[i].end \in Nat /\ s[i].start <= s[i].end
      /\ \A i, j \in 1..n : i < j => s[i].end < s[j].start
  BY RangeFields DEF RangeList, WellFormed
<1>1. Apart(s, 1) => \A i, j \in 1..n : i < j => s[i].end + 1 < s[j].start
  BY <1>0 DEF Apart
<1>2. CASE s[n].end + 1 = a
  <2> DEFINE x == Interval(s[n].start, b)
  <2>1. x \in Ranges /\ x.start = s[n].start /\ x.end = b
    BY <1>0 DEF Ranges, Interval
  <2>2. [s EXCEPT ![n].end = b] = [s EXCEPT ![n] = x]
    <3>1. s[n] \in Ranges
      BY <1>0
    <3>2. [s[n] EXCEPT !.end = b] = x
      BY <3>1 DEF Ranges, Interval
    <3> QED BY <3>2
  <2>3. IsSplice([s EXCEPT ![n] = x], s, n, n, x)
    <3>1. n \in 1..Len(s)
      BY <1>0
    <3> HIDE DEF x, n
    <3> QED BY <1>0, <2>1, <3>1, ReplacedIs
  <2> HIDE DEF x
  <2>4. ASSUME NEW gap \in {0, 1}, \A i, j \in 1..n : i < j => s[i].end + gap < s[j].start
        PROVE  Fits(s, n, n, x, a, b, gap)
    <3>1. \A i \in 1..(n - 1) : s[i].end + gap < x.start
      BY <1>0, <2>1, <2>4
    <3>2. (n + 1)..n = {} /\ n..n = {n}
      BY <1>0
    <3>3. \A v \in Nat : x.start <= v /\ v <= x.end <=>
            \/ a <= v /\ v <= b
            \/ s[n].start <= v /\ v <= s[n].end
      BY <1>0, <1>2, <2>1
    <3> QED BY <3>1, <3>2, <3>3 DEF Fits, n
  <2>5. \A i, j \in 1..n : i < j => s[i].end + 0 < s[j].start
    BY <1>0
  <2>6. Fits(s, n, n, x, a, b, 0) /\ (Apart(s, 1) => Fits(s, n, n, x, a, b, 1))
    BY <1>1, <2>4, <2>5
  <2>7. n \in Nat \ {0} /\ n <= n + 1 /\ n <= Len(s)
    BY <1>0
  <2>8. Inserted([s EXCEPT ![n] = x], s, a, b)
    BY <2>1, <2>3, <2>6, <2>7, SpliceInserts
  <2> QED BY <1>2, <2>2, <2>8
<1>3. CASE s[n].end + 1 # a
  <2> DEFINE x == Interval(a, b)
  <2>1. x \in Ranges /\ x.start = a /\ x.end = b
    BY DEF Ranges, Interval
  <2>3. IsSplice(Append(s, x), s, n + 1, n, x)
    BY <1>0, <2>1, AppendedIs
  <2> HIDE DEF x
  <2>4. ASSUME NEW gap \in {0, 1} PROVE Fits(s, n + 1, n, x, a, b, gap)
    <3>1. ASSUME NEW i \in 1..n PROVE s[i].end + gap < a
      <4>1. s[i].end <= s[n].end
        BY <1>0
      <4>2. s[n].end + gap < a
        BY <1>0, <1>3
      <4> QED BY <1>0, <4>1, <4>2
    <3>2. (n + 1)..n = {} /\ (n + 1) - 1 = n
      BY <1>0
    <3> QED BY <2>1, <3>1, <3>2 DEF Fits, n
  <2>7. n + 1 \in Nat \ {0} /\ n + 1 <= n + 1 /\ n <= Len(s)
    BY <1>0
  <2>8. Inserted(Append(s, x), s, a, b)
    BY <1>0, <2>1, <2>3, <2>4, <2>7, SpliceInserts
  <2> QED BY <1>3, <2>8 DEF x
<1> QED BY <1>2, <1>3

\* [a, b] overlaps the ranges lo..hi and no other.
LEMMA InsertedOver ==
  ASSUME NEW s, RangeList(s), NEW a \in Nat, NEW b \in Nat, a <= b,
         NEW lo \in 1..Len(s), NEW hi \in 1..Len(s), lo <= hi,
         overlaps(s[lo], a, b), overlaps(s[hi], a, b),
         \A i \in 1..Len(s) : overlaps(s[i], a, b) => lo <= i /\ i <= hi
  PROVE  Inserted(Splice(s, lo, hi, Interval(Min({a, s[lo].start}), Max({b, s[hi].end}))), s, a, b)
<1> DEFINE n == Len(s)
           x == Interval(Min({a, s[lo].start}), Max({b, s[hi].end}))
<1>0. /\ s \in Seq(Ranges) /\ n \in Nat /\ DOMAIN s = 1..n
      /\ \A i \in 1..n : s[i].start \in Nat /\ s[i].end \in Nat /\ s[i].start <= s[i].end /\ s[i] \in Ranges
      /\ \A i, j \in 1..n : i < j => s[i].end < s[j].start
      /\ lo \in 1..n /\ hi \in 1..n
  BY RangeFields DEF RangeList, WellFormed
<1>1. \A i \in 1..n : overlaps(s[i], a, b) <=> s[i].start <= b /\ a <= s[i].end
  BY <1>0, Overlap
<1> HIDE DEF n
<1>2. /\ s[lo].start <= b /\ a <= s[lo].end /\ s[hi].start <= b /\ a <= s[hi].end
      /\ \A i \in 1..n : s[i].start <= b /\ a <= s[i].end => lo <= i /\ i <= hi
  BY <1>0, <1>1 DEF n
<1>3. /\ Min({a, s[lo].start}) = IF a <= s[lo].start THEN a ELSE s[lo].start
      /\ Max({b, s[hi].end}) = IF b >= s[hi].end THEN b ELSE s[hi].end
  <2>1. s[lo].start \in Int /\ s[hi].end \in Int /\ a \in Int /\ b \in Int
    BY <1>0
  <2>2. Min({a, s[lo].start}) = IF a <= s[lo].start THEN a ELSE s[lo].start
    BY <2>1, MinMax
  <2>3. Max({b, s[hi].end}) = IF b >= s[hi].end THEN b ELSE s[hi].end
    BY <2>1, MinMax
  <2> QED BY <2>2, <2>3
<1>4. /\ x \in Ranges /\ x.start \in Nat /\ x.end \in Nat
      /\ x.start <= a /\ x.start <= s[lo].start /\ (x.start = a \/ x.start = s[lo].start)
      /\ b <= x.end /\ s[hi].end <= x.end /\ (x.end = b \/ x.end = s[hi].end)
  <2>1. x.start = Min({a, s[lo].start}) /\ x.end = Max({b, s[hi].end})
    BY DEF Interval
  <2>2. x.start \in Nat /\ x.end \in Nat
    BY <1>0, <1>3, <2>1
  <2>3. x \in Ranges
    BY <2>1, <2>2 DEF Interval, Ranges
  <2> HIDE DEF x
  <2> QED BY <1>0, <1>3, <2>1, <2>2, <2>3
<1> HIDE DEF x
<1>5. ASSUME NEW i \in 1..(lo - 1) PROVE s[i].end < x.start
  <2>1. i \in 1..n /\ i < lo
    BY <1>0
  <2>2. s[i].end < s[lo].start /\ s[i].start <= b
    BY <1>0, <1>2, <2>1
  <2>3. ~ (a <= s[i].end)
    BY <1>0, <1>2, <2>1, <2>2
  <2> QED BY <1>0, <1>4, <2>1, <2>2, <2>3
<1>6. ASSUME NEW i \in (hi + 1)..n PROVE x.end < s[i].start
  <2>1. i \in 1..n /\ hi < i
    BY <1>0
  <2>2. s[hi].end < s[i].start /\ a <= s[i].end
    <3>1. s[hi].end < s[i].start /\ a <= s[hi].end /\ s[i].start <= s[i].end
      BY <1>0, <1>2, <2>1
    <3>2. s[hi].end \in Nat /\ s[i].start \in Nat /\ s[i].end \in Nat
      BY <1>0, <2>1
    <3>3. \A p, q, r \in Nat : a <= p /\ p < q /\ q <= r => a <= r
      OBVIOUS
    <3>4. a <= s[i].end
      BY <3>1, <3>2, <3>3
    <3> QED BY <3>1, <3>4
  <2>3. ~ (s[i].start <= b)
    BY <1>0, <1>2, <2>1, <2>2
  <2> QED BY <1>0, <1>4, <2>1, <2>2, <2>3
<1>7. ASSUME NEW v \in Nat
      PROVE  x.start <= v /\ v <= x.end <=>
               \/ a <= v /\ v <= b
               \/ \E i \in lo..hi : s[i].start <= v /\ v <= s[i].end
  <2>1. ASSUME x.start <= v, v <= x.end, ~ (a <= v /\ v <= b)
        PROVE  \E i \in lo..hi : s[i].start <= v /\ v <= s[i].end
    <3>1. CASE v < a
      <4>1. s[lo].start <= v /\ v <= s[lo].end
        BY <1>0, <1>2, <1>4, <2>1, <3>1
      <4>2. lo \in lo..hi
        BY <1>0
      <4> QED BY <4>1, <4>2
    <3>2. CASE v > b
      <4>1. s[hi].start <= v /\ v <= s[hi].end
        BY <1>0, <1>2, <1>4, <2>1, <3>2
      <4>2. hi \in lo..hi
        BY <1>0
      <4> QED BY <4>1, <4>2
    <3> QED BY <2>1, <3>1, <3>2
  <2>2. ASSUME NEW i \in lo..hi, s[i].start <= v, v <= s[i].end PROVE x.start <= v /\ v <= x.end
    <3>1. i \in 1..n
      BY <1>0
    <3>2. s[lo].start <= s[i].start
      BY <1>0, <3>1
    <3>3. s[i].end <= s[hi].end
      BY <1>0, <3>1
    <3>4. /\ s[i].start \in Nat /\ s[i].end \in Nat /\ s[lo].start \in Nat /\ s[hi].end \in Nat
          /\ x.start <= s[lo].start /\ s[hi].end <= x.end /\ x.start \in Nat /\ x.end \in Nat
      BY <1>0, <1>4, <3>1
    <3>5. \A p, q, r \in Nat : p <= q /\ q <= r /\ r <= v => p <= v
      OBVIOUS
    <3>6. \A p, q, r \in Nat : v <= p /\ p <= q /\ q <= r => v <= r
      OBVIOUS
    <3> QED BY <2>2, <3>2, <3>3, <3>4, <3>5, <3>6, Zenon
  <2>3. ASSUME a <= v, v <= b PROVE x.start <= v /\ v <= x.end
    BY <1>4, <2>3
  <2> QED BY <2>1, <2>2, <2>3
<1>8. Fits(s, lo, hi, x, a, b, 0)
  <2>1. \A i \in 1..(lo - 1) : s[i].end + 0 < x.start
    BY <1>0, <1>5
  <2>2. \A i \in (hi + 1)..n : x.end + 0 < s[i].start
    BY <1>4, <1>6
  <2> QED BY <1>7, <2>1, <2>2 DEF Fits, n
<1>9. ~ (Members(s) \cap (a..b) = {})
  <2> DEFINE v == IF a <= s[lo].start THEN s[lo].start ELSE a
  <2>1. v \in Nat /\ s[lo].start <= v /\ v <= s[lo].end /\ v \in a..b
    BY <1>0, <1>2
  <2>2. v \in Members(s)
    BY <1>0, <2>1, InMembers DEF n
  <2> QED BY <2>1, <2>2
<1>10. IsSplice(Splice(s, lo, hi, x), s, lo, hi, x) /\ lo \in Nat \ {0} /\ hi \in Nat /\ lo <= hi + 1 /\ hi <= Len(s)
  <2>1. lo \in Nat \ {0} /\ hi \in Nat /\ lo <= hi + 1 /\ hi <= Len(s)
    BY <1>0 DEF n
  <2> QED BY <1>0, <1>4, <2>1, SpliceIs
<1>11. Inserted(Splice(s, lo, hi, x), s, a, b)
  BY <1>4, <1>8, <1>9, <1>10, SpliceInserts
<1> QED BY <1>11 DEF x

\* [a, b] lies in the gap before range i.
LEMMA InsertedGap ==
  ASSUME NEW s, RangeList(s), NEW a \in Nat, NEW b \in Nat, a <= b,
         NEW i \in 1..Len(s), b < s[i].start, i = 1 \/ a > s[i - 1].end
  PROVE  Inserted(insert_in_gap(s, i, a, b), s, a, b)
<1> DEFINE n == Len(s)
<1>0. /\ s \in Seq(Ranges) /\ n \in Nat /\ DOMAIN s = 1..n /\ i \in 1..n
      /\ \A k \in 1..n : s[k].start \in Nat /\ s[k].end \in Nat /\ s[k].start <= s[k].end /\ s[k] \in Ranges
      /\ \A k, l \in 1..n : k < l => s[k].end < s[l].start
  BY RangeFields DEF RangeList, WellFormed
<1>1. Apart(s, 1) => \A k, l \in 1..n : k < l => s[k].end + 1 < s[l].start
  BY <1>0 DEF Apart
<1>2. i > 1 => i - 1 \in 1..n /\ s[i - 1].end < a
  BY <1>0
<1> HIDE DEF n
<1> DEFINE p == i - 1
           t == [s EXCEPT ![i].start = a]
           c == Interval(a, s[i].end)
<1>t. t = [s EXCEPT ![i] = c] /\ c \in Ranges /\ c.start = a /\ c.end = s[i].end
  <2>1. s[i] \in Ranges /\ s[i].end \in Nat
    BY <1>0
  <2>2. [s[i] EXCEPT !.start = a] = c
    BY <2>1 DEF Ranges, Interval
  <2>3. c \in Ranges /\ c.start = a /\ c.end = s[i].end
    BY <2>1 DEF Ranges, Interval
  <2> QED BY <2>2, <2>3
<1>3. CASE s[i].start = b + 1 /\ i > 1 /\ a - 1 = s[p].end
  <2> DEFINE x == Interval(s[p].start, s[i].end)
  <2>0. p \in 1..n /\ p < i /\ i \in 2..n
    BY <1>0, <1>2, <1>3
  <2>1. x \in Ranges /\ x.start = s[p].start /\ x.end = s[i].end
    BY <1>0, <2>0 DEF Ranges, Interval
  <2>2. insert_in_gap(s, i, a, b) = RemoveAt([s EXCEPT ![i] = x], p)
    <3> HIDE DEF t, c
    <3>1. t[i] = c /\ t[p] = s[p]
      BY <1>0, <1>t, <2>0
    <3>2. [t EXCEPT ![i].start = t[p].start] = [s EXCEPT ![i] = x]
      <4>1. [t[i] EXCEPT !.start = t[p].start] = x
        BY <3>1, <1>t DEF Ranges, Interval
      <4>2. [t EXCEPT ![i].start = t[p].start] = [t EXCEPT ![i] = x]
        BY <4>1
      <4> HIDE DEF x
      <4>3. [t EXCEPT ![i] = x] = [s EXCEPT ![i] = x]
        BY <1>0, <1>t
      <4> QED BY <4>2, <4>3
    <3>3. merge_adjacent(t, i) = RemoveAt([t EXCEPT ![i].start = t[p].start], p)
      BY <1>3, <1>t, <3>1 DEF merge_adjacent
    <3>4. insert_in_gap(s, i, a, b) = merge_adjacent(t, i)
      BY <1>3 DEF insert_in_gap, t
    <3> QED BY <3>2, <3>3, <3>4
  <2> HIDE DEF x
  <2>3. IsSplice(RemoveAt([s EXCEPT ![i] = x], p), s, p, i, x)
    BY <1>0, <2>0, <2>1, RemovedIs DEF n
  <2>4. ASSUME NEW gap \in {0, 1}, \A k, l \in 1..n : k < l => s[k].end + gap < s[l].start
        PROVE  Fits(s, p, i, x, a, b, gap)
    <3>1. \A k \in 1..(p - 1) : s[k].end + gap < x.start
      BY <1>0, <2>0, <2>1, <2>4
    <3>2. \A k \in (i + 1)..n : x.end + gap < s[k].start
      BY <1>0, <2>0, <2>1, <2>4
    <3>3. p..i = {p, i}
      BY <1>0, <2>0
    <3>4. \A v \in Nat : x.start <= v /\ v <= x.end <=>
            \/ a <= v /\ v <= b
            \/ s[p].start <= v /\ v <= s[p].end
            \/ s[i].start <= v /\ v <= s[i].end
      <4> HIDE DEF p
      <4> QED BY <1>0, <1>3, <2>0, <2>1
    <3> HIDE DEF p
    <3> QED BY <3>1, <3>2, <3>3, <3>4 DEF Fits, n
  <2>5. \A k, l \in 1..n : k < l => s[k].end + 0 < s[l].start
    BY <1>0
  <2>6. Fits(s, p, i, x, a, b, 0) /\ (Apart(s, 1) => Fits(s, p, i, x, a, b, 1))
    BY <1>1, <2>4, <2>5
  <2>7. p \in Nat \ {0} /\ i \in Nat /\ p <= i + 1 /\ i <= Len(s)
    BY <1>0, <2>0 DEF n
  <2> QED BY <2>1, <2>2, <2>3, <2>6, <2>7, SpliceInserts
<1>4. CASE s[i].start = b + 1 /\ ~ (i > 1 /\ a - 1 = s[p].end)
  <2>1. c \in Ranges /\ c.start = a /\ c.end = s[i].end
    BY <1>t
  <2>2. insert_in_gap(s, i, a, b) = [s EXCEPT ![i] = c]
    <3> HIDE DEF t, c
    <3>1. t[i] = c /\ (i > 1 => t[p] = s[p])
      BY <1>0, <1>2, <1>t
    <3>2. merge_adjacent(t, i) = t
      BY <1>4, <1>t, <3>1 DEF merge_adjacent
    <3> QED BY <1>4, <1>t, <3>2 DEF insert_in_gap, t
  <2> HIDE DEF c, t
  <2>3. IsSplice([s EXCEPT ![i] = c], s, i, i, c)
    BY <1>0, <2>1, ReplacedIs
  <2>4. ASSUME NEW gap \in {0, 1}, \A k, l \in 1..n : k < l => s[k].end + gap < s[l].start
        PROVE  Fits(s, i, i, c, a, b, gap)
    <3>1. ASSUME NEW k \in 1..(i - 1) PROVE s[k].end + gap < c.start
      <4>1. k \in 1..n /\ p \in 1..n /\ i > 1 /\ (k = p \/ k < p)
        BY <1>0
      <4>2. s[k].end <= s[p].end
        BY <1>0, <4>1
      <4>3. s[p].end < a /\ a # s[p].end + 1
        BY <1>0, <1>2, <1>4, <4>1
      <4>4. s[k].end \in Nat /\ s[p].end \in Nat
        BY <1>0, <4>1
      <4> HIDE DEF p
      <4>5. \A e, q \in Nat : e <= q /\ q < a /\ a # q + 1 => e + gap < a
        OBVIOUS
      <4>6. s[k].end + gap < a
        BY <4>2, <4>3, <4>4, <4>5, Zenon
      <4> QED BY <2>1, <4>6
    <3>2. \A k \in (i + 1)..n : c.end + gap < s[k].start
      BY <1>0, <2>1, <2>4
    <3>3. i..i = {i}
      BY <1>0
    <3>4. \A v \in Nat : c.start <= v /\ v <= c.end <=>
            \/ a <= v /\ v <= b
            \/ s[i].start <= v /\ v <= s[i].end
      BY <1>0, <1>4, <2>1
    <3> QED BY <3>1, <3>2, <3>3, <3>4 DEF Fits, n
  <2>5. \A k, l \in 1..n : k < l => s[k].end + 0 < s[l].start
    BY <1>0
  <2>6. Fits(s, i, i, c, a, b, 0) /\ (Apart(s, 1) => Fits(s, i, i, c, a, b, 1))
    BY <1>1, <2>4, <2>5
  <2>7. i \in Nat \ {0} /\ i <= i + 1 /\ i <= Len(s)
    BY <1>0 DEF n
  <2> QED BY <2>1, <2>2, <2>3, <2>6, <2>7, SpliceInserts
<1> HIDE DEF t, c
<1>5. CASE s[i].start # b + 1 /\ i > 1 /\ s[p].end + 1 = a
  <2> DEFINE x == Interval(s[p].start, b)
  <2>0. p \in 1..n /\ p < i /\ p \in 1..Len(s)
    BY <1>0, <1>2, <1>5 DEF n
  <2>1. x \in Ranges /\ x.start = s[p].start /\ x.end = b
    BY <1>0, <2>0 DEF Ranges, Interval
  <2>2. insert_in_gap(s, i, a, b) = [s EXCEPT ![p] = x]
    <3> DEFINE u == [s EXCEPT ![p].end = b]
    <3>1. u = [s EXCEPT ![p] = x]
      <4>1. s[p] \in Ranges
        BY <1>0, <2>0
      <4>2. [s[p] EXCEPT !.end = b] = x
        BY <4>1 DEF Ranges, Interval
      <4> QED BY <4>2
    <3> HIDE DEF x
    <3>2. u[i] = s[i] /\ u[p] = x
      BY <1>0, <2>0, <3>1
    <3>3. s[i].start \in Nat
      BY <1>0
    <3> HIDE DEF u
    <3>4. merge_adjacent(u, i) = u
      <4>1. s[i].start - 1 # b
        BY <1>5, <3>3
      <4> QED BY <2>1, <3>2, <4>1 DEF merge_adjacent
    <3>5. insert_in_gap(s, i, a, b) = merge_adjacent(u, i)
      BY <1>5 DEF insert_in_gap, u
    <3> QED BY <3>1, <3>4, <3>5
  <2> HIDE DEF x
  <2>3. IsSplice([s EXCEPT ![p] = x], s, p, p, x)
    <3> HIDE DEF p
    <3> QED BY <1>0, <2>0, <2>1, ReplacedIs
  <2>4. ASSUME NEW gap \in {0, 1}, \A k, l \in 1..n : k < l => s[k].end + gap < s[l].start
        PROVE  Fits(s, p, p, x, a, b, gap)
    <3>1. \A k \in 1..(p - 1) : s[k].end + gap < x.start
      BY <1>0, <2>0, <2>1, <2>4
    <3>2. ASSUME NEW k \in (p + 1)..n PROVE x.end + gap < s[k].start
      <4>1. k \in 1..n /\ (k = i \/ i < k)
        BY <1>0, <2>0
      <4>2. s[i].start <= s[k].start
        <5>1. CASE k = i
          BY <1>0, <5>1
        <5>2. CASE i < k
          <6>1. s[i].end < s[k].start /\ s[i].start <= s[i].end
            BY <1>0, <4>1, <5>2
          <6>2. s[i].end \in Nat /\ s[i].start \in Nat /\ s[k].start \in Nat
            BY <1>0, <4>1
          <6> QED BY <6>1, <6>2
        <5> QED BY <4>1, <5>1, <5>2
      <4>3. b + gap < s[i].start
        BY <1>0, <1>5
      <4> QED BY <1>0, <2>1, <4>1, <4>2, <4>3
    <3>3. p..p = {p}
      BY <1>0, <2>0
    <3> HIDE DEF p
    <3>4. \A v \in Nat : x.start <= v /\ v <= x.end <=>
            \/ a <= v /\ v <= b
            \/ s[p].start <= v /\ v <= s[p].end
      BY <1>0, <1>5, <2>0, <2>1
    <3> QED BY <3>1, <3>2, <3>3, <3>4 DEF Fits, n
  <2>5. \A k, l \in 1..n : k < l => s[k].end + 0 < s[l].start
    BY <1>0
  <2>6. Fits(s, p, p, x, a, b, 0) /\ (Apart(s, 1) => Fits(s, p, p, x, a, b, 1))
    BY <1>1, <2>4, <2>5
  <2>7. p \in Nat \ {0} /\ p <= p + 1 /\ p <= Len(s)
    BY <1>0, <2>0 DEF n
  <2> HIDE DEF p
  <2> QED BY <2>1, <2>2, <2>3, <2>6, <2>7, SpliceInserts
<1>6. CASE s[i].start # b + 1 /\ ~ (i > 1 /\ s[p].end + 1 = a)
  <2> DEFINE x == Interval(a, b)
  <2>1. x \in Ranges /\ x.start = a /\ x.end = b
    BY DEF Ranges, Interval
  <2>2. insert_in_gap(s, i, a, b) = InsertAt(s, i, x)
    BY <1>6 DEF insert_in_gap
  <2> HIDE DEF x
  <2>3. IsSplice(InsertAt(s, i, x), s, i, p, x)
    BY <1>0, <2>1, InsertedIs
  <2>4. ASSUME NEW gap \in {0, 1} PROVE Fits(s, i, p, x, a, b, gap)
    <3>1. ASSUME NEW k \in 1..(i - 1) PROVE s[k].end + gap < x.start
      <4>1. k \in 1..n /\ p \in 1..n /\ i > 1 /\ (k = p \/ k < p)
        BY <1>0
      <4>2. s[k].end <= s[p].end
        BY <1>0, <4>1
      <4>3. s[p].end < a /\ a # s[p].end + 1
        BY <1>0, <1>2, <1>6, <4>1
      <4>4. s[k].end \in Nat /\ s[p].end \in Nat
        BY <1>0, <4>1
      <4> HIDE DEF p
      <4>5. \A e, q \in Nat : e <= q /\ q < a /\ a # q + 1 => e + gap < a
        OBVIOUS
      <4>6. s[k].end + gap < a
        BY <4>2, <4>3, <4>4, <4>5, Zenon
      <4> QED BY <2>1, <4>6
    <3>2. ASSUME NEW k \in (p + 1)..n PROVE x.end + gap < s[k].start
      <4>1. k \in 1..n /\ (k = i \/ i < k)
        BY <1>0
      <4>2. s[i].start <= s[k].start
        <5>1. CASE k = i
          BY <1>0, <5>1
        <5>2. CASE i < k
          <6>1. s[i].end < s[k].start /\ s[i].start <= s[i].end
            BY <1>0, <4>1, <5>2
          <6>2. s[i].end \in Nat /\ s[i].start \in Nat /\ s[k].start \in Nat
            BY <1>0, <4>1
          <6> QED BY <6>1, <6>2
        <5> QED BY <4>1, <5>1, <5>2
      <4>3. b + gap < s[i].start
        BY <1>0, <1>6
      <4> QED BY <1>0, <2>1, <4>1, <4>2, <4>3
    <3>3. i..p = {}
      BY <1>0
    <3> HIDE DEF p
    <3> QED BY <2>1, <3>1, <3>2, <3>3 DEF Fits, n
  <2>7. i \in Nat \ {0} /\ p \in Nat /\ i <= p + 1 /\ p <= Len(s)
    BY <1>0 DEF n
  <2> HIDE DEF p
  <2> QED BY <2>1, <2>2, <2>3, <2>4, <2>7, SpliceInserts
<1> QED BY <1>3, <1>4, <1>5, <1>6

\* When nothing overlaps and [a, b] is not after all, there is a gap for it.
LEMMA GapFound ==
  ASSUME NEW s, RangeList(s), NEW a \in Nat, NEW b \in Nat, a <= b,
         s # <<>>, a <= s[Len(s)].end, \A i \in 1..Len(s) : ~ overlaps(s[i], a, b)
  PROVE  \E i \in 1..Len(s) : b < s[i].start /\ (i = 1 \/ a > s[i - 1].end)
<1> DEFINE n == Len(s)
           T == {i \in 1..n : a <= s[i].end}
<1>0. /\ s \in Seq(Ranges) /\ n \in Nat /\ n >= 1
      /\ \A i \in 1..n : s[i].start \in Nat /\ s[i].end \in Nat /\ s[i].start <= s[i].end /\ s[i] \in Ranges
  BY RangeFields DEF RangeList, WellFormed
<1>1. T \in SUBSET Nat /\ T # {}
  <2>1. n \in T
    BY <1>0
  <2> QED BY <2>1
<1>2. PICK i \in T : \A j \in T : i <= j
  <2> HIDE DEF T
  <2> QED BY <1>1, Smallest
<1>3. i \in 1..n /\ a <= s[i].end
  BY <1>2
<1>4. b < s[i].start
  <2>1. ~ (s[i].start <= b /\ a <= s[i].end)
    BY <1>0, <1>3, Overlap
  <2> QED BY <1>0, <1>3, <2>1
<1>5. i = 1 \/ a > s[i - 1].end
  <2> SUFFICES ASSUME i # 1 PROVE a > s[i - 1].end
    OBVIOUS
  <2>1. i - 1 \in 1..n /\ ~ (i <= i - 1)
    BY <1>0, <1>3
  <2>2. ~ (a <= s[i - 1].end)
    BY <1>2, <2>1
  <2> QED BY <1>0, <2>1, <2>2
<1> QED BY <1>3, <1>4, <1>5

\* All paths of ossl_uint_set_insert give a list in order, of just the integers
\* there were and the ones inserted.
LEMMA InsertExact ==
  ASSUME NEW s, RangeList(s), NEW a \in Nat, NEW b \in Nat, a <= b
  PROVE  Inserted(insert(s, a, b), s, a, b)
<1> DEFINE n == Len(s)
           over == {i \in 1..n : overlaps(s[i], a, b)}
           gap == {i \in 1..n : b < s[i].start /\ (i = 1 \/ a > s[i - 1].end)}
           lo == earliest_overlap(over)
           hi == Max(over)
           one == <<Interval(a, b)>>
           last == IF s[n].end + 1 = a THEN [s EXCEPT ![n].end = b] ELSE Append(s, Interval(a, b))
           spliced == Splice(s, lo, hi, Interval(Min({a, s[lo].start}), Max({b, s[hi].end})))
           all == a <= s[1].start /\ b >= s[n].end
           within == \E i \in 1..n : s[i].start <= a /\ s[i].end >= b
<1>0. /\ s \in Seq(Ranges) /\ n \in Nat
      /\ \A i \in 1..n : s[i].start \in Nat /\ s[i].end \in Nat /\ s[i].start <= s[i].end
      /\ \A i, j \in 1..n : i < j => s[i].end < s[j].start
  BY RangeFields DEF RangeList, WellFormed
<1>1. insert(s, a, b) =
        IF n = 0 THEN one ELSE IF a > s[n].end THEN last ELSE IF all THEN one
        ELSE IF within THEN s ELSE IF over # {} THEN spliced
        ELSE insert_in_gap(s, Max(gap), a, b)
  BY DEF insert
<1>2. RangeList(one) /\ Members(one) = a..b /\ Apart(one, 1)
  <2>1. DOMAIN one = {1}
    OBVIOUS
  <2> QED BY <2>1, OneRange DEF Apart
<1> HIDE DEF one, last, spliced, all, within, over, gap
<1>3. CASE n = 0
  <2>1. s = <<>> /\ insert(s, a, b) = one
    BY <1>0, <1>1, <1>3
  <2> QED BY <1>2, <2>1, NoRange DEF Inserted
<1>4. CASE n # 0 /\ a > s[n].end
  <2>1. insert(s, a, b) = last /\ s # <<>>
    BY <1>0, <1>1, <1>4
  <2> QED BY <1>4, <2>1, InsertedLast DEF last
<1>5. CASE n # 0 /\ ~ (a > s[n].end) /\ all
  <2>1. insert(s, a, b) = one
    BY <1>1, <1>5
  <2>2. ASSUME NEW v \in Members(s) PROVE v \in a..b
    <3>1. PICK i \in 1..n : v \in Nat /\ s[i].start <= v /\ v <= s[i].end
      BY <1>0, InMembers
    <3>2. 1 \in 1..n /\ n \in 1..n
      BY <1>0, <1>5
    <3>3. s[1].start <= s[i].start /\ s[i].end <= s[n].end
      <4>1. (i = 1 \/ 1 < i) /\ (i = n \/ i < n)
        BY <1>0
      <4> QED BY <1>0, <3>2, <4>1
    <3>4. a <= s[1].start /\ s[n].end <= b
      BY <1>0, <1>5, <3>2 DEF all
    <3>5. a <= v /\ v <= b
      <4> HIDE DEF n
      <4> QED BY <1>0, <3>1, <3>2, <3>3, <3>4
    <3> QED BY <3>1, <3>5
  <2> QED BY <1>2, <2>1, <2>2 DEF Inserted
<1>6. CASE n # 0 /\ ~ (a > s[n].end) /\ ~ all /\ within
  <2>1. insert(s, a, b) = s
    BY <1>1, <1>6
  <2>2. PICK i \in 1..n : s[i].start <= a /\ s[i].end >= b
    BY <1>6 DEF within
  <2>3. ASSUME NEW v \in a..b PROVE v \in Members(s)
    <3>1. v \in Nat /\ s[i].start <= v /\ v <= s[i].end
      BY <1>0, <2>2
    <3> QED BY <1>0, <3>1, InMembers
  <2> QED BY <2>1, <2>3 DEF Inserted
<1>7. CASE n # 0 /\ ~ (a > s[n].end) /\ ~ all /\ ~ within /\ over # {}
  <2>1. insert(s, a, b) = spliced
    BY <1>1, <1>7
  <2>2. over \in SUBSET (1..n)
    BY DEF over
  <2>3. /\ lo \in over /\ hi \in over /\ \A i \in over : lo <= i /\ i <= hi
    <3>1. Min(over) \in over /\ \A i \in over : Min(over) <= i
      BY <1>0, <1>7, <2>2, LeastIn
    <3>2. Max(over) \in over /\ \A i \in over : i <= Max(over)
      BY <1>0, <1>7, <2>2, GreatestIn
    <3> QED BY <3>1, <3>2 DEF earliest_overlap
  <2> HIDE DEF lo, hi
  <2>4. /\ lo \in 1..n /\ hi \in 1..n /\ lo <= hi /\ overlaps(s[lo], a, b) /\ overlaps(s[hi], a, b)
        /\ \A i \in 1..n : overlaps(s[i], a, b) => lo <= i /\ i <= hi
    BY <2>3 DEF over
  <2>5. Inserted(spliced, s, a, b)
    BY <2>4, InsertedOver DEF spliced
  <2> QED BY <2>1, <2>5
<1>8. CASE n # 0 /\ ~ (a > s[n].end) /\ ~ all /\ ~ within /\ over = {}
  <2>1. insert(s, a, b) = insert_in_gap(s, Max(gap), a, b)
    BY <1>1, <1>8
  <2>2. gap # {} /\ gap \in SUBSET (1..n)
    <3>1. s # <<>> /\ a <= s[n].end
      BY <1>0, <1>8
    <3>2. \A i \in 1..n : ~ overlaps(s[i], a, b)
      BY <1>8 DEF over
    <3>3. \E i \in 1..n : b < s[i].start /\ (i = 1 \/ a > s[i - 1].end)
      BY <3>1, <3>2, GapFound
    <3> QED BY <3>3 DEF gap
  <2>3. Max(gap) \in gap
    BY <1>0, <2>2, GreatestIn
  <2> DEFINE i == Max(gap)
  <2>4. i \in 1..n /\ b < s[i].start /\ (i = 1 \/ a > s[i - 1].end)
    <3> HIDE DEF i
    <3> QED BY <2>3 DEF gap, i
  <2> HIDE DEF i
  <2>5. Inserted(insert_in_gap(s, i, a, b), s, a, b)
    BY <2>4, InsertedGap
  <2> QED BY <2>1, <2>5 DEF i
<1> QED BY <1>3, <1>4, <1>5, <1>6, <1>7, <1>8

-----------------------------------------------------------------------------
(* The send buffer.                                                        *)

IsChunk(c) == c.start \in Nat /\ c.end \in Nat

\* An empty stream that is concluded: its FIN stands for all offsets.
Empty == head_offset = 0 /\ have_final_size
Whole == <<Interval(0, U64 - 1)>>

Types ==
  /\ cell \in Seq(Int) /\ alloc \in Nat \ {0}
  /\ head_offset \in 0..MaxOffset /\ ctail_offset \in 0..head_offset
  /\ ring_buf_used <= alloc
  /\ \A c \in inflight : IsChunk(c)

\* Both lists are in order, and acknowledged ranges do not border one another.
Lists ==
  /\ RangeList(new_set) /\ RangeList(acked_set) /\ Apart(acked_set, 1)
  /\ Empty => new_set \in {<<>>, Whole} /\ acked_set \in {<<>>, Whole}
  /\ ~ Empty => Members(new_set) \subseteq Bytes /\ Members(acked_set) \subseteq Bytes

Chunks ==
  \A c \in inflight : /\ Empty => c.start = 0 /\ c.end = U64 - 1
                      /\ ~ Empty => c.end < head_offset

Carries(c, b) == c.start <= b /\ b <= c.end

\* Every byte is new, acknowledged or in one chunk.
States ==
  \A b \in Bytes :
    /\ b \in Members(new_set) => b \notin Members(acked_set)
    /\ b \in Members(new_set) \cup Members(acked_set)
         => \A c \in inflight : ~ Carries(c, b)
    /\ b \notin Members(new_set) \cup Members(acked_set)
         => \E c \in inflight : Carries(c, b)
    /\ \A c, d \in inflight : Carries(c, b) /\ Carries(d, b) => c = d

\* The ring holds the bytes from the tail on; those before are acknowledged.
Held ==
  /\ \A b \in ctail_offset..(head_offset - 1) : cell[Place(b, alloc)] = b
  /\ \A b \in 0..(ctail_offset - 1) : b \in Members(acked_set)

IInv == Types /\ Lists /\ Chunks /\ States /\ Held

LEMMA Numbers ==
  ASSUME Types
  PROVE  /\ head_offset \in Nat /\ ctail_offset \in Nat /\ ctail_offset <= head_offset
         /\ head_offset <= MaxOffset /\ MaxOffset \in Nat /\ alloc \in Nat /\ alloc > 0
         /\ head_offset - ctail_offset <= alloc
         /\ U64 \in Nat \ {0} /\ U64 - 1 \in Nat /\ MaxOffset <= U64 - 1
BY QuicSStreamAssumption DEF Types, U64, ring_buf_used

LEMMA ChunkFields ==
  ASSUME Types, NEW c \in inflight
  PROVE  c.start \in Nat /\ c.end \in Nat
BY DEF Types, IsChunk

LEMMA WholeFacts ==
  ASSUME Types
  PROVE  /\ RangeList(Whole) /\ Members(Whole) = 0..(U64 - 1) /\ Apart(Whole, 1)
         /\ Len(Whole) = 1 /\ Whole[1].start = 0 /\ Whole[1].end = U64 - 1 /\ Whole # <<>>
<1>1. 0 \in Nat /\ U64 - 1 \in Nat /\ 0 <= U64 - 1
  BY Numbers
<1>2. Len(Whole) = 1 /\ Whole[1].start = 0 /\ Whole[1].end = U64 - 1 /\ DOMAIN Whole = {1}
  BY DEF Whole, Interval
<1>3. Apart(Whole, 1) /\ Whole # <<>>
  <2>1. \A i, j \in {1} : ~ (i < j)
    OBVIOUS
  <2>2. Apart(Whole, 1)
    BY <1>2, <2>1, Zenon DEF Apart
  <2>3. Whole # <<>>
    BY DEF Whole
  <2> QED BY <2>2, <2>3
<1> QED BY <1>1, <1>2, <1>3, OneRange DEF Whole

(* Arithmetic of the ring.                                                 *)

LEMMA ModRange ==
  ASSUME NEW n \in Nat \ {0}, NEW x \in Nat
  PROVE  x % n \in 0..(n - 1) /\ (x < n => x % n = x)
OBVIOUS

LEMMA ModBelowZero ==
  ASSUME NEW n \in Nat \ {0}
  PROVE  (-1) % n = n - 1
OBVIOUS

LEMMA Division ==
  ASSUME NEW n \in Nat \ {0}, NEW x \in Nat
  PROVE  x = (n * (x \div n)) + (x % n) /\ x \div n \in Int
OBVIOUS

LEMMA Multiple ==
  ASSUME NEW n \in Nat \ {0}, NEW k \in Int, 0 < n * k
  PROVE  n * k >= n
<1>1. CASE k <= 0
  <2>1. n * k <= 0
    BY <1>1
  <2> QED BY <2>1
<1>2. CASE k >= 1
  BY <1>2
<1> QED BY <1>1, <1>2

LEMMA PlacesApart ==
  ASSUME NEW n \in Nat \ {0}, NEW x \in Nat, NEW y \in Nat, x < y, y - x < n
  PROVE  Place(x, n) # Place(y, n)
<1> SUFFICES ASSUME x % n = y % n PROVE FALSE
  <2>1. x % n \in Int /\ y % n \in Int
    OBVIOUS
  <2> QED BY <2>1 DEF Place
<1> DEFINE q == y \div n
           p == x \div n
<1>1. x = (n * p) + (x % n) /\ y = (n * q) + (y % n) /\ q \in Int /\ p \in Int
  BY Division
<1>2. x % n \in Int
  OBVIOUS
<1> HIDE DEF p, q
<1>3. y - x = n * (q - p)
  BY <1>1, <1>2
<1> QED BY <1>1, <1>3, Multiple

LEMMA PlaceRange ==
  ASSUME NEW n \in Nat \ {0}, NEW x \in Nat
  PROVE  Place(x, n) \in 1..n
BY ModRange DEF Place

\* The bytes l..h-1 have places of their own if there are at most n.
LEMMA OnePlace ==
  ASSUME NEW n \in Nat \ {0}, NEW l \in Nat, NEW h \in Nat, h - l <= n, NEW x \in l..(h - 1)
  PROVE  {b \in l..(h - 1) : Place(b, n) = Place(x, n)} = {x}
<1>1. ASSUME NEW b \in l..(h - 1), Place(b, n) = Place(x, n) PROVE b = x
  <2>1. CASE b < x
    <3>1. b \in Nat /\ x \in Nat /\ x - b < n
      OBVIOUS
    <3> QED BY <1>1, <2>1, <3>1, PlacesApart
  <2>2. CASE x < b
    <3>1. b \in Nat /\ x \in Nat /\ b - x < n
      OBVIOUS
    <3> QED BY <1>1, <2>2, <3>1, PlacesApart
  <2> QED BY <2>1, <2>2
<1> QED BY <1>1

LEMMA MaxOfOne ==
  ASSUME NEW x \in Int
  PROVE  Max({x}) = x
BY DEF Max

LEMMA MinOfThree ==
  ASSUME NEW x \in Int, NEW y \in Int, NEW z \in Int
  PROVE  /\ Min({x, y, z}) \in {x, y, z}
         /\ Min({x, y, z}) <= x /\ Min({x, y, z}) <= y /\ Min({x, y, z}) <= z
<1>1. \E m \in {x, y, z} : \A k \in {x, y, z} : m <= k
  OBVIOUS
<1> QED BY <1>1 DEF Min

(* One step at a time.                                                     *)

LEMMA InitEstablishes == Init => IInv
<1> SUFFICES ASSUME Init PROVE IInv
  OBVIOUS
<1>1. PICK n \in Sizes : cell = [i \in 1..n |-> NoByte]
  BY DEF Init
<1>2. n \in Nat \ {0}
  BY QuicSStreamAssumption
<1>3. cell \in Seq(Int) /\ Len(cell) = n
  BY <1>1, <1>2 DEF NoByte
<1>4. Types
  BY <1>2, <1>3, QuicSStreamAssumption DEF Types, Init, alloc, ring_buf_used
<1>5. RangeList(new_set) /\ RangeList(acked_set) /\ Members(new_set) = {} /\ Members(acked_set) = {}
  BY NoRange DEF Init
<1>6. Apart(acked_set, 1) /\ ~ Empty
  BY DEF Init, Apart, Empty
<1>7. Lists
  BY <1>5, <1>6 DEF Lists
<1>8. Bytes = {}
  BY DEF Init, Bytes
<1>9. Chunks /\ States
  BY <1>8 DEF Init, Chunks, States
<1>10. Held
  BY DEF Init, Held
<1> QED BY <1>4, <1>7, <1>9, <1>10 DEF IInv

LEMMA BytesAre ==
  ASSUME Types
  PROVE  \A b : b \in Bytes <=> b \in Nat /\ b < head_offset
BY Numbers DEF Bytes

\* What is written does not touch the places of what is held.
LEMMA WrittenHeld ==
  ASSUME Types, Held, NEW end \in Nat, head_offset < end, end - ctail_offset <= alloc,
         cell' = Written(head_offset, end)
  PROVE  /\ cell' \in Seq(Int) /\ Len(cell') = alloc
         /\ \A b \in ctail_offset..(end - 1) : cell'[Place(b, alloc)] = b
<1> DEFINE n == alloc
           h == head_offset
           t == ctail_offset
           W(i) == {x \in h..(end - 1) : Place(x, n) = i}
           w == [i \in 1..n |-> IF \E x \in h..(end - 1) : Place(x, n) = i THEN Max(W(i)) ELSE cell[i]]
<1>0. cell' = w
  BY DEF Written
<1>1. n \in Nat \ {0} /\ h \in Nat /\ t \in Nat /\ t <= h /\ end - t <= n /\ end - h <= n /\ h < end
  BY Numbers
<1>2. \A i \in 1..n : cell[i] \in Int
  BY DEF Types, alloc
<1>h. \A b \in t..(h - 1) : cell[Place(b, n)] = b
  BY DEF Held
<1> HIDE DEF n, h, t
<1>3. ASSUME NEW x \in h..(end - 1) PROVE W(Place(x, n)) = {x} /\ Max(W(Place(x, n))) = x
  <2>1. W(Place(x, n)) = {x}
    BY <1>1, OnePlace
  <2>2. x \in Int
    BY <1>1
  <2> HIDE DEF W
  <2> QED BY <2>1, <2>2, MaxOfOne
<1> HIDE DEF W
<1>4. ASSUME NEW i \in 1..n PROVE w[i] \in Int
  <2>1. CASE \E x \in h..(end - 1) : Place(x, n) = i
    <3>1. PICK x \in h..(end - 1) : Place(x, n) = i
      BY <2>1
    <3>2. w[i] = x
      BY <1>3, <3>1
    <3> QED BY <1>1, <3>2
  <2>2. CASE ~ \E x \in h..(end - 1) : Place(x, n) = i
    <3>1. w[i] = cell[i]
      BY <2>2
    <3> QED BY <1>2, <3>1
  <2> QED BY <2>1, <2>2
<1>5. w \in Seq(Int) /\ Len(w) = n
  <2>1. w = [i \in 1..n |-> w[i]] /\ DOMAIN w = 1..n
    OBVIOUS
  <2> HIDE DEF w
  <2> QED BY <1>1, <1>4, <2>1
<1>6. ASSUME NEW b \in t..(end - 1) PROVE w[Place(b, n)] = b
  <2>0. b \in Nat /\ Place(b, n) \in 1..n
    BY <1>1, PlaceRange
  <2>1. CASE b >= h
    <3>1. b \in h..(end - 1)
      BY <1>1, <2>1
    <3> QED BY <1>3, <2>0, <3>1
  <2>2. CASE b < h
    <3>1. ASSUME NEW x \in h..(end - 1) PROVE Place(x, n) # Place(b, n)
      <4>1. x \in Nat /\ b < x /\ x - b < n
        BY <1>1, <2>0, <2>2
      <4> QED BY <1>1, <2>0, <4>1, PlacesApart
    <3>2. w[Place(b, n)] = cell[Place(b, n)]
      BY <2>0, <3>1
    <3>3. b \in t..(h - 1)
      BY <1>1, <2>2
    <3> QED BY <1>h, <3>2, <3>3
  <2> QED BY <1>1, <2>0, <2>1, <2>2
<1> HIDE DEF w
<1> QED BY <1>0, <1>5, <1>6 DEF n, t

LEMMA AppendKeeps ==
  ASSUME IInv, NEW n \in 1..MaxOffset, SStreamAppend(n)
  PROVE  IInv'
<1> DEFINE room == Min({n, ring_buf_avail, MaxOffset - head_offset})
           end == head_offset + room
<1>0. Types /\ Lists /\ Chunks /\ States /\ Held
  BY DEF IInv
<1>1. /\ ~ have_final_size /\ end > head_offset /\ cell' = Written(head_offset, end) /\ head_offset' = end
      /\ new_set' = insert(new_set, head_offset, end - 1) /\ acked_set' = acked_set
      /\ ctail_offset' = ctail_offset /\ inflight' = inflight /\ have_final_size' = have_final_size
  BY DEF SStreamAppend, fin
<1>2. /\ head_offset \in Nat /\ ctail_offset \in Nat /\ ctail_offset <= head_offset
      /\ head_offset <= MaxOffset /\ MaxOffset \in Nat /\ alloc \in Nat /\ alloc > 0
  BY <1>0, Numbers
<1>3. end \in Nat /\ end <= MaxOffset /\ end - ctail_offset <= alloc /\ end > head_offset
  <2>1. n \in Int /\ ring_buf_avail \in Int /\ MaxOffset - head_offset \in Int
    BY <1>2 DEF ring_buf_avail, ring_buf_used
  <2>2. /\ room \in {n, ring_buf_avail, MaxOffset - head_offset}
        /\ room <= ring_buf_avail /\ room <= MaxOffset - head_offset
    BY <2>1, MinOfThree
  <2>3. room \in Int
    BY <2>1, <2>2
  <2> HIDE DEF room
  <2> QED BY <1>1, <1>2, <2>2, <2>3 DEF ring_buf_avail, ring_buf_used
<1> HIDE DEF end
<1>4. /\ cell' \in Seq(Int) /\ Len(cell') = alloc
      /\ \A b \in ctail_offset..(end - 1) : cell'[Place(b, alloc)] = b
  BY <1>0, <1>1, <1>3, WrittenHeld
<1>5. Types'
  <2>1. alloc' = alloc
    BY <1>4 DEF alloc
  <2> QED BY <1>0, <1>1, <1>2, <1>3, <1>4, <2>1 DEF Types, ring_buf_used
<1>6. ~ Empty /\ ~ Empty'
  BY <1>1 DEF Empty
<1>7. RangeList(new_set') /\ Members(new_set') = Members(new_set) \cup (head_offset..(end - 1))
  <2>1. head_offset \in Nat /\ end - 1 \in Nat /\ head_offset <= end - 1 /\ RangeList(new_set)
    BY <1>0, <1>2, <1>3 DEF Lists
  <2> QED BY <1>1, <2>1, InsertExact DEF Inserted
<1>8. \A b : b \in Bytes <=> b \in Nat /\ b < head_offset
  BY <1>0, BytesAre
<1>9. \A b : b \in Bytes' <=> b \in Nat /\ b < end
  BY <1>1, <1>5, BytesAre, <1>3 DEF Bytes
<1>10. /\ \A b \in Members(new_set) : b \in Nat /\ b < head_offset
       /\ \A b \in Members(acked_set) : b \in Nat /\ b < head_offset
  BY <1>0, <1>6, <1>8 DEF Lists
<1>11. Lists'
  <2>1. Members(new_set)' \subseteq Bytes'
    <3>1. \A b \in Members(new_set') : b \in Nat /\ b < end
      BY <1>2, <1>3, <1>7, <1>10
    <3> QED BY <1>9, <3>1
  <2>2. Members(acked_set)' \subseteq Bytes'
    <3>1. \A b \in Members(acked_set) : b \in Nat /\ b < end
      BY <1>2, <1>3, <1>10
    <3> QED BY <1>1, <1>9, <3>1
  <2> QED BY <1>0, <1>1, <1>6, <1>7, <2>1, <2>2 DEF Lists
<1>12. \A c \in inflight : c.start \in Nat /\ c.end \in Nat /\ c.end < head_offset
  BY <1>0, <1>6, ChunkFields DEF Chunks
<1>13. Chunks'
  <2>1. \A c \in inflight : c.end < end
    BY <1>2, <1>3, <1>12
  <2> QED BY <1>1, <1>6, <2>1 DEF Chunks
<1>14. ASSUME NEW b \in Bytes'
       PROVE  /\ b \in Members(new_set') => b \notin Members(acked_set')
              /\ b \in Members(new_set') \cup Members(acked_set')
                   => \A c \in inflight' : ~ Carries(c, b)
              /\ b \notin Members(new_set') \cup Members(acked_set')
                   => \E c \in inflight' : Carries(c, b)
              /\ \A c, d \in inflight' : Carries(c, b) /\ Carries(d, b) => c = d
  <2>1. b \in Nat /\ b < end
    BY <1>9
  <2>2. CASE b < head_offset
    <3>1. b \in Bytes /\ (b \in Members(new_set') <=> b \in Members(new_set))
      BY <1>2, <1>7, <1>8, <2>1, <2>2
    <3> QED BY <1>0, <1>1, <3>1 DEF States
  <2>3. CASE ~ (b < head_offset)
    <3>1. b \in Members(new_set') /\ b \notin Members(acked_set)
      BY <1>2, <1>3, <1>7, <1>10, <2>1, <2>3
    <3>2. \A c \in inflight : ~ Carries(c, b)
      BY <1>2, <1>12, <2>1, <2>3 DEF Carries
    <3> QED BY <1>1, <3>1, <3>2
  <2> QED BY <2>2, <2>3
<1>15. States'
  BY <1>14 DEF States, Carries
<1>16. Held'
  <2>1. alloc' = alloc
    BY <1>4 DEF alloc
  <2>2. \A b \in 0..(ctail_offset - 1) : b \in Members(acked_set)
    BY <1>0 DEF Held
  <2> QED BY <1>1, <1>4, <2>1, <2>2 DEF Held, Place
<1> QED BY <1>5, <1>11, <1>13, <1>15, <1>16 DEF IInv

\* The FIN of an empty stream finds nothing in the lists or in flight.
LEMMA FinKeeps ==
  ASSUME IInv, SStreamFin
  PROVE  IInv'
<1>0. Types /\ Lists /\ Chunks /\ States /\ Held
  BY DEF IInv
<1>1. /\ cell' = cell /\ head_offset' = head_offset /\ ctail_offset' = ctail_offset
      /\ new_set' = new_set /\ acked_set' = acked_set /\ inflight' = inflight
      /\ ~ have_final_size /\ have_final_size'
  BY DEF SStreamFin, ring
<1>2. Types' /\ States' /\ Held'
  BY <1>0, <1>1 DEF Types, States, Held, Bytes, Carries, alloc, ring_buf_used, Place
<1>3. ~ Empty /\ Bytes' = Bytes
  BY <1>1 DEF Empty, Bytes
<1>4. CASE head_offset = 0
  <2>1. Bytes = {}
    BY <1>4 DEF Bytes
  <2>2. new_set = <<>> /\ acked_set = <<>>
    BY <1>0, <1>3, <2>1, NoMembers DEF Lists
  <2>3. inflight = {}
    <3>1. \A c \in inflight : c.end \in Nat /\ c.end < 0
      BY <1>0, <1>3, <1>4, ChunkFields DEF Chunks
    <3> QED BY <3>1
  <2>4. Empty'
    BY <1>1, <1>4 DEF Empty
  <2>5. Lists'
    BY <1>0, <1>1, <2>2, <2>4 DEF Lists
  <2>6. Chunks'
    BY <1>1, <2>3 DEF Chunks
  <2> QED BY <1>2, <2>5, <2>6 DEF IInv
<1>5. CASE head_offset # 0
  <2>1. ~ Empty'
    BY <1>1, <1>5 DEF Empty
  <2>2. Lists'
    BY <1>0, <1>1, <1>3, <2>1 DEF Lists
  <2>3. Chunks'
    BY <1>0, <1>1, <1>3, <2>1 DEF Chunks
  <2> QED BY <1>2, <2>2, <2>3 DEF IInv
<1> QED BY <1>4, <1>5

\* Each byte held is copied to its place in the new ring.
LEMMA ResizeKeeps ==
  ASSUME IInv, NEW size \in Sizes, SetBufferSize(size)
  PROVE  IInv'
<1> DEFINE h == head_offset
           t == ctail_offset
           n == alloc
           W(i) == {b \in t..(h - 1) : Place(b, size) = i}
           w == [i \in 1..size |-> IF W(i) = {} THEN NoByte ELSE cell[Place(Max(W(i)), n)]]
<1>0. Types /\ Lists /\ Chunks /\ States /\ Held
  BY DEF IInv
<1>1. /\ head_offset' = head_offset /\ ctail_offset' = ctail_offset
      /\ new_set' = new_set /\ acked_set' = acked_set /\ inflight' = inflight
      /\ have_final_size' = have_final_size /\ cell' = w /\ size >= ring_buf_used
  BY DEF SetBufferSize, fin
<1>2. /\ size \in Nat \ {0} /\ h \in Nat /\ t \in Nat /\ t <= h /\ h - t <= size
      /\ n \in Nat \ {0} /\ h - t <= n
  BY <1>0, <1>1, Numbers, QuicSStreamAssumption DEF ring_buf_used
<1>3. /\ \A b \in t..(h - 1) : cell[Place(b, n)] = b
      /\ \A i \in 1..n : cell[i] \in Int
  BY <1>0 DEF Held, Types, alloc
<1> HIDE DEF h, t, n
<1>4. ASSUME NEW b \in t..(h - 1) PROVE w[Place(b, size)] = b
  <2>1. W(Place(b, size)) = {b}
    BY <1>2, OnePlace
  <2>2. b \in Int /\ b \in Nat
    BY <1>2
  <2>3. Place(b, size) \in 1..size
    BY <1>2, <2>2, PlaceRange
  <2> HIDE DEF W
  <2>4. Max(W(Place(b, size))) = b /\ W(Place(b, size)) # {}
    BY <2>1, <2>2, MaxOfOne
  <2> QED BY <1>3, <2>3, <2>4
<1>5. ASSUME NEW i \in 1..size PROVE w[i] \in Int
  <2>1. CASE W(i) = {}
    <3>1. w[i] = NoByte
      <4> HIDE DEF W
      <4> QED BY <2>1
    <3> QED BY <3>1 DEF NoByte
  <2>2. CASE W(i) # {}
    <3>1. PICK b \in t..(h - 1) : Place(b, size) = i
      BY <2>2
    <3>2. w[i] = b
      BY <1>4, <3>1, Zenon
    <3> QED BY <1>2, <3>2
  <2> QED BY <2>1, <2>2
<1>6. w \in Seq(Int) /\ Len(w) = size
  <2>1. w = [i \in 1..size |-> w[i]] /\ DOMAIN w = 1..size
    OBVIOUS
  <2> HIDE DEF w
  <2> QED BY <1>2, <1>5, <2>1
<1> HIDE DEF w
<1>7. alloc' = size
  BY <1>1, <1>6 DEF alloc
<1>8. Types'
  BY <1>0, <1>1, <1>2, <1>6, <1>7 DEF Types, ring_buf_used
<1>9. Lists' /\ Chunks' /\ States'
  BY <1>0, <1>1 DEF Lists, Chunks, States, Empty, Bytes, Carries
<1>10. Held'
  BY <1>0, <1>1, <1>4, <1>7 DEF Held, Place, h, t
<1> QED BY <1>8, <1>9, <1>10 DEF IInv

(* A chunk goes from one of the three states to another.                   *)

LEMMA StatesMove ==
  ASSUME Types, States, head_offset' = head_offset, NEW c, IsChunk(c),
         \/ /\ inflight' = inflight \cup {c} /\ Members(acked_set') = Members(acked_set)
            /\ Members(new_set') = Members(new_set) \ (c.start..c.end)
            /\ c.start..c.end \subseteq Members(new_set)
         \/ /\ c \in inflight /\ inflight' = inflight \ {c}
            /\ Members(acked_set') = Members(acked_set) \cup (c.start..c.end)
            /\ Members(new_set') = Members(new_set)
         \/ /\ c \in inflight /\ inflight' = inflight \ {c}
            /\ Members(acked_set') = Members(acked_set)
            /\ Members(new_set') = Members(new_set) \cup (c.start..c.end)
  PROVE  States'
<1> DEFINE N == Members(new_set)
           A == Members(acked_set)
           NN == Members(new_set')
           AA == Members(acked_set')
<1>0. c.start \in Nat /\ c.end \in Nat
  BY DEF IsChunk
<1>1. Bytes' = Bytes /\ \A b \in Bytes : b \in Nat
  BY BytesAre DEF Bytes
<1>2. ASSUME NEW b \in Bytes
      PROVE  /\ b \in N => b \notin A
             /\ b \in N \cup A => \A d \in inflight : ~ Carries(d, b)
             /\ b \notin N \cup A => \E d \in inflight : Carries(d, b)
             /\ \A d, e \in inflight : Carries(d, b) /\ Carries(e, b) => d = e
             /\ (b \in c.start..c.end <=> Carries(c, b))
  BY <1>0, <1>1 DEF States, Carries
<1>3. ASSUME NEW b \in Bytes
      PROVE  /\ b \in NN => b \notin AA
             /\ b \in NN \cup AA => \A d \in inflight' : ~ Carries(d, b)
             /\ b \notin NN \cup AA => \E d \in inflight' : Carries(d, b)
             /\ \A d, e \in inflight' : Carries(d, b) /\ Carries(e, b) => d = e
  <2>1. CASE /\ inflight' = inflight \cup {c} /\ AA = A
             /\ NN = N \ (c.start..c.end) /\ c.start..c.end \subseteq N
    <3> HIDE DEF N, A, NN, AA
    <3>1. CASE Carries(c, b)
      <4>1. b \in N /\ b \notin NN /\ b \notin AA /\ \A d \in inflight : ~ Carries(d, b)
        BY <1>2, <2>1, <3>1
      <4> QED BY <2>1, <3>1, <4>1
    <3>2. CASE ~ Carries(c, b)
      <4>1. b \in NN <=> b \in N
        BY <1>2, <2>1, <3>2
      <4> QED BY <1>2, <2>1, <3>2, <4>1
    <3> QED BY <3>1, <3>2
  <2>2. CASE /\ c \in inflight /\ inflight' = inflight \ {c}
             /\ NN \cup AA = (N \cup A) \cup (c.start..c.end)
             /\ \/ NN = N /\ AA = A \cup (c.start..c.end)
                \/ AA = A /\ NN = N \cup (c.start..c.end)
    <3> HIDE DEF N, A, NN, AA
    <3>1. CASE Carries(c, b)
      <4>1. b \notin N /\ b \notin A /\ \A d \in inflight' : ~ Carries(d, b)
        BY <1>2, <2>2, <3>1
      <4>2. b \in NN \cup AA /\ ~ (b \in NN /\ b \in AA)
        BY <1>2, <2>2, <3>1, <4>1
      <4> QED BY <4>1, <4>2
    <3>2. CASE ~ Carries(c, b)
      <4>1. (b \in NN <=> b \in N) /\ (b \in AA <=> b \in A)
        BY <1>2, <2>2, <3>2
      <4> QED BY <1>2, <2>2, <3>2, <4>1
    <3> QED BY <3>1, <3>2
  <2> QED BY <2>1, <2>2
<1> QED BY <1>1, <1>3 DEF States, Carries

LEMMA ChunkEnds ==
  ASSUME NEW offset \in Int, NEW len \in Int, NEW has_fin
  PROVE  /\ Chunk(offset, len, has_fin).start = offset
         /\ Chunk(offset, len, has_fin).end = ((offset + len) - 1) % U64
<1> DEFINE e == (offset + len - 1) % U64
<1>1. Chunk(offset, len, has_fin) = [start |-> offset, end |-> e, has_fin |-> has_fin]
  BY DEF Chunk
<1> HIDE DEF e
<1>2. Chunk(offset, len, has_fin).start = offset /\ Chunk(offset, len, has_fin).end = e
  BY <1>1
<1>3. offset + len - 1 = (offset + len) - 1
  OBVIOUS
<1> QED BY <1>2, <1>3, Zenon DEF e

LEMMA TransmitKeeps ==
  ASSUME IInv, NEW c, IsChunk(c), Transmit(c),
         \/ ~ Empty /\ c.start..c.end \subseteq Members(new_set) /\ c.end < head_offset
         \/ Empty /\ c.start = 0 /\ c.end = U64 - 1
  PROVE  IInv'
<1>0. Types /\ Lists /\ Chunks /\ States /\ Held
  BY DEF IInv
<1>1. /\ cell' = cell /\ head_offset' = head_offset /\ ctail_offset' = ctail_offset
      /\ acked_set' = acked_set /\ have_final_size' = have_final_size
      /\ inflight' = inflight \cup {c}
      /\ new_set' = IF c.end >= c.start THEN remove(new_set, c.start, c.end) ELSE new_set
  BY DEF Transmit, ring
<1>2. c.start \in Nat /\ c.end \in Nat
  BY DEF IsChunk
<1>3. RangeList(new_set') /\ Members(new_set') = Members(new_set) \ (c.start..c.end)
  <2>0. RangeList(new_set)
    BY <1>0 DEF Lists
  <2>1. CASE c.end >= c.start
    BY <1>1, <1>2, <2>0, <2>1, RemoveExact
  <2>2. CASE ~ (c.end >= c.start)
    <3>1. c.start..c.end = {}
      BY <1>2, <2>2
    <3> QED BY <1>1, <2>0, <2>2, <3>1
  <2> QED BY <2>1, <2>2
<1>4. Types' /\ Held'
  BY <1>0, <1>1 DEF Types, Held, alloc, ring_buf_used, Place
<1>5. (Empty' <=> Empty) /\ Bytes' = Bytes
  BY <1>1 DEF Empty, Bytes
<1>6. CASE ~ Empty
  <2>1. c.start..c.end \subseteq Members(new_set) /\ c.end < head_offset
    BY <1>6
  <2>2. Lists'
    BY <1>0, <1>1, <1>3, <1>5, <1>6 DEF Lists
  <2>3. Chunks'
    BY <1>0, <1>1, <1>5, <1>6, <2>1 DEF Chunks
  <2>4. States'
    BY <1>0, <1>1, <1>3, <2>1, StatesMove
  <2> QED BY <1>4, <2>2, <2>3, <2>4 DEF IInv
<1>7. CASE Empty
  <2>1. c.start = 0 /\ c.end = U64 - 1
    BY <1>7
  <2>2. Members(new_set') = {}
    <3>1. new_set = <<>> \/ new_set = Whole
      BY <1>0, <1>7 DEF Lists
    <3> QED BY <1>0, <1>3, <2>1, <3>1, NoRange, WholeFacts
  <2>3. new_set' = <<>>
    BY <1>3, <2>2, NoMembers
  <2>4. Lists'
    BY <1>0, <1>1, <1>3, <1>5, <1>7, <2>3 DEF Lists, Whole
  <2>5. Chunks'
    BY <1>0, <1>1, <1>5, <1>7, <2>1 DEF Chunks
  <2>6. Bytes' = {}
    BY <1>5, <1>7 DEF Bytes, Empty
  <2>7. States'
    BY <2>6 DEF States
  <2> QED BY <1>4, <2>4, <2>5, <2>7 DEF IInv
<1> QED BY <1>6, <1>7

\* A frame carries bytes of the first new range, or is an empty stream's FIN.
LEMMA SendChunkKeeps ==
  ASSUME IInv, NEW len \in 0..MaxOffset, SendChunk(len)
  PROVE  IInv'
<1> DEFINE r == new_set[1]
           f == is_fin(r.start, len)
           c == Chunk(r.start, len, f)
<1>0. Types /\ Lists /\ Chunks /\ States /\ Held
  BY DEF IInv
<1>1. /\ new_set # <<>> /\ len <= FrameLen /\ Transmit(c)
      /\ len > 0 \/ (FrameLen = 0 /\ is_fin(r.start, 0))
  BY DEF SendChunk
<1>2. /\ head_offset \in Nat /\ head_offset <= MaxOffset /\ MaxOffset \in Nat
      /\ U64 \in Nat \ {0} /\ U64 - 1 \in Nat /\ MaxOffset <= U64 - 1
  BY <1>0, Numbers
<1>3. FrameLen = Min({((r.end - r.start) + 1) % U64, head_offset - r.start})
  BY DEF FrameLen
<1>4. r.start \in Nat
  <2>1. new_set \in Seq(Ranges) /\ 1 \in 1..Len(new_set)
    BY <1>0, <1>1 DEF Lists, RangeList
  <2> QED BY <2>1, RangeFields
<1>c. c.start = r.start /\ c.end = ((r.start + len) - 1) % U64
  <2>1. r.start \in Int /\ len \in Int
    BY <1>4
  <2> HIDE DEF r, f
  <2> QED BY <2>1, ChunkEnds
<1>5. CASE ~ Empty
  <2>1. /\ r.start \in Nat /\ r.end \in Nat /\ r.start <= r.end
        /\ \A v \in r.start..r.end : v \in Members(new_set)
    <3>1. new_set \in Seq(Ranges) /\ Len(new_set) >= 1 /\ 1 \in 1..Len(new_set)
      BY <1>0, <1>1 DEF Lists, RangeList
    <3>2. r.start \in Nat /\ r.end \in Nat
      BY <3>1, RangeFields
    <3>3. r.start <= r.end
      BY <1>0, <3>1 DEF Lists, RangeList, WellFormed
    <3>4. ASSUME NEW v \in r.start..r.end PROVE v \in Members(new_set)
      <4>1. v \in Nat /\ new_set[1].start <= v /\ v <= new_set[1].end
        BY <3>2
      <4> QED BY <3>1, <4>1, InMembers
    <3> QED BY <3>2, <3>3, <3>4
  <2> HIDE DEF r, f, c
  <2>2. r.end < head_offset
    <3>1. r.end \in Members(new_set)
      BY <2>1
    <3>2. r.end \in Bytes
      BY <1>0, <1>5, <3>1 DEF Lists
    <3> QED BY <1>0, <3>2, BytesAre
  <2>3. FrameLen = (r.end - r.start) + 1
    <3> DEFINE k == (r.end - r.start) + 1
    <3>1. k \in Nat /\ k < U64 /\ k <= head_offset - r.start /\ head_offset - r.start \in Int /\ k \in Int
      BY <1>2, <2>1, <2>2
    <3> HIDE DEF k
    <3>2. k % U64 = k
      BY <1>2, <3>1, ModRange
    <3>3. Min({k, head_offset - r.start}) = k
      BY <3>1, MinMax
    <3>4. FrameLen = Min({k % U64, head_offset - r.start})
      BY <1>3 DEF k
    <3> QED BY <3>2, <3>3, <3>4 DEF k
  <2>4. len \in Nat /\ len >= 1 /\ len <= (r.end - r.start) + 1
    BY <1>1, <2>1, <2>3
  <2>5. c.end = (r.start + len) - 1 /\ c.end \in Nat
    <3> DEFINE k == (r.start + len) - 1
    <3>1. k \in Nat /\ k < U64
      BY <1>2, <2>1, <2>2, <2>4
    <3> HIDE DEF k
    <3>2. k % U64 = k
      BY <1>2, <3>1, ModRange
    <3>3. c.end = k % U64
      BY <1>c DEF k
    <3> QED BY <3>1, <3>2, <3>3 DEF k
  <2>6. IsChunk(c)
    BY <1>c, <2>1, <2>5 DEF IsChunk
  <2>7. c.start..c.end \subseteq Members(new_set) /\ c.end < head_offset
    <3>1. \A v \in c.start..c.end : v \in r.start..r.end
      BY <1>c, <2>1, <2>4, <2>5
    <3>2. c.end < head_offset
      BY <1>2, <2>1, <2>2, <2>4, <2>5
    <3> QED BY <2>1, <3>1, <3>2
  <2> QED BY <1>1, <1>5, <2>6, <2>7, TransmitKeeps
<1>6. CASE Empty
  <2>1. r.start = 0 /\ r.end = U64 - 1
    BY <1>0, <1>1, <1>6, WholeFacts DEF Lists
  <2> HIDE DEF r, f, c
  <2>2. FrameLen = 0
    <3>1. (r.end - r.start) + 1 = U64 /\ head_offset - r.start = 0
      BY <1>2, <1>6, <2>1 DEF Empty
    <3>2. U64 % U64 \in Nat
      BY <1>2
    <3>3. Min({U64 % U64, 0}) = IF U64 % U64 <= 0 THEN U64 % U64 ELSE 0
      <4>1. U64 % U64 \in Int /\ 0 \in Int
        BY <3>2
      <4> QED BY <4>1, MinMax
    <3>4. FrameLen = Min({U64 % U64, 0})
      BY <1>3, <3>1
    <3> QED BY <3>2, <3>3, <3>4
  <2>3. len = 0
    BY <1>1, <2>2
  <2>4. c.start = 0 /\ c.end = U64 - 1
    <3>1. (r.start + len) - 1 = -1
      BY <2>1, <2>3
    <3>2. c.end = (-1) % U64
      BY <1>c, <3>1
    <3> QED BY <1>2, <1>c, <2>1, <3>2, ModBelowZero
  <2>5. IsChunk(c)
    BY <1>2, <1>c, <2>4 DEF IsChunk
  <2> QED BY <1>1, <1>6, <2>4, <2>5, TransmitKeeps
<1> QED BY <1>5, <1>6

LEMMA SendFinKeeps ==
  ASSUME IInv, SendFin
  PROVE  IInv'
<1> DEFINE c == Chunk(head_offset, 0, TRUE)
<1>0. Types
  BY DEF IInv
<1>1. new_set = <<>> /\ have_final_size /\ Transmit(c)
  BY DEF SendFin
<1>2. /\ head_offset \in Nat /\ head_offset <= MaxOffset /\ MaxOffset \in Nat
      /\ U64 \in Nat \ {0} /\ U64 - 1 \in Nat /\ MaxOffset <= U64 - 1
  BY <1>0, Numbers
<1>3. c.start = head_offset /\ c.end = ((head_offset + 0) - 1) % U64
  <2>1. head_offset \in Int /\ 0 \in Int
    BY <1>2
  <2> QED BY <2>1, ChunkEnds
<1> HIDE DEF c
<1>4. CASE head_offset = 0
  <2>1. (head_offset + 0) - 1 = -1
    BY <1>4
  <2>2. c.end = U64 - 1
    BY <1>2, <1>3, <2>1, ModBelowZero
  <2>3. IsChunk(c)
    BY <1>2, <1>3, <2>2 DEF IsChunk
  <2>4. Empty
    BY <1>1, <1>4 DEF Empty
  <2> QED BY <1>1, <1>3, <1>4, <2>2, <2>3, <2>4, TransmitKeeps
<1>5. CASE head_offset # 0
  <2> DEFINE k == head_offset - 1
  <2>1. (head_offset + 0) - 1 = k /\ k \in Nat /\ k < U64 /\ k < head_offset
    BY <1>2, <1>5
  <2> HIDE DEF k
  <2>2. c.end = k
    BY <1>2, <1>3, <2>1, ModRange
  <2>3. IsChunk(c)
    BY <1>2, <1>3, <2>1, <2>2 DEF IsChunk
  <2>4. c.start..c.end = {}
    BY <1>2, <1>3, <2>1, <2>2
  <2>5. ~ Empty
    BY <1>5 DEF Empty
  <2> QED BY <1>1, <2>1, <2>2, <2>3, <2>4, <2>5, TransmitKeeps
<1> QED BY <1>4, <1>5

\* The tail moves to the end of the first acknowledged range if that begins at or
\* before it: what lies before the new tail is acknowledged, and the tail never
\* moves back, since the range does not border the next one.
LEMMA TailMoves ==
  ASSUME Types, NEW s, RangeList(s), Apart(s, 1), s # <<>>,
         \A v \in Members(s) : v < head_offset,
         \A b \in 0..(ctail_offset - 1) : b \in Members(s),
         NEW t, t = ring_buf_cpop_range(s[1].start, s[1].end)
  PROVE  t \in Nat /\ ctail_offset <= t /\ t <= head_offset /\ \A b \in 0..(t - 1) : b \in Members(s)
<1> DEFINE n == Len(s)
<1>0. /\ s \in Seq(Ranges) /\ n \in Nat /\ n >= 1 /\ 1 \in 1..n
      /\ \A i \in 1..n : s[i].start \in Nat /\ s[i].end \in Nat /\ s[i].start <= s[i].end
      /\ \A i, j \in 1..n : i < j => s[i].end + 1 < s[j].start
  BY RangeFields DEF RangeList, WellFormed, Apart
<1>1. ctail_offset \in Nat /\ head_offset \in Nat /\ head_offset <= MaxOffset /\ MaxOffset \in Nat /\ ctail_offset <= head_offset
  BY Numbers
<1>2. \A v \in Nat : v \in Members(s) <=> \E i \in 1..n : s[i].start <= v /\ v <= s[i].end
  BY <1>0, InMembers
<1> HIDE DEF n
<1>3. s[1].end \in Members(s)
  BY <1>0, <1>2
<1>4. s[1].end < head_offset
  BY <1>3
<1>5. CASE s[1].start > ctail_offset
  <2>1. t = ctail_offset
    BY <1>5 DEF ring_buf_cpop_range
  <2> QED BY <1>1, <2>1
<1>6. CASE ~ (s[1].start > ctail_offset)
  <2>1. t = s[1].end + 1
    <3>1. ~ (s[1].end >= MaxOffset)
      BY <1>0, <1>1, <1>4
    <3> QED BY <1>6, <3>1 DEF ring_buf_cpop_range
  <2>2. ctail_offset <= t
    <3> SUFFICES ASSUME s[1].end + 1 < ctail_offset PROVE FALSE
      BY <1>0, <1>1, <2>1
    <3> DEFINE v == s[1].end + 1
    <3>1. v \in Nat /\ v \in 0..(ctail_offset - 1)
      BY <1>0, <1>1
    <3>2. v \in Members(s)
      BY <3>1
    <3>3. PICK i \in 1..n : s[i].start <= v /\ v <= s[i].end
      BY <1>2, <3>1, <3>2
    <3>4. CASE i = 1
      BY <1>0, <3>3, <3>4
    <3>5. CASE i # 1
      <4>1. 1 < i
        BY <1>0, <3>5
      <4> QED BY <1>0, <3>3, <4>1
    <3> QED BY <3>4, <3>5
  <2>3. ASSUME NEW b \in 0..(t - 1) PROVE b \in Members(s)
    <3>0. b \in Nat /\ b <= s[1].end
      BY <1>0, <2>1
    <3>1. CASE b < ctail_offset
      <4>1. b \in 0..(ctail_offset - 1)
        BY <1>1, <3>0, <3>1
      <4> QED BY <4>1
    <3>2. CASE ~ (b < ctail_offset)
      <4>1. s[1].start <= b /\ b <= s[1].end
        BY <1>0, <1>1, <1>6, <3>0, <3>2
      <4> QED BY <1>0, <1>2, <3>0, <4>1
    <3> QED BY <3>1, <3>2
  <2>4. t \in Nat /\ t <= head_offset
    BY <1>0, <1>1, <1>4, <2>1
  <2> QED BY <2>2, <2>3, <2>4
<1> QED BY <1>5, <1>6

\* What is overwritten does not touch the places of what is held behind the new
\* tail.
LEMMA CleansedHeld ==
  ASSUME Types, Held, NEW tail \in Nat, ctail_offset <= tail, tail <= head_offset,
         cell' \in {cell, Cleansed(tail)}
  PROVE  /\ cell' \in Seq(Int) /\ Len(cell') = alloc
         /\ \A b \in tail..(head_offset - 1) : cell'[Place(b, alloc)] = b
<1> DEFINE n == alloc
           h == head_offset
           t == ctail_offset
           w == [i \in 1..n |-> IF \E b \in t..(tail - 1) : Place(b, n) = i THEN NoByte ELSE cell[i]]
<1>1. n \in Nat \ {0} /\ h \in Nat /\ t \in Nat /\ t <= tail /\ tail <= h /\ h - t <= n
  BY Numbers
<1>2. /\ cell \in Seq(Int) /\ Len(cell) = n /\ \A i \in 1..n : cell[i] \in Int
      /\ \A b \in t..(h - 1) : cell[Place(b, n)] = b
  BY DEF Types, Held, alloc
<1>3. cell' = cell \/ cell' = w
  <2>1. Min({tail, head_offset}) = tail
    <3>1. tail \in Int /\ head_offset \in Int
      BY <1>1
    <3> QED BY <3>1, MinMax
  <2> QED BY <2>1 DEF Cleansed
<1> HIDE DEF n, h, t
<1>4. CASE cell' = cell
  <2>1. \A b \in tail..(h - 1) : b \in t..(h - 1)
    BY <1>1
  <2> QED BY <1>2, <1>4, <2>1 DEF n, h
<1>5. CASE cell' = w
  <2>1. \A i \in 1..n : w[i] \in Int
    BY <1>2 DEF NoByte
  <2>2. w \in Seq(Int) /\ Len(w) = n
    <3>1. w = [i \in 1..n |-> w[i]] /\ DOMAIN w = 1..n
      OBVIOUS
    <3> HIDE DEF w
    <3> QED BY <1>1, <2>1, <3>1
  <2>3. ASSUME NEW b \in tail..(h - 1) PROVE w[Place(b, n)] = b
    <3>0. b \in Nat /\ Place(b, n) \in 1..n /\ b \in t..(h - 1)
      BY <1>1, PlaceRange
    <3>1. ASSUME NEW x \in t..(tail - 1) PROVE Place(x, n) # Place(b, n)
      <4>1. x \in Nat /\ x < b /\ b - x < n
        BY <1>1, <3>0
      <4> QED BY <1>1, <3>0, <4>1, PlacesApart
    <3>2. w[Place(b, n)] = cell[Place(b, n)]
      BY <3>0, <3>1
    <3> QED BY <1>2, <3>0, <3>2
  <2> HIDE DEF w
  <2> QED BY <1>5, <2>2, <2>3 DEF n, h
<1> QED BY <1>3, <1>4, <1>5

LEMMA AckedKeeps ==
  ASSUME IInv, NEW c \in inflight, Acked(c)
  PROVE  IInv'
<1> DEFINE acked == insert(acked_set, c.start, c.end)
           ctail == ring_buf_cpop_range(acked[1].start, acked[1].end)
<1>0. Types /\ Lists /\ Chunks /\ States /\ Held
  BY DEF IInv
<1>1. /\ inflight' = inflight \ {c} /\ new_set' = new_set
      /\ have_final_size' = have_final_size
      /\ IF c.end >= c.start
         THEN acked_set' = acked /\ ctail_offset' = ctail /\ head_offset' = Max({head_offset, ctail})
         ELSE acked_set' = acked_set /\ ctail_offset' = ctail_offset /\ head_offset' = head_offset
      /\ cell' \in {cell, Cleansed(ctail)} /\ (c.end < c.start => cell' = cell)
  BY ChunkFields DEF Acked, IInv, ring
<1>2. c.start \in Nat /\ c.end \in Nat
  BY <1>0, ChunkFields
<1>3. /\ head_offset \in Nat /\ ctail_offset \in Nat /\ ctail_offset <= head_offset
      /\ head_offset <= MaxOffset /\ MaxOffset \in Nat /\ alloc \in Nat /\ alloc > 0
      /\ U64 - 1 \in Nat /\ MaxOffset <= U64 - 1
  BY <1>0, Numbers
<1>l. /\ RangeList(new_set) /\ RangeList(acked_set) /\ Apart(acked_set, 1)
  BY <1>0 DEF Lists
<1> HIDE DEF acked, ctail
<1>4. CASE Empty
  <2>1. c.start = 0 /\ c.end = U64 - 1 /\ head_offset = 0 /\ ctail_offset = 0
    BY <1>0, <1>3, <1>4 DEF Chunks, Empty
  <2>2. acked = Whole
    <3>1. acked_set = <<>> \/ acked_set = Whole
      BY <1>0, <1>4 DEF Lists
    <3>2. CASE acked_set = <<>>
      BY <2>1, <3>2 DEF acked, insert, Whole
    <3>3. CASE acked_set = Whole
      <4>1. Len(Whole) = 1 /\ Whole[1].start = 0 /\ Whole[1].end = U64 - 1
        BY <1>0, WholeFacts
      <4>2. ~ (0 > U64 - 1) /\ 0 <= 0 /\ U64 - 1 >= U64 - 1
        BY <1>3
      <4>3. insert(Whole, 0, U64 - 1) = <<Interval(0, U64 - 1)>>
        BY <4>1, <4>2 DEF insert
      <4> QED BY <2>1, <3>3, <4>3 DEF acked, Whole
    <3> QED BY <3>1, <3>2, <3>3
  <2>3. ctail = 0
    <3>1. acked[1].start = 0 /\ acked[1].end = U64 - 1
      BY <1>0, <2>2, WholeFacts
    <3>2. U64 - 1 >= MaxOffset
      BY <1>3
    <3> QED BY <2>1, <3>1, <3>2 DEF ctail, ring_buf_cpop_range
  <2>4. head_offset' = 0 /\ ctail_offset' = 0 /\ acked_set' = Whole
    <3>1. c.end >= c.start
      BY <1>2, <2>1
    <3>2. Max({0, 0}) = 0
      BY MinMax
    <3> QED BY <1>1, <2>1, <2>2, <2>3, <3>1, <3>2
  <2>5. Empty' /\ Bytes' = {}
    BY <1>1, <1>4, <2>4 DEF Empty, Bytes
  <2>c. cell' = cell
    BY <1>1, <2>1, <2>3 DEF Cleansed
  <2>6. Types'
    BY <1>0, <1>1, <2>1, <2>4, <2>c DEF Types, alloc, ring_buf_used, IsChunk
  <2>7. Lists'
    <3>1. RangeList(Whole) /\ Apart(Whole, 1)
      BY <1>0, WholeFacts
    <3> QED BY <1>0, <1>1, <1>4, <2>4, <2>5, <3>1 DEF Lists, Whole
  <2>8. Chunks'
    BY <1>0, <1>1, <1>4, <2>5 DEF Chunks
  <2>9. States'
    BY <2>5 DEF States
  <2>10. Held'
    BY <2>4 DEF Held
  <2> QED BY <2>6, <2>7, <2>8, <2>9, <2>10 DEF IInv
<1>5. CASE ~ Empty
  <2>1. c.end < head_offset
    BY <1>0, <1>5 DEF Chunks
  <2>2. /\ \A v \in Members(acked_set) : v \in Nat /\ v < head_offset
        /\ \A v \in Members(new_set) : v \in Nat /\ v < head_offset
    BY <1>0, <1>5, BytesAre DEF Lists
  <2>3. /\ RangeList(acked_set') /\ Members(acked_set') = Members(acked_set) \cup (c.start..c.end)
        /\ Apart(acked_set', 1) /\ head_offset' = head_offset
        /\ ctail_offset' \in Nat /\ ctail_offset <= ctail_offset' /\ ctail_offset' <= head_offset
        /\ \A b \in 0..(ctail_offset' - 1) : b \in Members(acked_set')
        /\ cell' \in {cell, Cleansed(ctail_offset')}
    <3>1. CASE c.end >= c.start
      <4>1. Members(acked_set) \cap (c.start..c.end) = {}
        <5> SUFFICES ASSUME NEW b \in Members(acked_set), b \in c.start..c.end PROVE FALSE
          OBVIOUS
        <5>1. b \in Bytes
          BY <1>0, <1>5 DEF Lists
        <5>2. Carries(c, b)
          BY <1>2 DEF Carries
        <5> QED BY <1>0, <5>1, <5>2 DEF States
      <4>2. Inserted(acked, acked_set, c.start, c.end)
        BY <1>2, <1>l, <3>1, InsertExact DEF acked
      <4>3. RangeList(acked) /\ Members(acked) = Members(acked_set) \cup (c.start..c.end) /\ Apart(acked, 1)
        BY <1>l, <4>1, <4>2 DEF Inserted
      <4>4. \A v \in Members(acked) : v < head_offset
        BY <1>2, <1>3, <2>1, <2>2, <4>3
      <4>5. acked # <<>>
        <5>1. c.start \in Members(acked)
          BY <1>2, <3>1, <4>3
        <5> QED BY <5>1, NoRange
      <4>6. \A b \in 0..(ctail_offset - 1) : b \in Members(acked)
        BY <1>0, <4>3 DEF Held
      <4>7. ctail \in Nat /\ ctail_offset <= ctail /\ ctail <= head_offset /\ \A b \in 0..(ctail - 1) : b \in Members(acked)
        BY <1>0, <4>3, <4>4, <4>5, <4>6, TailMoves DEF ctail
      <4>8. Max({head_offset, ctail}) = head_offset
        <5>1. head_offset \in Int /\ ctail \in Int /\ head_offset >= ctail
          BY <1>3, <4>7
        <5> QED BY <5>1, MinMax
      <4> QED BY <1>1, <3>1, <4>3, <4>7, <4>8
    <3>2. CASE ~ (c.end >= c.start)
      <4>1. c.start..c.end = {}
        BY <1>2, <3>2
      <4>2. acked_set' = acked_set /\ ctail_offset' = ctail_offset /\ head_offset' = head_offset
        BY <1>1, <3>2
      <4>3. \A b \in 0..(ctail_offset - 1) : b \in Members(acked_set)
        BY <1>0 DEF Held
      <4>4. cell' = cell
        BY <1>1, <1>2, <3>2
      <4> QED BY <1>3, <1>l, <4>1, <4>2, <4>3, <4>4
    <3> QED BY <3>1, <3>2
  <2>c. /\ cell' \in Seq(Int) /\ Len(cell') = alloc
        /\ \A b \in ctail_offset'..(head_offset - 1) : cell'[Place(b, alloc)] = b
    BY <1>0, <2>3, CleansedHeld
  <2>4. (Empty' <=> Empty) /\ Bytes' = Bytes
    BY <1>1, <2>3 DEF Empty, Bytes
  <2>5. Types'
    <3>1. head_offset - ctail_offset' <= alloc
      <4>1. head_offset - ctail_offset <= alloc
        BY <1>0, Numbers
      <4>2. ctail_offset' \in Nat /\ ctail_offset <= ctail_offset'
        BY <2>3
      <4>3. \A h, a, t, u \in Nat : h - t <= a /\ t <= u => h - u <= a
        OBVIOUS
      <4> QED BY <1>3, <4>1, <4>2, <4>3, Zenon
    <3>2. ctail_offset' \in 0..head_offset
      BY <1>3, <2>3
    <3> QED BY <1>0, <1>1, <2>3, <2>c, <3>1, <3>2 DEF Types, alloc, ring_buf_used, IsChunk
  <2>6. Lists'
    <3>1. \A v \in Members(acked_set') : v \in Nat /\ v < head_offset
      BY <1>2, <1>3, <2>1, <2>2, <2>3
    <3>2. Members(acked_set') \subseteq Bytes
      BY <1>0, <3>1, BytesAre
    <3> QED BY <1>0, <1>1, <1>5, <2>3, <2>4, <3>2 DEF Lists
  <2>7. Chunks'
    BY <1>0, <1>1, <1>5, <2>3, <2>4 DEF Chunks
  <2>8. States'
    <3>1. IsChunk(c)
      BY <1>2 DEF IsChunk
    <3> QED BY <1>0, <1>1, <2>3, <3>1, StatesMove
  <2>9. Held'
    BY <2>3, <2>c DEF Held, Place, alloc
  <2> QED BY <2>5, <2>6, <2>7, <2>8, <2>9 DEF IInv
<1> QED BY <1>4, <1>5

LEMMA LostKeeps ==
  ASSUME IInv, NEW c \in inflight, Lost(c)
  PROVE  IInv'
<1>0. Types /\ Lists /\ Chunks /\ States /\ Held
  BY DEF IInv
<1>1. /\ inflight' = inflight \ {c} /\ cell' = cell /\ head_offset' = head_offset
      /\ ctail_offset' = ctail_offset /\ acked_set' = acked_set
      /\ have_final_size' = have_final_size
      /\ new_set' = IF c.end >= c.start THEN insert(new_set, c.start, c.end) ELSE new_set
  BY DEF Lost, ring
<1>2. c.start \in Nat /\ c.end \in Nat /\ U64 - 1 \in Nat
  BY <1>0, ChunkFields, Numbers
<1>3. RangeList(new_set') /\ Members(new_set') = Members(new_set) \cup (c.start..c.end)
  <2>0. RangeList(new_set)
    BY <1>0 DEF Lists
  <2>1. CASE c.end >= c.start
    BY <1>1, <1>2, <2>0, <2>1, InsertExact DEF Inserted
  <2>2. CASE ~ (c.end >= c.start)
    <3>1. c.start..c.end = {}
      BY <1>2, <2>2
    <3> QED BY <1>1, <2>0, <2>2, <3>1
  <2> QED BY <2>1, <2>2
<1>4. Types' /\ Held'
  BY <1>0, <1>1 DEF Types, Held, alloc, ring_buf_used, Place, IsChunk
<1>5. (Empty' <=> Empty) /\ Bytes' = Bytes
  BY <1>1 DEF Empty, Bytes
<1>6. Chunks'
  BY <1>0, <1>1, <1>5 DEF Chunks
<1>7. CASE ~ Empty
  <2>1. Members(new_set') \subseteq Bytes
    <3>1. c.end < head_offset /\ head_offset \in Nat
      BY <1>0, <1>7, Numbers DEF Chunks
    <3>2. \A v \in c.start..c.end : v \in Nat /\ v < head_offset
      BY <1>2, <3>1
    <3>3. c.start..c.end \subseteq Bytes
      BY <1>0, <3>2, BytesAre
    <3> QED BY <1>0, <1>3, <1>7, <3>3 DEF Lists
  <2>2. Lists'
    BY <1>0, <1>1, <1>3, <1>5, <1>7, <2>1 DEF Lists
  <2>3. States'
    <3>1. IsChunk(c)
      BY <1>2 DEF IsChunk
    <3> QED BY <1>0, <1>1, <1>3, <3>1, StatesMove
  <2> QED BY <1>4, <1>6, <2>2, <2>3 DEF IInv
<1>8. CASE Empty
  <2>1. c.start = 0 /\ c.end = U64 - 1 /\ c.end >= c.start
    BY <1>0, <1>2, <1>8 DEF Chunks
  <2>2. new_set' = Whole
    <3>1. new_set = <<>> \/ new_set = Whole
      BY <1>0, <1>8 DEF Lists
    <3>2. CASE new_set = <<>>
      BY <1>1, <2>1, <3>2 DEF insert, Whole
    <3>3. CASE new_set = Whole
      <4>1. Len(Whole) = 1 /\ Whole[1].start = 0 /\ Whole[1].end = U64 - 1
        BY <1>0, WholeFacts
      <4>2. ~ (0 > U64 - 1) /\ 0 <= 0 /\ U64 - 1 >= U64 - 1
        BY <1>2
      <4>3. insert(Whole, 0, U64 - 1) = <<Interval(0, U64 - 1)>>
        BY <4>1, <4>2 DEF insert
      <4> QED BY <1>1, <2>1, <3>3, <4>3 DEF Whole
    <3> QED BY <3>1, <3>2, <3>3
  <2>3. Lists'
    BY <1>0, <1>1, <1>3, <1>5, <1>8, <2>2 DEF Lists, Whole
  <2>4. States'
    <3>1. Bytes' = {}
      BY <1>5, <1>8 DEF Bytes, Empty
    <3> QED BY <3>1 DEF States
  <2> QED BY <1>4, <1>6, <2>3, <2>4 DEF IInv
<1> QED BY <1>7, <1>8

LEMMA NextKeeps == IInv /\ [Next]_vars => IInv'
<1> SUFFICES ASSUME IInv, [Next]_vars PROVE IInv'
  OBVIOUS
<1>1. CASE \E n \in 1..MaxOffset : SStreamAppend(n)
  BY <1>1, AppendKeeps
<1>2. CASE SStreamFin
  BY <1>2, FinKeeps
<1>3. CASE \E n \in Sizes : SetBufferSize(n)
  BY <1>3, ResizeKeeps
<1>4. CASE SendFin
  BY <1>4, SendFinKeeps
<1>5. CASE \E len \in 0..MaxOffset : SendChunk(len)
  BY <1>5, SendChunkKeeps
<1>6. CASE \E c \in inflight : Acked(c)
  BY <1>6, AckedKeeps
<1>7. CASE \E c \in inflight : Lost(c)
  BY <1>7, LostKeeps
<1>8. CASE UNCHANGED vars
  BY <1>8 DEF vars, ring, fin, IInv, Types, Lists, Chunks, States, Held, Empty, Bytes, Carries,
              alloc, ring_buf_used, Place, IsChunk
<1> QED BY <1>1, <1>2, <1>3, <1>4, <1>5, <1>6, <1>7, <1>8 DEF Next, Sending, Acknowledging

-----------------------------------------------------------------------------
\* The lists of quic_sstream.c are in order, what is acknowledged never borders
\* on what is, every byte is new, in one chunk or acknowledged, and the ring holds
\* the bytes from its tail on, in every behaviour and for rings of any size.
THEOREM Invariance == Spec => []IInv
BY InitEstablishes, NextKeeps, PTL DEF Spec

\* is_totally_acked compares one range with the size of the stream.  It is right
\* because ranges that do not border one another cannot cover all bytes unless
\* there is only one.
LEMMA OneRangeLeft ==
  ASSUME IInv, head_offset # 0
  PROVE  /\ Len(acked_set) = 1 /\ acked_set[1].start = 0 /\ acked_set[1].end + 1 = head_offset
         <=> Bytes \subseteq Members(acked_set)
<1> DEFINE s == acked_set
           n == Len(s)
           h == head_offset
<1>0. Types /\ Lists /\ ~ Empty
  BY DEF IInv, Empty
<1>1. /\ s \in Seq(Ranges) /\ n \in Nat
      /\ \A i \in 1..n : s[i].start \in Nat /\ s[i].end \in Nat /\ s[i].start <= s[i].end
      /\ \A i, j \in 1..n : i < j => s[i].end + 1 < s[j].start
  BY <1>0, RangeFields DEF Lists, RangeList, WellFormed, Apart
<1>2. h \in Nat /\ h > 0
  BY <1>0, Numbers
<1>3. \A v \in Nat : v \in Members(s) <=> \E i \in 1..n : s[i].start <= v /\ v <= s[i].end
  BY <1>1, InMembers
<1>4. /\ \A v \in Members(s) : v \in Nat /\ v < h
      /\ \A v : v \in Bytes <=> v \in Nat /\ v < h
  BY <1>0, BytesAre DEF Lists
<1> HIDE DEF s, n, h
<1>5. ASSUME n = 1, s[1].start = 0, s[1].end + 1 = h, NEW v \in Bytes PROVE v \in Members(s)
  <2>1. v \in Nat /\ v < h /\ 1 \in 1..n
    BY <1>4, <1>5
  <2>2. s[1].start <= v /\ v <= s[1].end
    BY <1>1, <1>5, <2>1
  <2> QED BY <1>3, <2>1, <2>2
<1>6. ASSUME Bytes \subseteq Members(s) PROVE n = 1 /\ s[1].start = 0 /\ s[1].end + 1 = h
  <2>1. PICK i \in 1..n : s[i].start <= 0 /\ 0 <= s[i].end
    <3>1. 0 \in Members(s)
      BY <1>2, <1>4, <1>6
    <3> QED BY <1>3, <3>1
  <2>2. 1 \in 1..n /\ s[1].start = 0
    <3>1. 1 \in 1..n
      BY <1>1
    <3>2. CASE i = 1
      BY <1>1, <2>1, <3>1, <3>2
    <3>3. CASE i # 1
      <4>1. 1 < i
        BY <1>1, <3>3
      <4> QED BY <1>1, <2>1, <3>1, <4>1
    <3> QED BY <3>1, <3>2, <3>3
  <2> DEFINE v == s[1].end + 1
  <2>3. v \in Nat /\ v <= h
    <3>1. s[1].end \in Members(s)
      BY <1>1, <1>3, <2>2
    <3> QED BY <1>1, <1>2, <1>4, <2>2, <3>1
  <2>4. v \notin Members(s)
    <3> SUFFICES ASSUME NEW j \in 1..n, s[j].start <= v, v <= s[j].end PROVE FALSE
      BY <1>3, <2>3
    <3>1. CASE j = 1
      BY <1>1, <2>2, <3>1
    <3>2. CASE j # 1
      <4>1. 1 < j
        BY <1>1, <3>2
      <4> QED BY <1>1, <2>2, <4>1
    <3> QED BY <3>1, <3>2
  <2>5. v = h
    BY <1>2, <1>4, <1>6, <2>3, <2>4
  <2>6. n = 1
    <3> SUFFICES ASSUME n # 1 PROVE FALSE
      OBVIOUS
    <3>1. 2 \in 1..n
      BY <1>1, <2>2
    <3>2. s[2].start \in Members(s)
      BY <1>1, <1>3, <3>1
    <3>3. s[2].start < h /\ s[2].start \in Nat
      BY <1>4, <3>2
    <3>4. s[1].end + 1 < s[2].start /\ s[1].end \in Nat
      BY <1>1, <2>2, <3>1
    <3> QED BY <1>2, <2>5, <3>3, <3>4
  <2> QED BY <2>2, <2>5, <2>6
<1>7. (n = 1 /\ s[1].start = 0 /\ s[1].end + 1 = h) <=> Bytes \subseteq Members(s)
  BY <1>5, <1>6
<1> QED BY <1>7 DEF s, n, h

\* Whatever order chunks are acknowledged and lost in, ossl_uint_set_insert and
\* _remove would keep either list exact for any range, ossl_uint_set_query finds
\* what is there, and ossl_quic_sstream_is_totally_acked answers rightly.
THEOREM ListsExact == Spec => []RangeListsExact
<1>1. IInv => RangeListsExact
  <2> SUFFICES ASSUME IInv PROVE RangeListsExact
    OBVIOUS
  <2>0. Types /\ Lists /\ MaxOffset \in Nat
    BY Numbers DEF IInv
  <2>1. ASSUME NEW s \in {new_set, acked_set}
        PROVE  /\ \A a \in 0..MaxOffset : \A b \in a..MaxOffset :
                    /\ WellFormed(insert(s, a, b)) /\ WellFormed(remove(s, a, b))
                    /\ Members(insert(s, a, b)) = Members(s) \cup (a..b)
                    /\ Members(remove(s, a, b)) = Members(s) \ (a..b)
               /\ \A v \in 0..MaxOffset : query(s, v) <=> v \in Members(s)
    <3>0. RangeList(s)
      BY <2>0 DEF Lists
    <3>1. ASSUME NEW a \in 0..MaxOffset, NEW b \in a..MaxOffset
          PROVE  /\ WellFormed(insert(s, a, b)) /\ WellFormed(remove(s, a, b))
                 /\ Members(insert(s, a, b)) = Members(s) \cup (a..b)
                 /\ Members(remove(s, a, b)) = Members(s) \ (a..b)
      <4>1. a \in Nat /\ b \in Nat /\ a <= b
        BY <2>0
      <4>2. Inserted(insert(s, a, b), s, a, b)
        BY <3>0, <4>1, InsertExact
      <4>3. RangeList(remove(s, a, b)) /\ Members(remove(s, a, b)) = Members(s) \ (a..b)
        BY <3>0, <4>1, RemoveExact
      <4> QED BY <4>2, <4>3 DEF Inserted, RangeList
    <3>2. ASSUME NEW v \in 0..MaxOffset PROVE query(s, v) <=> v \in Members(s)
      <4>1. v \in Nat
        BY <2>0
      <4> QED BY <3>0, <4>1, QueryExact
    <3> QED BY <3>1, <3>2
  <2>2. is_totally_acked <=> Bytes \subseteq Members(acked_set) /\ (have_final_size => acked_final_size)
    <3>1. CASE head_offset = 0
      <4>1. Bytes = {}
        BY <3>1 DEF Bytes
      <4> QED BY <3>1, <4>1 DEF is_totally_acked
    <3>2. CASE head_offset # 0
      BY <3>2, OneRangeLeft DEF is_totally_acked
    <3> QED BY <3>1, <3>2
  <2> QED BY <2>1, <2>2 DEF RangeListsExact
<1> QED BY <1>1, Invariance, PTL

\* No byte of the stream is in two of the states NEW, IN_FLIGHT and ACKED or in
\* two packets, and none is in no state, whatever is lost.
THEOREM NoByteLost == Spec => []OneStatePerByte
<1>1. IInv => OneStatePerByte
  <2> SUFFICES ASSUME IInv, NEW b \in Bytes
               PROVE  /\ b \in Members(new_set) => b \notin Members(acked_set)
                      /\ Cardinality({c \in inflight : b \in c.start..c.end}) =
                           IF b \in Members(new_set) \cup Members(acked_set) THEN 0 ELSE 1
    BY DEF OneStatePerByte
  <2> DEFINE K == {c \in inflight : b \in c.start..c.end}
             out == b \in Members(new_set) \cup Members(acked_set)
  <2>1. Types /\ States /\ b \in Nat
    BY BytesAre DEF IInv
  <2>2. K = {c \in inflight : Carries(c, b)}
    <3>1. \A c \in inflight : b \in c.start..c.end <=> Carries(c, b)
      BY <2>1, ChunkFields DEF Carries
    <3> QED BY <3>1
  <2>3. b \in Members(new_set) => b \notin Members(acked_set)
    BY <2>1 DEF States
  <2>4. CASE out
    <3>1. K = {}
      BY <2>1, <2>2, <2>4 DEF States
    <3> QED BY <2>3, <2>4, <3>1, FS_EmptySet
  <2>5. CASE ~ out
    <3>1. PICK c \in inflight : Carries(c, b)
      BY <2>1, <2>5 DEF States
    <3>2. \A d \in inflight : Carries(d, b) => d = c
      BY <2>1, <3>1 DEF States
    <3>3. K = {c}
      BY <2>2, <3>1, <3>2
    <3>4. Cardinality({c}) = 1
      BY FS_Singleton
    <3> QED BY <2>3, <2>5, <3>3, <3>4
  <2> QED BY <2>4, <2>5
<1> QED BY <1>1, Invariance, PTL

\* What is not acknowledged is at its place in the ring of ring_buf.h, through
\* wrap-around, culling and changes of size, so a lost chunk can be sent again.
THEOREM UnackedHeld == Spec => []UnackedBytesHeld
<1>1. IInv => UnackedBytesHeld
  <2> SUFFICES ASSUME IInv, NEW b \in Bytes, b \notin Members(acked_set)
               PROVE  ctail_offset <= b /\ cell[Place(b, alloc)] = b
    BY DEF UnackedBytesHeld
  <2>1. /\ Types /\ Held /\ b \in Nat /\ b < head_offset
        /\ ctail_offset \in Nat /\ head_offset \in Nat
    BY BytesAre, Numbers DEF IInv
  <2>2. ctail_offset <= b
    <3> SUFFICES ASSUME b < ctail_offset PROVE FALSE
      BY <2>1
    <3>1. b \in 0..(ctail_offset - 1)
      BY <2>1
    <3> QED BY <2>1, <3>1 DEF Held
  <2>3. b \in ctail_offset..(head_offset - 1)
    BY <2>1, <2>2
  <2> QED BY <2>1, <2>2, <2>3 DEF Held
<1> QED BY <1>1, Invariance, PTL

=============================================================================
