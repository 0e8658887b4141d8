--------------------------- MODULE QuicFlowProofs ---------------------------
(***************************************************************************)
(* Proofs about QuicFlow, for any number of streams, any windows and any   *)
(* frames lost, repeated or late: two correct ends never find a protocol   *)
(* error, the watermarks are in order, and the two ends implement credit   *)
(* granted and spent at one place.                                         *)
(***************************************************************************)
EXTENDS QuicFlow, WellFoundedInduction, TLAPS

-----------------------------------------------------------------------------
(* Sums, by induction: a set of naturals that has 0 and the successor of   *)
(* each of its members has them all, for there would be a least one it has *)
(* not.                                                                    *)

LEMMA Smallest ==
  ASSUME NEW T \in SUBSET Nat, T # {}
  PROVE  \E x \in T : \A y \in T : x <= y
<1> DEFINE R == OpToRel(<, Nat)
<1>1. IsWellFoundedOn(R, Nat)
  BY NatLessThanWellFounded
<1>2. \A x, y \in Nat : <<y, x>> \in R <=> y < x
  BY DEF OpToRel
<1> HIDE DEF R
<1>3. PICK x \in T : \A y \in T : ~ (<<y, x>> \in R)
  BY <1>1, WFMin
<1>4. x \in Nat /\ \A y \in T : y \in Nat
  OBVIOUS
<1>5. ASSUME NEW y \in T PROVE x <= y
  <2>1. ~ (y < x)
    BY <1>2, <1>3, <1>4, Zenon
  <2> QED BY <1>4, <2>1
<1> QED BY <1>5

LEMMA SetInduction ==
  ASSUME NEW S, 0 \in S, \A n \in Nat : n \in S => n + 1 \in S
  PROVE  Nat \subseteq S
<1> SUFFICES ASSUME Nat \ S # {} PROVE FALSE
  OBVIOUS
<1> DEFINE T == Nat \ S
<1>1. T \in SUBSET Nat /\ T # {}
  OBVIOUS
<1>2. PICK n \in T : \A m \in T : n <= m
  <2> HIDE DEF T
  <2> QED BY <1>1, Smallest
<1>3. n # 0 /\ n - 1 \in Nat
  BY <1>2
<1>4. n - 1 \in S
  BY <1>2, <1>3
<1> QED BY <1>2, <1>3, <1>4

\* There is a function that the recursion of PartialSums describes.
LEMMA SumsExist ==
  ASSUME NEW N \in Nat, NEW f \in [1..N -> Nat]
  PROVE  \E g \in [0..N -> Nat] : g = [i \in 0..N |-> IF i = 0 THEN 0 ELSE g[i - 1] + f[i]]
<1> DEFINE Summing(g, k) == \A i \in 0..k : g[i] = IF i = 0 THEN 0 ELSE g[i - 1] + f[i]
           S == {k \in Nat : k <= N => \E g \in [0..N -> Nat] : Summing(g, k)}
<1>1. 0 \in S
  <2> DEFINE g == [i \in 0..N |-> 0]
  <2>1. g \in [0..N -> Nat] /\ Summing(g, 0)
    OBVIOUS
  <2> QED BY <2>1
<1>2. ASSUME NEW k \in Nat, k \in S PROVE k + 1 \in S
  <2> SUFFICES ASSUME k + 1 <= N PROVE \E g \in [0..N -> Nat] : Summing(g, k + 1)
    OBVIOUS
  <2>1. PICK g \in [0..N -> Nat] : Summing(g, k)
    BY <1>2
  <2> DEFINE h == [g EXCEPT ![k + 1] = g[k] + f[k + 1]]
  <2>2. f[k + 1] \in Nat /\ g[k] \in Nat /\ k + 1 \in 0..N /\ k \in 0..N
    OBVIOUS
  <2>3. h \in [0..N -> Nat] /\ h[k + 1] = g[k] + f[k + 1]
        /\ \A i \in 0..k : h[i] = g[i]
    BY <2>2
  <2> HIDE DEF h
  <2>4. ASSUME NEW i \in 0..(k + 1)
        PROVE  h[i] = IF i = 0 THEN 0 ELSE h[i - 1] + f[i]
    <3>1. CASE i = k + 1
      BY <2>3, <3>1
    <3>2. CASE i # k + 1
      <4>1. i \in 0..k /\ (i # 0 => i - 1 \in 0..k)
        BY <3>2
      <4> QED BY <2>1, <2>3, <4>1
    <3> QED BY <3>1, <3>2
  <2> QED BY <2>3, <2>4
<1> HIDE DEF S
<1>3. N \in S
  BY <1>1, <1>2, SetInduction
<1>4. PICK g \in [0..N -> Nat] : Summing(g, N)
  <2> HIDE DEF Summing
  <2>1. N <= N => \E g \in [0..N -> Nat] : Summing(g, N)
    BY <1>3 DEF S
  <2>2. N <= N
    OBVIOUS
  <2> QED BY <2>1, <2>2
<1>5. g = [i \in 0..N |-> IF i = 0 THEN 0 ELSE g[i - 1] + f[i]]
  BY <1>4
<1> QED BY <1>5

LEMMA Summation ==
  ASSUME NEW N \in Nat, NEW f \in [1..N -> Nat]
  PROVE  /\ PartialSums(f, N)[0] = 0
         /\ \A i \in 1..N : PartialSums(f, N)[i] = PartialSums(f, N)[i - 1] + f[i]
<1> DEFINE g == PartialSums(f, N)
<1>1. g = [i \in 0..N |-> IF i = 0 THEN 0 ELSE g[i - 1] + f[i]]
  BY SumsExist DEF PartialSums
<1> HIDE DEF g
<1>2. g[0] = 0 /\ \A i \in 1..N : g[i] = g[i - 1] + f[i]
  BY <1>1
<1> QED BY <1>2 DEF g

LEMMA SumType ==
  ASSUME NEW N \in Nat, NEW f \in [1..N -> Nat]
  PROVE  \A i \in 0..N : PartialSums(f, N)[i] \in Nat
<1> DEFINE g == PartialSums(f, N)
           S == {k \in Nat : k <= N => g[k] \in Nat}
<1>1. g[0] = 0 /\ \A i \in 1..N : g[i] = g[i - 1] + f[i]
  BY Summation
<1> HIDE DEF g
<1>2. 0 \in S
  BY <1>1
<1>3. ASSUME NEW k \in Nat, k \in S PROVE k + 1 \in S
  <2> SUFFICES ASSUME k + 1 <= N PROVE g[k + 1] \in Nat
    OBVIOUS
  <2>1. g[k] \in Nat /\ f[k + 1] \in Nat /\ k + 1 \in 1..N
    BY <1>3
  <2>2. g[k + 1] = g[(k + 1) - 1] + f[k + 1] /\ (k + 1) - 1 = k
    BY <1>1, <2>1
  <2> QED BY <2>1, <2>2
<1> HIDE DEF S
<1>4. Nat \subseteq S
  BY <1>2, <1>3, SetInduction
<1> QED BY <1>4 DEF S, g

LEMMA SumMonotone ==
  ASSUME NEW N \in Nat, NEW f \in [1..N -> Nat], NEW h \in [1..N -> Nat],
         \A i \in 1..N : f[i] <= h[i]
  PROVE  PartialSums(f, N)[N] <= PartialSums(h, N)[N]
<1> DEFINE F == PartialSums(f, N)
           H == PartialSums(h, N)
           S == {k \in Nat : k <= N => F[k] <= H[k]}
<1>1. /\ F[0] = 0 /\ \A i \in 1..N : F[i] = F[i - 1] + f[i]
      /\ \A i \in 0..N : F[i] \in Nat
  BY Summation, SumType
<1>2. /\ H[0] = 0 /\ \A i \in 1..N : H[i] = H[i - 1] + h[i]
      /\ \A i \in 0..N : H[i] \in Nat
  BY Summation, SumType
<1> HIDE DEF F, H
<1>3. 0 \in S
  BY <1>1, <1>2
<1>4. ASSUME NEW k \in Nat, k \in S PROVE k + 1 \in S
  <2> SUFFICES ASSUME k + 1 <= N PROVE F[k + 1] <= H[k + 1]
    OBVIOUS
  <2>1. /\ F[k] <= H[k] /\ k + 1 \in 1..N /\ k \in 0..N /\ (k + 1) - 1 = k
        /\ f[k + 1] \in Nat /\ h[k + 1] \in Nat /\ f[k + 1] <= h[k + 1]
    BY <1>4
  <2>2. F[k + 1] = F[k] + f[k + 1] /\ H[k + 1] = H[k] + h[k + 1]
    BY <1>1, <1>2, <2>1
  <2>3. F[k] \in Nat /\ H[k] \in Nat
    BY <1>1, <1>2, <2>1
  <2> QED BY <2>1, <2>2, <2>3
<1> HIDE DEF S
<1>5. N \in S
  BY <1>3, <1>4, SetInduction
<1> QED BY <1>5 DEF S, F, H

LEMMA Rearranged ==
  ASSUME NEW a \in Nat, NEW b \in Nat, NEW c \in Nat, NEW e \in Nat
  PROVE  (a + b) + (c + e) = (a + c) + (b + e)
OBVIOUS

LEMMA SumAdd ==
  ASSUME NEW N \in Nat, NEW f \in [1..N -> Nat], NEW d \in [1..N -> Nat],
         NEW h \in [1..N -> Nat], \A i \in 1..N : h[i] = f[i] + d[i]
  PROVE  PartialSums(h, N)[N] = PartialSums(f, N)[N] + PartialSums(d, N)[N]
<1> DEFINE F == PartialSums(f, N)
           D == PartialSums(d, N)
           H == PartialSums(h, N)
           S == {k \in Nat : k <= N => H[k] = F[k] + D[k]}
<1>1. /\ F[0] = 0 /\ \A i \in 1..N : F[i] = F[i - 1] + f[i]
      /\ \A i \in 0..N : F[i] \in Nat
  BY Summation, SumType
<1>2. /\ D[0] = 0 /\ \A i \in 1..N : D[i] = D[i - 1] + d[i]
      /\ \A i \in 0..N : D[i] \in Nat
  BY Summation, SumType
<1>3. H[0] = 0 /\ \A i \in 1..N : H[i] = H[i - 1] + h[i]
  BY Summation
<1> HIDE DEF F, D, H
<1>4. 0 \in S
  BY <1>1, <1>2, <1>3
<1>5. ASSUME NEW k \in Nat, k \in S PROVE k + 1 \in S
  <2> SUFFICES ASSUME k + 1 <= N PROVE H[k + 1] = F[k + 1] + D[k + 1]
    OBVIOUS
  <2>1. /\ H[k] = F[k] + D[k] /\ k + 1 \in 1..N /\ k \in 0..N /\ (k + 1) - 1 = k
        /\ f[k + 1] \in Nat /\ d[k + 1] \in Nat /\ h[k + 1] = f[k + 1] + d[k + 1]
    BY <1>5
  <2>2. F[k + 1] = F[k] + f[k + 1] /\ D[k + 1] = D[k] + d[k + 1] /\ H[k + 1] = H[k] + h[k + 1]
    BY <1>1, <1>2, <1>3, <2>1
  <2>3. F[k] \in Nat /\ D[k] \in Nat
    BY <1>1, <1>2, <2>1
  <2>4. H[k + 1] = (F[k] + D[k]) + (f[k + 1] + d[k + 1])
    BY <2>1, <2>2
  <2>5. f[k + 1] \in Nat /\ d[k + 1] \in Nat
    BY <2>1
  <2>6. (F[k] + D[k]) + (f[k + 1] + d[k + 1]) = (F[k] + f[k + 1]) + (D[k] + d[k + 1])
    BY <2>3, <2>5, Rearranged, SMTT(60)
  <2> QED BY <2>2, <2>4, <2>6, Zenon
<1> HIDE DEF S
<1>6. N \in S
  BY <1>4, <1>5, SetInduction
<1> QED BY <1>6 DEF S, F, D, H

LEMMA SumZero ==
  ASSUME NEW N \in Nat, NEW f \in [1..N -> Nat], \A i \in 1..N : f[i] = 0
  PROVE  PartialSums(f, N)[N] = 0
<1> DEFINE F == PartialSums(f, N)
           S == {k \in Nat : k <= N => F[k] = 0}
<1>1. F[0] = 0 /\ \A i \in 1..N : F[i] = F[i - 1] + f[i]
  BY Summation
<1> HIDE DEF F
<1>2. 0 \in S
  BY <1>1
<1>3. ASSUME NEW k \in Nat, k \in S PROVE k + 1 \in S
  <2> SUFFICES ASSUME k + 1 <= N PROVE F[k + 1] = 0
    OBVIOUS
  <2>1. F[k] = 0 /\ k + 1 \in 1..N /\ (k + 1) - 1 = k
    BY <1>3
  <2>2. F[k + 1] = F[k] + f[k + 1]
    BY <1>1, <2>1
  <2> QED BY <2>1, <2>2
<1> HIDE DEF S
<1>4. N \in S
  BY <1>2, <1>3, SetInduction
<1> QED BY <1>4 DEF S, F

\* One of the numbers grows by d.
LEMMA SumGrows ==
  ASSUME NEW N \in Nat, NEW f \in [1..N -> Nat], NEW h \in [1..N -> Nat],
         NEW s \in 1..N, NEW d \in Nat,
         h[s] = f[s] + d, \A i \in 1..N : i # s => h[i] = f[i]
  PROVE  PartialSums(h, N)[N] = PartialSums(f, N)[N] + d
<1> DEFINE F == PartialSums(f, N)
           H == PartialSums(h, N)
           S == {k \in Nat : k <= N => H[k] = F[k] + (IF s <= k THEN d ELSE 0)}
<1>1. /\ F[0] = 0 /\ \A i \in 1..N : F[i] = F[i - 1] + f[i]
      /\ \A i \in 0..N : F[i] \in Nat
  BY Summation, SumType
<1>2. H[0] = 0 /\ \A i \in 1..N : H[i] = H[i - 1] + h[i]
  BY Summation
<1> HIDE DEF F, H
<1>3. 0 \in S
  BY <1>1, <1>2
<1>4. ASSUME NEW k \in Nat, k \in S PROVE k + 1 \in S
  <2> SUFFICES ASSUME k + 1 <= N
               PROVE  H[k + 1] = F[k + 1] + (IF s <= k + 1 THEN d ELSE 0)
    OBVIOUS
  <2>1. /\ H[k] = F[k] + (IF s <= k THEN d ELSE 0)
        /\ k + 1 \in 1..N /\ k \in 0..N /\ (k + 1) - 1 = k
        /\ f[k + 1] \in Nat /\ h[k + 1] = f[k + 1] + (IF s = k + 1 THEN d ELSE 0)
    <3>1. k + 1 \in 1..N /\ k \in 0..N /\ (k + 1) - 1 = k /\ f[k + 1] \in Nat
      OBVIOUS
    <3>2. H[k] = F[k] + (IF s <= k THEN d ELSE 0)
      BY <1>4
    <3>3. h[k + 1] = f[k + 1] + (IF s = k + 1 THEN d ELSE 0)
      <4>1. CASE s = k + 1
        BY <4>1
      <4>2. CASE s # k + 1
        BY <3>1, <4>2
      <4> QED BY <4>1, <4>2
    <3> QED BY <3>1, <3>2, <3>3
  <2>2. F[k + 1] = F[k] + f[k + 1] /\ H[k + 1] = H[k] + h[k + 1] /\ F[k] \in Nat
    BY <1>1, <1>2, <2>1
  <2>3. CASE s <= k
    BY <2>1, <2>2, <2>3
  <2>4. CASE s = k + 1
    BY <2>1, <2>2, <2>4
  <2>5. CASE s > k + 1
    BY <2>1, <2>2, <2>5
  <2> QED BY <2>3, <2>4, <2>5
<1> HIDE DEF S
<1>5. N \in S
  BY <1>3, <1>4, SetInduction
<1>6. H[N] = F[N] + d
  BY <1>5 DEF S
<1> QED BY <1>6 DEF F, H

LEMMA MinMax ==
  ASSUME NEW a \in Int, NEW b \in Int
  PROVE  /\ Min({a, b}) = IF a <= b THEN a ELSE b
         /\ Max({a, b}) = IF a >= b THEN a ELSE b
BY DEF Min, Max

LEMMA MinMaxNat ==
  ASSUME NEW a \in Nat, NEW b \in Nat
  PROVE  Min({a, b}) \in Nat /\ Max({a, b}) \in Nat /\ a <= Max({a, b})
<1>1. /\ Min({a, b}) = IF a <= b THEN a ELSE b
      /\ Max({a, b}) = IF a >= b THEN a ELSE b
  BY MinMax
<1> QED BY <1>1

-----------------------------------------------------------------------------
(* The inductive invariant.                                                *)

Errors == {"NO_ERROR", "FLOW_CONTROL_ERROR", "FINAL_SIZE_ERROR"}
TXFC == [swm : Nat, cwm : Nat]
RXFC == [swm : Nat, cwm : Nat, rwm : Nat, hwm : Nat, cur_window_size : Nat,
         error_code : Errors, has_cwm_changed : BOOLEAN, is_fin : BOOLEAN]

StreamFrames == [kind : {"STREAM"}, s : Streams, from : Nat, end : Nat, fin : BOOLEAN]
ResetFrames == [kind : {"RESET_STREAM"}, s : Streams, end : Nat]
CreditFrames == [kind : {"MAX_STREAM_DATA"}, s : Streams, cwm : Nat]
                \cup [kind : {"MAX_DATA"}, s : {Conn}, cwm : Nat]

Types ==
  /\ txfc \in [Controllers -> TXFC] /\ rxfc \in [Controllers -> RXFC]
  /\ final \in [Streams -> Nat \cup {NoSize}]
  /\ net \subseteq StreamFrames \cup ResetFrames \cup CreditFrames
  /\ lost \subseteq StreamFrames

\* Nothing more will be sent on s.
Ended(s) == txfc[s].swm = StreamLen \/ final[s] # NoSize

\* A frame stays within what was sent, and within what was granted.
Data(f) == f.end <= txfc[f.s].swm /\ (f.fin => f.end = StreamLen)
Reset(f) == final[f.s] # NoSize /\ f.end = txfc[f.s].swm
Granted(f) == f.cwm <= rxfc[f.s].cwm

FramesTrue ==
  /\ \A f \in net \cup lost : f.kind = "STREAM" => Data(f)
  /\ \A f \in net : f.kind = "RESET_STREAM" => Reset(f)
  /\ \A f \in net : f.kind \in {"MAX_DATA", "MAX_STREAM_DATA"} => Granted(f)

\* What a stream's two controllers know of each other: the highest offset
\* received is what was charged, and once it is final it is what was sent.
StreamMarks ==
  \A s \in Streams :
    /\ rxfc[s].rwm <= rxfc[s].swm /\ rxfc[s].hwm = rxfc[s].swm
    /\ rxfc[s].hwm <= txfc[s].swm /\ txfc[s].swm <= StreamLen
    /\ rxfc[s].is_fin => rxfc[s].hwm = txfc[s].swm /\ Ended(s)

Granting == \A x \in Controllers : txfc[x].swm <= txfc[x].cwm /\ txfc[x].cwm <= rxfc[x].cwm

SentOf == [s \in Streams |-> txfc[s].swm]
HighestOf == [s \in Streams |-> rxfc[s].hwm]
ReadOf == [s \in Streams |-> rxfc[s].rwm]

ConnMarks ==
  /\ txfc[Conn].swm = Total(SentOf)
  /\ rxfc[Conn].swm = Total(HighestOf)
  /\ rxfc[Conn].rwm = Total(ReadOf)

IInv == Types /\ FramesTrue /\ StreamMarks /\ Granting /\ ConnMarks /\ NoProtocolError

-----------------------------------------------------------------------------
(* Facts every step needs.                                                 *)

LEMMA ControllerSet ==
  /\ Streams \subseteq Controllers /\ Conn \in Controllers /\ Conn \notin Streams
  /\ Controllers = 0..NStreams /\ Streams = 1..NStreams /\ NStreams \in Nat
BY QuicFlowAssumption DEF Streams, Controllers, Conn

\* One stream's number grows by d.
LEMMA TotalGrows ==
  ASSUME NEW f \in [1..NStreams -> Nat], NEW h \in [1..NStreams -> Nat],
         NEW s \in 1..NStreams, NEW d \in Nat,
         h[s] = f[s] + d, \A i \in 1..NStreams : i # s => h[i] = f[i]
  PROVE  Total(h) = Total(f) + d
<1>1. NStreams \in Nat
  BY ControllerSet
<1> QED BY <1>1, SumGrows DEF Total

LEMMA TotalAdds ==
  ASSUME NEW f \in [1..NStreams -> Nat], NEW d \in [1..NStreams -> Nat],
         NEW h \in [1..NStreams -> Nat], \A i \in 1..NStreams : h[i] = f[i] + d[i]
  PROVE  Total(h) = Total(f) + Total(d)
<1>1. NStreams \in Nat
  BY ControllerSet
<1> QED BY <1>1, SumAdd DEF Total

\* The fields of the controllers.
LEMMA Fields ==
  ASSUME Types
  PROVE  /\ \A x \in Controllers :
              /\ txfc[x] \in TXFC /\ txfc[x].swm \in Nat /\ txfc[x].cwm \in Nat
              /\ rxfc[x] \in RXFC /\ rxfc[x].swm \in Nat /\ rxfc[x].cwm \in Nat
              /\ rxfc[x].rwm \in Nat /\ rxfc[x].hwm \in Nat
              /\ rxfc[x].cur_window_size \in Nat
              /\ rxfc[x].has_cwm_changed \in BOOLEAN /\ rxfc[x].is_fin \in BOOLEAN
         /\ SentOf \in [1..NStreams -> Nat] /\ HighestOf \in [1..NStreams -> Nat]
         /\ ReadOf \in [1..NStreams -> Nat]
<1>1. ASSUME NEW x \in Controllers
      PROVE  /\ txfc[x] \in TXFC /\ txfc[x].swm \in Nat /\ txfc[x].cwm \in Nat
             /\ rxfc[x] \in RXFC /\ rxfc[x].swm \in Nat /\ rxfc[x].cwm \in Nat
             /\ rxfc[x].rwm \in Nat /\ rxfc[x].hwm \in Nat
             /\ rxfc[x].cur_window_size \in Nat
             /\ rxfc[x].has_cwm_changed \in BOOLEAN /\ rxfc[x].is_fin \in BOOLEAN
  BY <1>1 DEF Types, TXFC, RXFC
<1> QED BY <1>1, ControllerSet DEF SentOf, HighestOf, ReadOf

LEMMA FrameKinds ==
  ASSUME Types
  PROVE  /\ \A f \in net \cup lost : f.kind = "STREAM" =>
              f.s \in Streams /\ f.end \in Nat /\ f.from \in Nat /\ f.fin \in BOOLEAN
         /\ \A f \in lost : f.kind = "STREAM"
         /\ \A f \in net : f.kind = "RESET_STREAM" => f.s \in Streams /\ f.end \in Nat
         /\ \A f \in net : f.kind \in {"MAX_DATA", "MAX_STREAM_DATA"} =>
              f.s \in Controllers /\ f.cwm \in Nat
BY ControllerSet DEF Types, StreamFrames, ResetFrames, CreditFrames

\* The connection's watermarks are in order because the streams' are.
LEMMA ConnInOrder ==
  ASSUME Types, StreamMarks, ConnMarks
  PROVE  rxfc[Conn].rwm <= rxfc[Conn].swm /\ rxfc[Conn].swm <= txfc[Conn].swm
<1>1. \A s \in 1..NStreams : ReadOf[s] <= HighestOf[s] /\ HighestOf[s] <= SentOf[s]
  BY ControllerSet, Fields DEF StreamMarks, ReadOf, HighestOf, SentOf
<1> QED BY <1>1, Fields, SumMonotone, ControllerSet DEF ConnMarks, Total

\* Frames already there stay true while nothing is sent or taken back.
LEMMA FramesStay ==
  ASSUME Types, FramesTrue, net' \subseteq net, lost' \subseteq net \cup lost,
         \A f \in lost' : f.kind = "STREAM", UNCHANGED <<txfc, final>>,
         \A x \in Controllers : rxfc'[x].cwm \in Nat /\ rxfc[x].cwm <= rxfc'[x].cwm
  PROVE  FramesTrue'
<1>1. ASSUME NEW f \in net' \cup lost', f.kind = "STREAM" PROVE Data(f)'
  BY <1>1 DEF FramesTrue, Data
<1>2. ASSUME NEW f \in net', f.kind = "RESET_STREAM" PROVE Reset(f)'
  BY <1>2 DEF FramesTrue, Reset
<1>3. ASSUME NEW f \in net', f.kind \in {"MAX_DATA", "MAX_STREAM_DATA"} PROVE Granted(f)'
  <2>1. Granted(f) /\ f.s \in Controllers /\ f.cwm \in Nat /\ rxfc[f.s].cwm \in Nat
    BY <1>3, FrameKinds, Fields DEF FramesTrue
  <2> QED BY <2>1 DEF Granted
<1> QED BY <1>1, <1>2, <1>3 DEF FramesTrue

-----------------------------------------------------------------------------
(* The steps of the sending end.                                           *)

LEMMA InitEstablishes ==
  ASSUME Init
  PROVE  IInv
<1>1. \A x \in Controllers : Window(x) \in Nat
  BY QuicFlowAssumption DEF Window
<1>2. Types
  BY <1>1 DEF Init, Types, TXFC, RXFC, Errors, NoSize
<1>3. FramesTrue
  BY DEF Init, FramesTrue
<1>4. StreamMarks
  BY ControllerSet, QuicFlowAssumption DEF Init, StreamMarks
<1>5. Granting
  BY <1>1 DEF Init, Granting
<1>6. ConnMarks
  <2>1. \A s \in 1..NStreams : SentOf[s] = 0 /\ HighestOf[s] = 0 /\ ReadOf[s] = 0
    BY ControllerSet DEF Init, SentOf, HighestOf, ReadOf
  <2>2. Total(SentOf) = 0 /\ Total(HighestOf) = 0 /\ Total(ReadOf) = 0
    BY <1>2, <2>1, Fields, SumZero, ControllerSet DEF Total
  <2> QED BY <2>2, ControllerSet DEF Init, ConnMarks
<1>7. NoProtocolError
  BY DEF Init, NoProtocolError
<1> QED BY <1>2, <1>3, <1>4, <1>5, <1>6, <1>7 DEF IInv

LEMMA ConsumeCredit ==
  ASSUME NEW fc \in TXFC, NEW m \in Nat, m <= fc.cwm - fc.swm
  PROVE  LET c == consume_credit_local(fc, m) IN
         c \in TXFC /\ c.swm = fc.swm + m /\ c.cwm = fc.cwm
<1>1. fc.cwm \in Nat /\ fc.swm \in Nat
  BY DEF TXFC
<1>2. Min({m, fc.cwm - fc.swm}) = m
  BY <1>1, MinMax
<1> QED BY <1>1, <1>2 DEF consume_credit_local, TXFC

\* Planned one after the other, the streams of a packet stay within the
\* connection's credit together, so consume_credit_local never caps.
LEMMA PacketWithinCredit ==
  ASSUME Types, Granting, NEW n \in [Streams -> 0..StreamLen], SendPacket(n)
  PROVE  /\ n \in [1..NStreams -> Nat] /\ Total(n) \in Nat
         /\ Total(n) <= txfc[Conn].cwm - txfc[Conn].swm
         /\ \A s \in Streams : n[s] <= txfc[s].cwm - txfc[s].swm
<1> DEFINE C == PartialSums(n, NStreams)
           room == txfc[Conn].cwm - txfc[Conn].swm
           S == {k \in Nat : k <= NStreams => C[k] <= room}
<1>1. n \in [1..NStreams -> Nat]
  BY ControllerSet, QuicFlowAssumption
<1>2. /\ C[0] = 0 /\ \A i \in 1..NStreams : C[i] = C[i - 1] + n[i]
      /\ \A i \in 0..NStreams : C[i] \in Nat
  BY <1>1, ControllerSet, Summation, SumType
<1>3. /\ room \in Int /\ 0 <= room
      /\ \A s \in Streams : txfc[s].cwm - txfc[s].swm \in Int /\ 0 <= txfc[s].cwm - txfc[s].swm
  <2>1. \A x \in Controllers : txfc[x].cwm \in Nat /\ txfc[x].swm \in Nat /\ txfc[x].swm <= txfc[x].cwm
    BY Fields DEF Granting
  <2>2. \A x \in Controllers : txfc[x].cwm - txfc[x].swm \in Int /\ 0 <= txfc[x].cwm - txfc[x].swm
    BY <2>1
  <2> QED BY <2>2, ControllerSet
<1>4. ASSUME NEW s \in Streams, n[s] > 0
      PROVE  n[s] <= txfc[s].cwm - txfc[s].swm /\ n[s] <= room - C[s - 1]
  <2>1. n[s] <= Min({txfc[s].cwm - (0 + txfc[s].swm), txfc[Conn].cwm - (C[s - 1] + txfc[Conn].swm)})
    BY <1>4 DEF SendPacket, get_credit, get_credit_local
  <2>2. C[s - 1] \in Nat /\ n[s] \in Nat
    BY <1>1, <1>2, ControllerSet
  <2>3. /\ txfc[s].cwm \in Nat /\ txfc[s].swm \in Nat
        /\ txfc[Conn].cwm \in Nat /\ txfc[Conn].swm \in Nat
    BY Fields, ControllerSet
  <2>4. ASSUME NEW a \in Int, NEW b \in Int, NEW m \in Int, m <= Min({a, b})
        PROVE  m <= a /\ m <= b
    BY <2>4, MinMax
  <2> HIDE DEF C
  <2>5. /\ n[s] <= txfc[s].cwm - (0 + txfc[s].swm)
        /\ n[s] <= txfc[Conn].cwm - (C[s - 1] + txfc[Conn].swm)
    <3> DEFINE p == txfc[s].cwm - (0 + txfc[s].swm)
               q == txfc[Conn].cwm - (C[s - 1] + txfc[Conn].swm)
    <3>1. p \in Int /\ q \in Int /\ n[s] \in Int /\ n[s] <= Min({p, q})
      BY <2>1, <2>2, <2>3
    <3> HIDE DEF p, q
    <3>2. n[s] <= p /\ n[s] <= q
      BY <2>4, <3>1
    <3> QED BY <3>2 DEF p, q
  <2> QED BY <2>2, <2>3, <2>5
<1> HIDE DEF C
<1>5. 0 \in S
  BY <1>2, <1>3
<1>6. ASSUME NEW k \in Nat, k \in S PROVE k + 1 \in S
  <2> SUFFICES ASSUME k + 1 <= NStreams PROVE C[k + 1] <= room
    OBVIOUS
  <2>1. k + 1 \in Streams /\ k \in 0..NStreams /\ (k + 1) - 1 = k /\ C[k] <= room
    BY <1>6, ControllerSet
  <2>2. C[k] \in Nat /\ C[k + 1] = C[k] + n[k + 1] /\ n[k + 1] \in Nat
    BY <1>1, <1>2, <2>1, ControllerSet
  <2> HIDE DEF room
  <2>3. n[k + 1] > 0 => n[k + 1] <= room - C[k]
    BY <1>4, <2>1
  <2> QED BY <1>3, <2>1, <2>2, <2>3
<1> HIDE DEF S
<1>7. C[NStreams] <= room
  <2>1. NStreams \in S
    BY <1>5, <1>6, ControllerSet, SetInduction
  <2> QED BY <2>1, ControllerSet DEF S
<1>8. \A s \in Streams : n[s] <= txfc[s].cwm - txfc[s].swm
  <2> SUFFICES ASSUME NEW s \in Streams PROVE n[s] <= txfc[s].cwm - txfc[s].swm
    OBVIOUS
  <2>1. n[s] \in Nat
    BY <1>1, ControllerSet
  <2> QED BY <1>3, <1>4, <2>1
<1> QED BY <1>1, <1>2, <1>7, <1>8, ControllerSet DEF C, Total

\* The controllers after a packet.
LEMMA PacketCharged ==
  ASSUME Types, Granting, NEW n \in [Streams -> 0..StreamLen], SendPacket(n)
  PROVE  /\ txfc' \in [Controllers -> TXFC]
         /\ \A x \in Controllers : txfc'[x].cwm = txfc[x].cwm /\ txfc'[x].swm <= txfc'[x].cwm
         /\ txfc'[Conn].swm = txfc[Conn].swm + Total(n)
         /\ \A s \in Streams : txfc'[s].swm = txfc[s].swm + n[s]
<1> DEFINE m(x) == IF x = Conn THEN Total(n) ELSE n[x]
<1>1. \A x \in Controllers : m(x) \in Nat /\ m(x) <= txfc[x].cwm - txfc[x].swm
  <2>1. /\ n \in [Streams -> Nat] /\ Total(n) \in Nat
        /\ Total(n) <= txfc[Conn].cwm - txfc[Conn].swm
        /\ \A s \in Streams : n[s] <= txfc[s].cwm - txfc[s].swm
    BY PacketWithinCredit, ControllerSet
  <2> QED BY <2>1, ControllerSet DEF Controllers
<1>2. txfc' = [x \in Controllers |-> consume_credit_local(txfc[x], m(x))]
  <2>1. txfc' = [x \in Controllers |->
          IF x = Conn THEN consume_credit_local(txfc[Conn], Total(n))
          ELSE consume_credit_local(txfc[x], n[x])]
    BY DEF SendPacket, Total
  <2> QED BY <2>1, Zenon
<1>3. \A x \in Controllers : txfc[x] \in TXFC /\ txfc[x].swm \in Nat /\ txfc[x].cwm \in Nat
  BY Fields
<1> HIDE DEF m
<1>4. ASSUME NEW x \in Controllers
      PROVE  txfc'[x] \in TXFC /\ txfc'[x].swm = txfc[x].swm + m(x) /\ txfc'[x].cwm = txfc[x].cwm
  <2>1. m(x) \in Nat /\ m(x) <= txfc[x].cwm - txfc[x].swm /\ txfc[x] \in TXFC
    BY <1>1, <1>3
  <2>2. txfc'[x] = consume_credit_local(txfc[x], m(x))
    BY <1>2
  <2> QED BY <2>1, <2>2, ConsumeCredit
<1>5. txfc' \in [Controllers -> TXFC]
  BY <1>2, <1>4
<1>6. \A x \in Controllers : txfc'[x].cwm = txfc[x].cwm /\ txfc'[x].swm <= txfc'[x].cwm
  BY <1>1, <1>3, <1>4
<1>7. m(Conn) = Total(n) /\ \A s \in Streams : m(s) = n[s]
  BY ControllerSet DEF m
<1> QED BY <1>4, <1>5, <1>6, <1>7, ControllerSet

LEMMA SendPacketKeeps ==
  ASSUME IInv, NEW n \in [Streams -> 0..StreamLen], SendPacket(n)
  PROVE  IInv'
<1> USE DEF IInv
<1>1. /\ txfc' \in [Controllers -> TXFC]
      /\ \A x \in Controllers : txfc'[x].cwm = txfc[x].cwm /\ txfc'[x].swm <= txfc'[x].cwm
      /\ txfc'[Conn].swm = txfc[Conn].swm + Total(n)
      /\ \A s \in Streams : txfc'[s].swm = txfc[s].swm + n[s]
  BY PacketCharged
<1>2. n \in [1..NStreams -> Nat] /\ Total(n) \in Nat
  BY PacketWithinCredit
<1>3. /\ \A s \in Streams : txfc[s].swm \in Nat /\ n[s] \in Nat
      /\ \A s \in Streams : n[s] > 0 => final[s] = NoSize /\ txfc[s].swm + n[s] <= StreamLen
  BY <1>2, Fields, ControllerSet DEF SendPacket
<1>u. UNCHANGED <<rxfc, final, lost>>
  BY DEF SendPacket
<1>4. ASSUME NEW f \in net' \ net
      PROVE  \E s \in Streams : /\ f = StreamFrame(s, txfc[s].swm, txfc[s].swm + n[s])
                                /\ f \in StreamFrames
  <2>1. PICK s \in Streams : f = StreamFrame(s, txfc[s].swm, txfc[s].swm + n[s])
    BY <1>4 DEF SendPacket
  <2>2. txfc[s].swm \in Nat /\ txfc[s].swm + n[s] \in Nat
    BY <1>3
  <2> QED BY <2>1, <2>2 DEF StreamFrame, StreamFrames
<1>5. Types'
  <2>1. net' \subseteq StreamFrames \cup ResetFrames \cup CreditFrames
    BY <1>4 DEF Types
  <2> QED BY <1>1, <1>u, <2>1 DEF Types
<1>6. FramesTrue'
  <2>1. ASSUME NEW f \in net' \cup lost', f.kind = "STREAM" PROVE Data(f)'
    <3>1. CASE f \in net \cup lost
      <4>1. Data(f) /\ f.s \in Streams /\ f.end \in Nat
        BY <2>1, <3>1, FrameKinds DEF FramesTrue
      <4>2. txfc[f.s].swm \in Nat /\ n[f.s] \in Nat /\ txfc'[f.s].swm = txfc[f.s].swm + n[f.s]
        BY <1>1, <1>3, <4>1
      <4> QED BY <4>1, <4>2 DEF Data
    <3>2. CASE f \in net' \ net
      <4>1. PICK s \in Streams : f = StreamFrame(s, txfc[s].swm, txfc[s].swm + n[s])
        BY <1>4, <3>2
      <4>2. f.s = s /\ f.end = txfc'[s].swm /\ (f.fin => f.end = StreamLen)
        BY <1>1, <4>1 DEF StreamFrame
      <4>3. txfc'[s].swm \in Nat
        BY <1>1, <1>3
      <4> QED BY <4>2, <4>3 DEF Data
    <3> QED BY <2>1, <3>1, <3>2, <1>u
  <2>2. ASSUME NEW f \in net', f.kind = "RESET_STREAM" PROVE Reset(f)'
    <3>1. f \in net
      BY <1>4, <2>2 DEF StreamFrames
    <3>2. Reset(f) /\ f.s \in Streams
      BY <2>2, <3>1, FrameKinds DEF FramesTrue
    <3>3. n[f.s] = 0
      BY <1>3, <3>2 DEF Reset
    <3>4. txfc'[f.s].swm = txfc[f.s].swm
      BY <1>1, <1>3, <3>2, <3>3
    <3> QED BY <1>u, <3>2, <3>4 DEF Reset
  <2>3. ASSUME NEW f \in net', f.kind \in {"MAX_DATA", "MAX_STREAM_DATA"} PROVE Granted(f)'
    <3>1. f \in net
      BY <1>4, <2>3 DEF StreamFrames
    <3> QED BY <1>u, <2>3, <3>1 DEF FramesTrue, Granted
  <2> QED BY <2>1, <2>2, <2>3 DEF FramesTrue
<1>7. StreamMarks'
  <2> SUFFICES ASSUME NEW s \in Streams
               PROVE  /\ rxfc'[s].rwm <= rxfc'[s].swm /\ rxfc'[s].hwm = rxfc'[s].swm
                      /\ rxfc'[s].hwm <= txfc'[s].swm /\ txfc'[s].swm <= StreamLen
                      /\ rxfc'[s].is_fin => rxfc'[s].hwm = txfc'[s].swm /\ Ended(s)'
    BY DEF StreamMarks
  <2>1. /\ rxfc[s].rwm <= rxfc[s].swm /\ rxfc[s].hwm = rxfc[s].swm
        /\ rxfc[s].hwm <= txfc[s].swm /\ txfc[s].swm <= StreamLen
        /\ rxfc[s].is_fin => rxfc[s].hwm = txfc[s].swm /\ Ended(s)
    BY DEF StreamMarks
  <2>2. /\ txfc'[s].swm = txfc[s].swm + n[s] /\ rxfc[s].hwm \in Nat
        /\ txfc[s].swm \in Nat /\ n[s] \in Nat /\ StreamLen \in Nat
    BY <1>1, <1>3, Fields, ControllerSet, QuicFlowAssumption
  <2>3. txfc'[s].swm <= StreamLen /\ rxfc[s].hwm <= txfc'[s].swm
    BY <1>3, <2>1, <2>2
  <2>4. Ended(s) => n[s] = 0
    BY <1>3, <2>2 DEF Ended
  <2>5. rxfc[s].is_fin => rxfc[s].hwm = txfc'[s].swm /\ Ended(s)'
    BY <1>u, <2>1, <2>2, <2>4 DEF Ended
  <2> QED BY <1>u, <2>1, <2>3, <2>5
<1>8. Granting'
  BY <1>1, <1>u DEF Granting
<1>9. ConnMarks'
  <2>1. SentOf' \in [1..NStreams -> Nat] /\ SentOf \in [1..NStreams -> Nat]
    <3>1. \A s \in Streams : txfc'[s].swm \in Nat
      BY <1>1, <1>3
    <3>2. SentOf' \in [1..NStreams -> Nat]
      BY <3>1, ControllerSet DEF SentOf
    <3> QED BY <3>2, Fields
  <2>2. \A s \in 1..NStreams : SentOf'[s] = SentOf[s] + n[s]
    BY <1>1, ControllerSet DEF SentOf
  <2>3. Total(SentOf') = Total(SentOf) + Total(n)
    <3> DEFINE h == SentOf'
    <3>1. h \in [1..NStreams -> Nat] /\ \A s \in 1..NStreams : h[s] = SentOf[s] + n[s]
      BY <2>1, <2>2
    <3> HIDE DEF h
    <3>2. Total(h) = Total(SentOf) + Total(n)
      BY <1>2, <2>1, <3>1, TotalAdds
    <3> QED BY <3>2 DEF h
  <2>4. txfc'[Conn].swm = Total(SentOf')
    BY <1>1, <2>3 DEF ConnMarks
  <2> QED BY <1>u, <2>4 DEF ConnMarks, HighestOf, ReadOf
<1>10. NoProtocolError'
  BY <1>u DEF NoProtocolError
<1> QED BY <1>5, <1>6, <1>7, <1>8, <1>9, <1>10

LEMMA RetransmitKeeps ==
  ASSUME IInv, NEW f \in lost, Retransmit(f)
  PROVE  IInv'
<1> USE DEF IInv
<1>1. /\ UNCHANGED <<txfc, rxfc, final>> /\ net' = net \cup {f} /\ lost' = lost \ {f}
      /\ f.kind = "STREAM" /\ f \in StreamFrames
  BY FrameKinds DEF Retransmit, Types
<1>2. Types'
  BY <1>1 DEF Types
<1>3. FramesTrue'
  <2>1. \A g \in net' \cup lost' : g \in net \cup lost
    BY <1>1
  <2>2. \A g \in net' : g.kind # "STREAM" => g \in net
    BY <1>1
  <2> QED BY <1>1, <2>1, <2>2 DEF FramesTrue, Data, Reset, Granted
<1>4. StreamMarks' /\ Granting' /\ NoProtocolError'
  BY <1>1 DEF StreamMarks, Ended, Granting, NoProtocolError
<1>5. ConnMarks'
  BY <1>1 DEF ConnMarks, SentOf, HighestOf, ReadOf
<1> QED BY <1>2, <1>3, <1>4, <1>5

LEMMA ResetStreamKeeps ==
  ASSUME IInv, NEW s \in Streams, ResetStream(s)
  PROVE  IInv'
<1> USE DEF IInv
<1> DEFINE f == [kind |-> "RESET_STREAM", s |-> s, end |-> txfc[s].swm]
<1>1. /\ UNCHANGED <<txfc, rxfc>> /\ net' = net \cup {f} /\ lost' \subseteq lost
      /\ final[s] = NoSize /\ final' = [final EXCEPT ![s] = txfc[s].swm]
  BY DEF ResetStream, FinalSize
<1>2. txfc[s].swm \in Nat /\ final \in [Streams -> Nat \cup {NoSize}]
  BY Fields, ControllerSet DEF Types
<1>3. final'[s] # NoSize /\ \A t \in Streams : final[t] # NoSize => final'[t] # NoSize
  BY <1>1, <1>2 DEF NoSize
<1>4. f \in ResetFrames /\ f.kind = "RESET_STREAM" /\ f.s = s /\ f.end = txfc[s].swm
  BY <1>2 DEF ResetFrames
<1> HIDE DEF f
<1>5. Types'
  BY <1>1, <1>2, <1>4 DEF Types
<1>6. FramesTrue'
  <2>1. ASSUME NEW g \in net' \cup lost', g.kind = "STREAM" PROVE Data(g)'
    <3>1. g \in net \cup lost
      BY <1>1, <1>4, <2>1
    <3> QED BY <1>1, <2>1, <3>1 DEF FramesTrue, Data
  <2>2. ASSUME NEW g \in net', g.kind = "RESET_STREAM" PROVE Reset(g)'
    <3>1. CASE g \in net
      BY <1>1, <1>3, <2>2, <3>1, FrameKinds DEF FramesTrue, Reset
    <3>2. CASE g = f
      BY <1>1, <1>3, <1>4, <3>2 DEF Reset
    <3> QED BY <1>1, <3>1, <3>2
  <2>3. ASSUME NEW g \in net', g.kind \in {"MAX_DATA", "MAX_STREAM_DATA"} PROVE Granted(g)'
    <3>1. g \in net
      BY <1>1, <1>4, <2>3
    <3> QED BY <1>1, <2>3, <3>1 DEF FramesTrue, Granted
  <2> QED BY <2>1, <2>2, <2>3 DEF FramesTrue
<1>7. StreamMarks'
  BY <1>1, <1>3 DEF StreamMarks, Ended
<1>8. Granting' /\ NoProtocolError'
  BY <1>1 DEF Granting, NoProtocolError
<1>9. ConnMarks'
  BY <1>1 DEF ConnMarks, SentOf, HighestOf, ReadOf
<1> QED BY <1>5, <1>6, <1>7, <1>8, <1>9

LEMMA RxMaxDataKeeps ==
  ASSUME IInv, NEW f \in net, RxMaxData(f)
  PROVE  IInv'
<1> USE DEF IInv
<1>1. /\ UNCHANGED <<rxfc, final, net, lost>> /\ txfc' = bump_cwm(f.s, f.cwm)
      /\ f.s \in Controllers /\ f.cwm \in Nat /\ f.cwm <= rxfc[f.s].cwm
  BY FrameKinds DEF RxMaxData, FramesTrue, Granted
<1>2. ASSUME NEW x \in Controllers
      PROVE  /\ txfc'[x] \in TXFC /\ txfc'[x].swm = txfc[x].swm
             /\ txfc'[x].swm <= txfc'[x].cwm /\ txfc'[x].cwm <= rxfc[x].cwm
  <2>1. /\ txfc[x] \in TXFC /\ txfc[x].swm \in Nat /\ txfc[x].cwm \in Nat /\ rxfc[x].cwm \in Nat
        /\ txfc[x].swm <= txfc[x].cwm /\ txfc[x].cwm <= rxfc[x].cwm
    BY Fields DEF Granting
  <2>2. txfc'[x] = IF x = f.s
                   THEN [txfc[x] EXCEPT !.cwm = IF f.cwm <= txfc[x].cwm THEN txfc[x].cwm ELSE f.cwm]
                   ELSE txfc[x]
    BY <1>1 DEF bump_cwm, Types
  <2> QED BY <1>1, <2>1, <2>2 DEF TXFC
<1>3. Types'
  <2>1. txfc' \in [Controllers -> TXFC]
    BY <1>1, <1>2 DEF bump_cwm, Types
  <2> QED BY <1>1, <2>1 DEF Types
<1>4. FramesTrue'
  <2>1. \A s \in Streams : txfc'[s].swm = txfc[s].swm
    BY <1>2, ControllerSet
  <2> QED BY <1>1, <2>1, FrameKinds DEF FramesTrue, Data, Reset, Granted
<1>5. StreamMarks'
  BY <1>1, <1>2, ControllerSet DEF StreamMarks, Ended
<1>6. Granting' /\ NoProtocolError'
  BY <1>1, <1>2 DEF Granting, NoProtocolError
<1>7. ConnMarks'
  <2>1. SentOf' = SentOf
    BY <1>2, ControllerSet DEF SentOf
  <2> QED BY <1>1, <1>2, <2>1, ControllerSet DEF ConnMarks, HighestOf, ReadOf
<1> QED BY <1>3, <1>4, <1>5, <1>6, <1>7

-----------------------------------------------------------------------------
(* The steps of the receiving end.                                         *)

LEMMA Controlled ==
  ASSUME NEW fc \in RXFC, NEW m \in Nat, m <= fc.cwm - fc.swm
  PROVE  LET c == on_rx_controlled_bytes(fc, m) IN
         /\ c \in RXFC /\ c.swm = fc.swm + m /\ c.hwm = fc.hwm /\ c.cwm = fc.cwm
         /\ c.rwm = fc.rwm /\ c.is_fin = fc.is_fin /\ c.error_code = fc.error_code
<1>1. fc.cwm \in Nat /\ fc.swm \in Nat
  BY DEF RXFC
<1>2. Min({m, fc.cwm - fc.swm}) = m /\ ~ (m > fc.cwm - fc.swm)
  BY <1>1, MinMax
<1>3. on_rx_controlled_bytes(fc, m) = [fc EXCEPT !.swm = fc.swm + m]
  BY <1>2 DEF on_rx_controlled_bytes, RXFC
<1> QED BY <1>1, <1>3 DEF RXFC

\* A frame that ends within what was sent, and at its end if it is final.
LEMMA FrameReceived ==
  ASSUME IInv, NEW s \in Streams, NEW end \in Nat, NEW is_fin \in BOOLEAN,
         end <= txfc[s].swm, is_fin => end = txfc[s].swm /\ Ended(s)
  PROVE  LET fc == on_rx_stream_frame(s, end, is_fin)
             d == IF end > rxfc[s].hwm THEN end - rxfc[s].hwm ELSE 0 IN
         /\ d \in Nat /\ fc \in [Controllers -> RXFC]
         /\ fc[s].hwm = rxfc[s].hwm + d /\ fc[s].swm = rxfc[s].swm + d
         /\ fc[Conn].swm = rxfc[Conn].swm + d
         /\ fc[s].is_fin => rxfc[s].is_fin \/ is_fin
         /\ fc[s].is_fin => fc[s].hwm = txfc[s].swm
         /\ \A x \in Controllers : /\ fc[x].rwm = rxfc[x].rwm /\ fc[x].cwm = rxfc[x].cwm
                                   /\ fc[x].error_code = rxfc[x].error_code
         /\ \A t \in Streams : t # s => fc[t] = rxfc[t]
<1> USE DEF IInv
<1> DEFINE d == end - rxfc[s].hwm
           fin == [rxfc[s] EXCEPT !.is_fin = rxfc[s].is_fin \/ is_fin]
           new == on_rx_stream_frame(s, end, is_fin)
<1>1. /\ rxfc[s] \in RXFC /\ rxfc[s].swm \in Nat /\ rxfc[s].cwm \in Nat /\ rxfc[s].hwm \in Nat
      /\ rxfc[Conn] \in RXFC /\ rxfc[Conn].swm \in Nat /\ rxfc[Conn].cwm \in Nat
      /\ txfc[s].swm \in Nat /\ txfc[s].cwm \in Nat
      /\ txfc[Conn].swm \in Nat /\ txfc[Conn].cwm \in Nat
      /\ rxfc[s].is_fin \in BOOLEAN
  BY Fields, ControllerSet
<1>2. /\ rxfc[s].hwm = rxfc[s].swm /\ rxfc[s].hwm <= txfc[s].swm
      /\ rxfc[s].is_fin => rxfc[s].hwm = txfc[s].swm
      /\ txfc[s].swm <= txfc[s].cwm /\ txfc[s].cwm <= rxfc[s].cwm
      /\ txfc[Conn].swm <= txfc[Conn].cwm /\ txfc[Conn].cwm <= rxfc[Conn].cwm
  BY ControllerSet DEF StreamMarks, Granting
<1>3. ~ (rxfc[s].is_fin /\ ((is_fin /\ rxfc[s].hwm # end) \/ end > rxfc[s].hwm))
      /\ ~ (end < rxfc[s].hwm /\ is_fin)
  BY <1>1, <1>2
<1>4. CASE end > rxfc[s].hwm
  <2>1. d \in Nat /\ d <= rxfc[s].cwm - rxfc[s].swm
    BY <1>1, <1>2, <1>4
  <2>2. d <= rxfc[Conn].cwm - rxfc[Conn].swm
    <3> DEFINE h == [HighestOf EXCEPT ![s] = end]
    <3>1. /\ h \in [1..NStreams -> Nat] /\ HighestOf \in [1..NStreams -> Nat]
          /\ SentOf \in [1..NStreams -> Nat] /\ s \in 1..NStreams
      BY Fields, ControllerSet
    <3>a. HighestOf[s] = rxfc[s].hwm
      BY DEF HighestOf
    <3>b. h[s] = end /\ \A i \in 1..NStreams : i # s => h[i] = HighestOf[i]
      BY <3>1
    <3>c. end = rxfc[s].hwm + d
      BY <1>1
    <3>2. /\ h[s] = HighestOf[s] + d /\ HighestOf[s] = rxfc[s].hwm
          /\ \A i \in 1..NStreams : i # s => h[i] = HighestOf[i]
      <4> HIDE DEF h, d
      <4> QED BY <3>a, <3>b, <3>c
    <3>3. \A i \in 1..NStreams : h[i] <= SentOf[i]
      <4> SUFFICES ASSUME NEW i \in 1..NStreams PROVE h[i] <= SentOf[i]
        OBVIOUS
      <4>1. SentOf[i] = txfc[i].swm /\ HighestOf[i] = rxfc[i].hwm /\ rxfc[i].hwm <= txfc[i].swm
        BY ControllerSet DEF SentOf, HighestOf, StreamMarks
      <4>2. h[i] = IF i = s THEN end ELSE HighestOf[i]
        BY <3>1
      <4> QED BY <4>1, <4>2
    <3> HIDE DEF h, d
    <3>4. Total(h) = Total(HighestOf) + d /\ Total(h) <= Total(SentOf)
      <4>1. Total(h) = Total(HighestOf) + d
        BY <2>1, <3>1, <3>2, TotalGrows
      <4>2. Total(h) <= Total(SentOf)
        BY <3>1, <3>3, ControllerSet, SumMonotone DEF Total
      <4> QED BY <4>1, <4>2
    <3>5. rxfc[Conn].swm + d <= txfc[Conn].swm
      BY <3>4 DEF ConnMarks
    <3> QED BY <1>1, <1>2, <2>1, <3>5
  <2> DEFINE a == [fin EXCEPT !.hwm = end]
             b == on_rx_controlled_bytes(a, d)
             c == on_rx_controlled_bytes(rxfc[Conn], d)
  <2>3. /\ a \in RXFC /\ a.hwm = end /\ a.swm = rxfc[s].swm /\ a.cwm = rxfc[s].cwm
        /\ a.rwm = rxfc[s].rwm /\ a.error_code = rxfc[s].error_code
        /\ a.is_fin = (rxfc[s].is_fin \/ is_fin)
    BY <1>1 DEF RXFC
  <2>4. new = [rxfc EXCEPT ![s] = b, ![Conn] = c]
    <3>1. new = [rxfc EXCEPT ![s] = on_rx_controlled_bytes([[rxfc[s] EXCEPT !.is_fin = @ \/ is_fin] EXCEPT !.hwm = end], delta(rxfc[s], end)),
                             ![Conn] = on_rx_controlled_bytes(@, delta(rxfc[s], end))]
      BY <1>3, <1>4 DEF on_rx_stream_frame
    <3>2. delta(rxfc[s], end) = d
      BY DEF delta
    <3> QED BY <3>1, <3>2, ControllerSet
  <2> HIDE DEF a, d
  <2>5. /\ b \in RXFC /\ b.swm = a.swm + d /\ b.hwm = a.hwm /\ b.cwm = a.cwm
        /\ b.rwm = a.rwm /\ b.is_fin = a.is_fin /\ b.error_code = a.error_code
    BY <2>1, <2>3, Controlled
  <2>6. /\ c \in RXFC /\ c.swm = rxfc[Conn].swm + d /\ c.cwm = rxfc[Conn].cwm
        /\ c.rwm = rxfc[Conn].rwm /\ c.error_code = rxfc[Conn].error_code
    BY <1>1, <2>1, <2>2, Controlled
  <2> HIDE DEF b, c, new
  <2>7. /\ new \in [Controllers -> RXFC] /\ new[s] = b /\ new[Conn] = c
        /\ \A x \in Controllers : x # s /\ x # Conn => new[x] = rxfc[x]
    BY <2>4, <2>5, <2>6, ControllerSet DEF Types
  <2>8. new[s].hwm = rxfc[s].hwm + d /\ new[s].swm = rxfc[s].swm + d
        /\ new[Conn].swm = rxfc[Conn].swm + d
    BY <1>1, <2>3, <2>5, <2>6, <2>7 DEF d
  <2>9. new[s].is_fin => (rxfc[s].is_fin \/ is_fin) /\ new[s].hwm = txfc[s].swm
    BY <1>1, <1>2, <1>3, <1>4, <2>3, <2>5, <2>7
  <2>10. \A x \in Controllers : /\ new[x].rwm = rxfc[x].rwm /\ new[x].cwm = rxfc[x].cwm
                                /\ new[x].error_code = rxfc[x].error_code
    BY <2>3, <2>5, <2>6, <2>7
  <2>11. \A t \in Streams : t # s => new[t] = rxfc[t]
    BY <2>7, ControllerSet
  <2> QED BY <1>4, <2>1, <2>7, <2>8, <2>9, <2>10, <2>11 DEF new, d
<1>5. CASE ~ (end > rxfc[s].hwm)
  <2>1. fin \in RXFC /\ fin.hwm = rxfc[s].hwm /\ fin.swm = rxfc[s].swm /\ fin.cwm = rxfc[s].cwm
        /\ fin.rwm = rxfc[s].rwm /\ fin.error_code = rxfc[s].error_code
        /\ fin.is_fin = (rxfc[s].is_fin \/ is_fin)
    BY <1>1 DEF RXFC
  <2>2. new = [rxfc EXCEPT ![s] = fin]
    BY <1>3, <1>5 DEF on_rx_stream_frame
  <2> HIDE DEF fin, new
  <2>3. /\ new \in [Controllers -> RXFC] /\ new[s] = fin
        /\ \A x \in Controllers : x # s => new[x] = rxfc[x]
    BY <2>1, <2>2, ControllerSet DEF Types
  <2>4. new[s].hwm = rxfc[s].hwm + 0 /\ new[s].swm = rxfc[s].swm + 0
        /\ new[Conn].swm = rxfc[Conn].swm + 0
    BY <1>1, <2>1, <2>3, ControllerSet
  <2>5. new[s].is_fin => (rxfc[s].is_fin \/ is_fin) /\ new[s].hwm = txfc[s].swm
    BY <1>1, <1>2, <1>5, <2>1, <2>3
  <2>6. \A x \in Controllers : /\ new[x].rwm = rxfc[x].rwm /\ new[x].cwm = rxfc[x].cwm
                               /\ new[x].error_code = rxfc[x].error_code
    BY <2>1, <2>3
  <2>7. \A t \in Streams : t # s => new[t] = rxfc[t]
    BY <2>3, ControllerSet
  <2> QED BY <1>5, <2>3, <2>4, <2>5, <2>6, <2>7 DEF new
<1> QED BY <1>4, <1>5

LEMMA ReceivedKeeps ==
  ASSUME IInv, NEW s \in Streams, NEW end \in Nat, NEW is_fin \in BOOLEAN,
         end <= txfc[s].swm, is_fin => end = txfc[s].swm /\ Ended(s),
         rxfc' = on_rx_stream_frame(s, end, is_fin), UNCHANGED <<txfc, final, net, lost>>
  PROVE  IInv'
<1> USE DEF IInv
<1> DEFINE d == IF end > rxfc[s].hwm THEN end - rxfc[s].hwm ELSE 0
<1>1. /\ d \in Nat /\ rxfc' \in [Controllers -> RXFC]
      /\ rxfc'[s].hwm = rxfc[s].hwm + d /\ rxfc'[s].swm = rxfc[s].swm + d
      /\ rxfc'[Conn].swm = rxfc[Conn].swm + d
      /\ rxfc'[s].is_fin => rxfc[s].is_fin \/ is_fin
      /\ rxfc'[s].is_fin => rxfc'[s].hwm = txfc[s].swm
      /\ \A x \in Controllers : /\ rxfc'[x].rwm = rxfc[x].rwm /\ rxfc'[x].cwm = rxfc[x].cwm
                                /\ rxfc'[x].error_code = rxfc[x].error_code
      /\ \A t \in Streams : t # s => rxfc'[t] = rxfc[t]
  BY FrameReceived
<1>2. /\ rxfc[s].rwm \in Nat /\ rxfc[s].swm \in Nat /\ rxfc[s].hwm \in Nat /\ txfc[s].swm \in Nat
      /\ \A x \in Controllers : rxfc[x].cwm \in Nat
      /\ rxfc[s].rwm <= rxfc[s].swm /\ rxfc[s].hwm = rxfc[s].swm
      /\ rxfc[s].hwm <= txfc[s].swm /\ (rxfc[s].is_fin => Ended(s))
  BY Fields, ControllerSet DEF StreamMarks
<1>3. Types'
  BY <1>1 DEF Types
<1>4. FramesTrue'
  BY <1>1, <1>2, FramesStay, FrameKinds
<1>5. StreamMarks'
  <2> SUFFICES ASSUME NEW t \in Streams
               PROVE  /\ rxfc'[t].rwm <= rxfc'[t].swm /\ rxfc'[t].hwm = rxfc'[t].swm
                      /\ rxfc'[t].hwm <= txfc'[t].swm /\ txfc'[t].swm <= StreamLen
                      /\ rxfc'[t].is_fin => rxfc'[t].hwm = txfc'[t].swm /\ Ended(t)'
    BY DEF StreamMarks
  <2>1. Ended(t)' = Ended(t) /\ txfc'[t].swm = txfc[t].swm
    BY DEF Ended
  <2>2. CASE t = s
    <3>1. rxfc'[s].rwm = rxfc[s].rwm /\ rxfc[s].hwm + d <= txfc[s].swm
      BY <1>1, <1>2, ControllerSet
    <3>2. txfc[s].swm <= StreamLen
      BY DEF StreamMarks
    <3> HIDE DEF d
    <3>3. rxfc'[s].rwm <= rxfc'[s].swm /\ rxfc'[s].hwm = rxfc'[s].swm /\ rxfc'[s].hwm <= txfc[s].swm
      BY <1>1, <1>2, <3>1
    <3> QED BY <1>1, <1>2, <2>1, <2>2, <3>2, <3>3
  <2>3. CASE t # s
    BY <1>1, <2>1, <2>3 DEF StreamMarks
  <2> QED BY <2>2, <2>3
<1>6. Granting' /\ NoProtocolError'
  BY <1>1 DEF Granting, NoProtocolError
<1>7. ConnMarks'
  <2>1. SentOf' = SentOf /\ ReadOf' = ReadOf /\ rxfc'[Conn].rwm = rxfc[Conn].rwm
    BY <1>1, ControllerSet DEF SentOf, ReadOf
  <2>2. HighestOf' \in [1..NStreams -> Nat] /\ HighestOf \in [1..NStreams -> Nat] /\ s \in 1..NStreams
    <3>1. \A t \in Streams : rxfc'[t].hwm \in Nat
      BY <1>1, ControllerSet DEF RXFC
    <3> QED BY <3>1, Fields, ControllerSet DEF HighestOf
  <2>3. HighestOf'[s] = HighestOf[s] + d /\ \A i \in 1..NStreams : i # s => HighestOf'[i] = HighestOf[i]
    BY <1>1, ControllerSet DEF HighestOf
  <2> HIDE DEF d
  <2>4. Total(HighestOf') = Total(HighestOf) + d
    <3> DEFINE h == HighestOf'
    <3>1. /\ h \in [1..NStreams -> Nat] /\ h[s] = HighestOf[s] + d
          /\ \A i \in 1..NStreams : i # s => h[i] = HighestOf[i]
      BY <2>2, <2>3
    <3> HIDE DEF h
    <3>2. Total(h) = Total(HighestOf) + d
      BY <1>1, <2>2, <3>1, TotalGrows
    <3> QED BY <3>2 DEF h
  <2> QED BY <1>1, <2>1, <2>4 DEF ConnMarks
<1> QED BY <1>3, <1>4, <1>5, <1>6, <1>7

LEMMA RxStreamKeeps ==
  ASSUME IInv, NEW f \in net, RxStream(f)
  PROVE  IInv'
<1>1. /\ f.s \in Streams /\ f.end \in Nat /\ f.fin \in BOOLEAN /\ Data(f)
      /\ txfc[f.s].swm <= StreamLen /\ txfc[f.s].swm \in Nat
  BY FrameKinds, Fields, ControllerSet DEF IInv, RxStream, FramesTrue, StreamMarks
<1>2. f.end <= txfc[f.s].swm /\ (f.fin => f.end = txfc[f.s].swm /\ Ended(f.s))
  BY <1>1, QuicFlowAssumption DEF Data, Ended
<1> QED BY <1>1, <1>2, ReceivedKeeps DEF RxStream

LEMMA RxResetKeeps ==
  ASSUME IInv, NEW f \in net, RxReset(f)
  PROVE  IInv'
<1>1. f.s \in Streams /\ f.end \in Nat /\ Reset(f) /\ txfc[f.s].swm \in Nat
  BY FrameKinds, Fields, ControllerSet DEF IInv, RxReset, FramesTrue
<1>2. f.end <= txfc[f.s].swm /\ f.end = txfc[f.s].swm /\ Ended(f.s)
  BY <1>1 DEF Reset, Ended
<1> QED BY <1>1, <1>2, ReceivedKeeps DEF RxReset

LEMMA WindowUpdated ==
  ASSUME NEW fc \in RXFC, NEW min \in Nat, NEW max \in Nat, NEW faster \in BOOLEAN
  PROVE  LET c == update_cwm(fc, min, max, faster) IN
         /\ c \in RXFC /\ c.rwm = fc.rwm /\ c.swm = fc.swm /\ c.hwm = fc.hwm
         /\ c.is_fin = fc.is_fin /\ c.error_code = fc.error_code /\ fc.cwm <= c.cwm
<1> DEFINE size == adjust_window_size(fc, min, max, faster)
           new == fc.rwm + size
           c == [fc EXCEPT !.cur_window_size = size, !.cwm = Max({fc.cwm, new}),
                           !.has_cwm_changed = fc.has_cwm_changed \/ new > fc.cwm]
<1>1. /\ fc.cwm \in Nat /\ fc.rwm \in Nat /\ fc.cur_window_size \in Nat
      /\ fc.has_cwm_changed \in BOOLEAN
  BY DEF RXFC
<1>2. size \in Nat
  <2> DEFINE grown == IF faster THEN 2 * fc.cur_window_size ELSE fc.cur_window_size
  <2>1. grown \in Nat
    BY <1>1
  <2>2. size = Min({Max({grown, min}), max})
    BY DEF adjust_window_size
  <2> HIDE DEF grown, size
  <2>3. Max({grown, min}) \in Nat
    BY <2>1, MinMaxNat
  <2> QED BY <2>2, <2>3, MinMaxNat
<1> HIDE DEF size
<1>3. Max({fc.cwm, new}) \in Nat /\ fc.cwm <= Max({fc.cwm, new})
  <2>1. new \in Nat
    BY <1>1, <1>2
  <2> HIDE DEF new
  <2> QED BY <1>1, <2>1, MinMaxNat
<1>4. (fc.has_cwm_changed \/ new > fc.cwm) \in BOOLEAN
  OBVIOUS
<1>5. /\ c \in RXFC /\ c.rwm = fc.rwm /\ c.swm = fc.swm /\ c.hwm = fc.hwm
      /\ c.is_fin = fc.is_fin /\ c.error_code = fc.error_code /\ fc.cwm <= c.cwm
  <2> HIDE DEF new
  <2> QED BY <1>2, <1>3, <1>4 DEF RXFC
<1>6. update_cwm(fc, min, max, faster) = IF ~cwm_bump_desired(fc) THEN fc ELSE c
  BY DEF update_cwm, size
<1> HIDE DEF c
<1> QED BY <1>1, <1>5, <1>6

\* c is fc after m bytes more were read.
ReadTo(fc, m, c) ==
  /\ c \in RXFC /\ c.rwm = fc.rwm + m /\ c.swm = fc.swm /\ c.hwm = fc.hwm
  /\ c.is_fin = fc.is_fin /\ c.error_code = fc.error_code /\ fc.cwm <= c.cwm

LEMMA Retired ==
  ASSUME NEW fc \in RXFC, NEW m \in Nat, NEW min \in Nat, NEW max \in Nat, NEW faster \in BOOLEAN
  PROVE  ReadTo(fc, m, on_retire(fc, m, min, max, faster))
<1> DEFINE g == [fc EXCEPT !.rwm = fc.rwm + m]
<1>1. /\ g \in RXFC /\ g.rwm = fc.rwm + m /\ g.swm = fc.swm /\ g.hwm = fc.hwm
      /\ g.is_fin = fc.is_fin /\ g.error_code = fc.error_code /\ g.cwm = fc.cwm
  BY DEF RXFC
<1>2. on_retire(fc, m, min, max, faster) = update_cwm(g, min, max, faster)
  BY DEF on_retire
<1> HIDE DEF g
<1> QED BY <1>1, <1>2, WindowUpdated DEF ReadTo

\* What a change of the receive controllers has to keep when the frames and
\* the sending end stay as they are.
LEMMA ReceiverStep ==
  ASSUME IInv, rxfc' \in [Controllers -> RXFC],
         UNCHANGED <<txfc, final, lost>>,
         \A x \in Controllers : /\ rxfc'[x].swm = rxfc[x].swm /\ rxfc'[x].hwm = rxfc[x].hwm
                                /\ rxfc'[x].is_fin = rxfc[x].is_fin
                                /\ rxfc'[x].error_code = rxfc[x].error_code
                                /\ rxfc[x].cwm <= rxfc'[x].cwm,
         \A s \in Streams : rxfc'[s].rwm <= rxfc[s].swm,
         rxfc'[Conn].rwm = Total(ReadOf')
  PROVE  StreamMarks' /\ Granting' /\ ConnMarks' /\ NoProtocolError'
<1> USE DEF IInv
<1>1. StreamMarks'
  BY ControllerSet DEF StreamMarks, Ended
<1>2. Granting'
  <2> SUFFICES ASSUME NEW x \in Controllers
               PROVE  txfc[x].swm <= txfc[x].cwm /\ txfc[x].cwm <= rxfc'[x].cwm
    BY DEF Granting
  <2>1. txfc[x].cwm \in Nat /\ rxfc[x].cwm \in Nat /\ rxfc'[x].cwm \in Nat
    BY Fields DEF RXFC
  <2> QED BY <2>1 DEF Granting
<1>3. ConnMarks'
  <2>1. SentOf' = SentOf /\ HighestOf' = HighestOf
    BY ControllerSet DEF SentOf, HighestOf
  <2> QED BY <2>1, ControllerSet DEF ConnMarks
<1>4. NoProtocolError'
  BY DEF NoProtocolError
<1> QED BY <1>1, <1>2, <1>3, <1>4

\* What a read does to the stream's and the connection's controllers.
LEMMA ReadEffect ==
  ASSUME IInv, NEW s \in Streams, NEW n \in 1..StreamLen, NEW a \in BOOLEAN, NEW b \in BOOLEAN,
         Read(s, n, a, b)
  PROVE  /\ UNCHANGED <<txfc, final, net, lost>> /\ rxfc[s].rwm + n <= rxfc[s].swm
         /\ rxfc' \in [Controllers -> RXFC]
         /\ rxfc'[s].rwm = rxfc[s].rwm + n /\ rxfc'[Conn].rwm = rxfc[Conn].rwm + n
         /\ \A t \in Streams : t # s => rxfc'[t] = rxfc[t]
         /\ \A x \in Controllers : /\ rxfc'[x].swm = rxfc[x].swm /\ rxfc'[x].hwm = rxfc[x].hwm
                                   /\ rxfc'[x].is_fin = rxfc[x].is_fin
                                   /\ rxfc'[x].error_code = rxfc[x].error_code
                                   /\ rxfc[x].cwm <= rxfc'[x].cwm /\ rxfc'[x].cwm \in Nat
<1> USE DEF IInv
<1> DEFINE most == WndMul * StreamWindow
           connMost == WndMul * ConnWindow
           fc == on_retire(rxfc[s], n, 0, most, a)
           cc == on_retire(rxfc[Conn], n, fc.cur_window_size, connMost, b)
<1>1. /\ rxfc[s] \in RXFC /\ rxfc[Conn] \in RXFC /\ n \in Nat
      /\ most \in Nat /\ connMost \in Nat /\ 0 \in Nat
  BY Fields, ControllerSet, QuicFlowAssumption
<1>2. rxfc' = [rxfc EXCEPT ![s] = fc, ![Conn] = cc]
  BY ControllerSet DEF Read
<1> HIDE DEF most, connMost
<1>3. /\ fc \in RXFC /\ fc.rwm = rxfc[s].rwm + n /\ fc.swm = rxfc[s].swm /\ fc.hwm = rxfc[s].hwm
      /\ fc.is_fin = rxfc[s].is_fin /\ fc.error_code = rxfc[s].error_code
      /\ rxfc[s].cwm <= fc.cwm
  <2>1. ReadTo(rxfc[s], n, fc)
    BY <1>1, Retired
  <2> QED BY <2>1 DEF ReadTo
<1>4. fc.cur_window_size \in Nat
  BY <1>3 DEF RXFC
<1>u. UNCHANGED <<txfc, final, net, lost>> /\ rxfc[s].rwm + n <= rxfc[s].swm
  BY DEF Read
<1> HIDE DEF fc
<1>5. /\ cc \in RXFC /\ cc.rwm = rxfc[Conn].rwm + n /\ cc.swm = rxfc[Conn].swm
      /\ cc.hwm = rxfc[Conn].hwm /\ cc.is_fin = rxfc[Conn].is_fin
      /\ cc.error_code = rxfc[Conn].error_code /\ rxfc[Conn].cwm <= cc.cwm
  <2>1. ReadTo(rxfc[Conn], n, cc)
    BY <1>1, <1>4, Retired
  <2> QED BY <2>1 DEF ReadTo
<1> HIDE DEF cc
<1>6. /\ rxfc' \in [Controllers -> RXFC] /\ rxfc'[s] = fc /\ rxfc'[Conn] = cc
      /\ \A x \in Controllers : x # s /\ x # Conn => rxfc'[x] = rxfc[x]
  BY <1>2, <1>3, <1>5, ControllerSet DEF Types
<1>7. \A x \in Controllers : /\ rxfc'[x].swm = rxfc[x].swm /\ rxfc'[x].hwm = rxfc[x].hwm
                             /\ rxfc'[x].is_fin = rxfc[x].is_fin
                             /\ rxfc'[x].error_code = rxfc[x].error_code
                             /\ rxfc[x].cwm <= rxfc'[x].cwm /\ rxfc'[x].cwm \in Nat
  <2> SUFFICES ASSUME NEW x \in Controllers
               PROVE  /\ rxfc'[x].swm = rxfc[x].swm /\ rxfc'[x].hwm = rxfc[x].hwm
                      /\ rxfc'[x].is_fin = rxfc[x].is_fin
                      /\ rxfc'[x].error_code = rxfc[x].error_code
                      /\ rxfc[x].cwm <= rxfc'[x].cwm /\ rxfc'[x].cwm \in Nat
    OBVIOUS
  <2>1. rxfc'[x] \in RXFC /\ rxfc[x].cwm \in Nat
    BY <1>6, Fields
  <2>2. rxfc'[x].cwm \in Nat
    BY <2>1 DEF RXFC
  <2> QED BY <1>3, <1>5, <1>6, <2>1, <2>2
<1>8. /\ rxfc'[s].rwm = rxfc[s].rwm + n /\ rxfc'[Conn].rwm = rxfc[Conn].rwm + n
      /\ \A t \in Streams : t # s => rxfc'[t] = rxfc[t]
  BY <1>3, <1>5, <1>6, ControllerSet
<1> QED BY <1>6, <1>7, <1>8, <1>u

LEMMA ReadKeeps ==
  ASSUME IInv, NEW s \in Streams, NEW n \in 1..StreamLen, NEW a \in BOOLEAN, NEW b \in BOOLEAN,
         Read(s, n, a, b)
  PROVE  IInv'
<1> USE DEF IInv
<1>1. n \in Nat
  OBVIOUS
<1>2. UNCHANGED <<txfc, final, net, lost>> /\ rxfc[s].rwm + n <= rxfc[s].swm
  BY ReadEffect
<1>3. /\ rxfc' \in [Controllers -> RXFC]
      /\ rxfc'[s].rwm = rxfc[s].rwm + n /\ rxfc'[Conn].rwm = rxfc[Conn].rwm + n
      /\ \A t \in Streams : t # s => rxfc'[t] = rxfc[t]
  BY ReadEffect
<1>4. \A x \in Controllers : /\ rxfc'[x].swm = rxfc[x].swm /\ rxfc'[x].hwm = rxfc[x].hwm
                             /\ rxfc'[x].is_fin = rxfc[x].is_fin
                             /\ rxfc'[x].error_code = rxfc[x].error_code
                             /\ rxfc[x].cwm <= rxfc'[x].cwm /\ rxfc'[x].cwm \in Nat
  BY ReadEffect
<1>5. \A t \in Streams : rxfc'[t].rwm <= rxfc[t].swm
  <2>1. rxfc'[s].rwm <= rxfc[s].swm
    BY <1>3, <1>2
  <2>2. \A t \in Streams : t # s => rxfc'[t] = rxfc[t] /\ rxfc[t].rwm <= rxfc[t].swm
    BY <1>3 DEF StreamMarks
  <2> QED BY <2>1, <2>2
<1>6. rxfc'[Conn].rwm = Total(ReadOf')
  <2> DEFINE h == ReadOf'
  <2>1. \A t \in Streams : rxfc'[t].rwm \in Nat
    BY <1>3, ControllerSet DEF RXFC
  <2>2. h \in [1..NStreams -> Nat]
    BY <2>1, ControllerSet DEF ReadOf
  <2>3. h[s] = ReadOf[s] + n /\ \A i \in 1..NStreams : i # s => h[i] = ReadOf[i]
    BY <1>3, ControllerSet DEF ReadOf
  <2>4. ReadOf \in [1..NStreams -> Nat] /\ s \in 1..NStreams
    BY Fields, ControllerSet
  <2> HIDE DEF h
  <2>5. Total(h) = Total(ReadOf) + n
    BY <1>1, <2>2, <2>3, <2>4, TotalGrows
  <2>6. rxfc'[Conn].rwm = Total(h)
    BY <1>3, <2>5 DEF ConnMarks
  <2> QED BY <2>6 DEF h
<1>7. Types'
  BY <1>3, <1>2 DEF Types
<1>8. FramesTrue'
  BY <1>4, <1>2, FramesStay, FrameKinds
<1>9. StreamMarks' /\ Granting' /\ ConnMarks' /\ NoProtocolError'
  BY <1>3, <1>4, <1>5, <1>6, <1>2, ReceiverStep
<1> QED BY <1>7, <1>8, <1>9

LEMMA Updated ==
  ASSUME NEW X, NEW V, NEW g \in [X -> V], NEW x \in X, NEW c \in V
  PROVE  /\ [g EXCEPT ![x] = c] \in [X -> V] /\ [g EXCEPT ![x] = c][x] = c
         /\ \A y \in X : y # x => [g EXCEPT ![x] = c][y] = g[y]
OBVIOUS

\* A frame grants what its controller has granted already.
LEMMA GrantKeeps ==
  ASSUME IInv, NEW x \in Controllers, NEW f \in CreditFrames, f.s = x, f.cwm = rxfc[x].cwm,
         net' = net \cup {f}, rxfc' = [rxfc EXCEPT ![x].has_cwm_changed = FALSE],
         UNCHANGED <<txfc, final, lost>>
  PROVE  IInv'
<1> USE DEF IInv
<1>1. /\ rxfc' \in [Controllers -> RXFC]
      /\ \A y \in Controllers : /\ rxfc'[y].swm = rxfc[y].swm /\ rxfc'[y].hwm = rxfc[y].hwm
                                /\ rxfc'[y].rwm = rxfc[y].rwm /\ rxfc'[y].cwm = rxfc[y].cwm
                                /\ rxfc'[y].is_fin = rxfc[y].is_fin
                                /\ rxfc'[y].error_code = rxfc[y].error_code
  <2> DEFINE c == [rxfc[x] EXCEPT !.has_cwm_changed = FALSE]
  <2>1. rxfc \in [Controllers -> RXFC] /\ rxfc[x] \in RXFC
    BY DEF Types
  <2>2. /\ c \in RXFC /\ c.swm = rxfc[x].swm /\ c.hwm = rxfc[x].hwm /\ c.rwm = rxfc[x].rwm
        /\ c.cwm = rxfc[x].cwm /\ c.is_fin = rxfc[x].is_fin /\ c.error_code = rxfc[x].error_code
    BY <2>1 DEF RXFC
  <2>3. rxfc' = [rxfc EXCEPT ![x] = c]
    BY <2>1
  <2> HIDE DEF c
  <2>4. /\ rxfc' \in [Controllers -> RXFC] /\ rxfc'[x] = c
        /\ \A y \in Controllers : y # x => rxfc'[y] = rxfc[y]
    BY ONLY <2>1, <2>2, <2>3, x \in Controllers, Updated
  <2> QED BY <2>2, <2>4
<1>2. \A y \in Controllers : rxfc[y].cwm \in Nat
  BY Fields
<1>3. Types'
  BY <1>1 DEF Types
<1>4. FramesTrue'
  <2>0. f.kind # "STREAM" /\ f.kind # "RESET_STREAM"
    BY DEF CreditFrames
  <2>1. ASSUME NEW g \in net' \cup lost', g.kind = "STREAM" PROVE Data(g)'
    <3>1. g \in net \cup lost
      BY <2>0, <2>1
    <3> QED BY <2>1, <3>1 DEF FramesTrue, Data
  <2>2. ASSUME NEW g \in net', g.kind = "RESET_STREAM" PROVE Reset(g)'
    <3>1. g \in net
      BY <2>0, <2>2
    <3> QED BY <2>2, <3>1 DEF FramesTrue, Reset
  <2>3. ASSUME NEW g \in net', g.kind \in {"MAX_DATA", "MAX_STREAM_DATA"} PROVE Granted(g)'
    <3>1. CASE g = f
      BY <1>1, <1>2, <3>1 DEF Granted
    <3>2. CASE g \in net
      <4>1. g.s \in Controllers /\ Granted(g)
        BY <2>3, <3>2, FrameKinds DEF FramesTrue
      <4> QED BY <1>1, <4>1 DEF Granted
    <3> QED BY <3>1, <3>2
  <2> QED BY <2>1, <2>2, <2>3 DEF FramesTrue
<1>5. \A s \in Streams : rxfc'[s].rwm <= rxfc[s].swm
  BY <1>1, ControllerSet DEF StreamMarks
<1>6. rxfc'[Conn].rwm = Total(ReadOf')
  <2>1. ReadOf' = ReadOf
    BY <1>1, ControllerSet DEF ReadOf
  <2> QED BY <1>1, <2>1, ControllerSet DEF ConnMarks
<1>7. \A y \in Controllers : rxfc[y].cwm <= rxfc'[y].cwm
  BY <1>1, <1>2
<1>8. StreamMarks' /\ Granting' /\ ConnMarks' /\ NoProtocolError'
  BY <1>1, <1>5, <1>6, <1>7, ReceiverStep
<1> QED BY <1>3, <1>4, <1>8

LEMMA SendMaxStreamDataKeeps ==
  ASSUME IInv, NEW s \in Streams, SendMaxStreamData(s)
  PROVE  IInv'
<1> DEFINE f == [kind |-> "MAX_STREAM_DATA", s |-> s, cwm |-> rxfc[s].cwm]
<1>1. f \in CreditFrames /\ f.s = s /\ f.cwm = rxfc[s].cwm /\ s \in Controllers
  BY Fields, ControllerSet DEF IInv, CreditFrames
<1>2. /\ net' = net \cup {f} /\ rxfc' = [rxfc EXCEPT ![s].has_cwm_changed = FALSE]
      /\ UNCHANGED <<txfc, final, lost>>
  BY DEF SendMaxStreamData
<1> HIDE DEF f
<1> QED BY <1>1, <1>2, GrantKeeps

LEMMA SendMaxDataKeeps ==
  ASSUME IInv, SendMaxData
  PROVE  IInv'
<1> DEFINE f == [kind |-> "MAX_DATA", s |-> Conn, cwm |-> rxfc[Conn].cwm]
<1>1. f \in CreditFrames /\ f.s = Conn /\ f.cwm = rxfc[Conn].cwm /\ Conn \in Controllers
  BY Fields, ControllerSet DEF IInv, CreditFrames
<1>2. /\ net' = net \cup {f} /\ rxfc' = [rxfc EXCEPT ![Conn].has_cwm_changed = FALSE]
      /\ UNCHANGED <<txfc, final, lost>>
  BY DEF SendMaxData
<1> HIDE DEF f
<1> QED BY <1>1, <1>2, GrantKeeps

LEMMA LoseKeeps ==
  ASSUME IInv, NEW f \in net, Lose(f)
  PROVE  IInv'
<1> USE DEF IInv
<1>1. /\ UNCHANGED <<txfc, rxfc, final>> /\ net' \subseteq net
      /\ lost' = IF f.kind = "STREAM" /\ final[f.s] = NoSize THEN lost \cup {f} ELSE lost
  BY DEF Lose
<1>2. f.kind = "STREAM" => f \in StreamFrames
  BY DEF Types, ResetFrames, CreditFrames
<1>3. Types' /\ lost' \subseteq net \cup lost /\ \A g \in lost' : g.kind = "STREAM"
  BY <1>1, <1>2, FrameKinds DEF Types
<1>4. FramesTrue'
  BY <1>1, <1>3, Fields, FramesStay
<1>5. StreamMarks' /\ Granting' /\ NoProtocolError'
  BY <1>1 DEF StreamMarks, Ended, Granting, NoProtocolError
<1>6. ConnMarks'
  BY <1>1 DEF ConnMarks, SentOf, HighestOf, ReadOf
<1> QED BY <1>3, <1>4, <1>5, <1>6

-----------------------------------------------------------------------------
(* The theorems.                                                           *)

LEMMA NextKeeps ==
  ASSUME IInv, [Next]_vars
  PROVE  IInv'
<1>1. CASE NewData
  BY <1>1, SendPacketKeeps DEF NewData
<1>2. CASE Resend
  BY <1>2, RetransmitKeeps DEF Resend
<1>3. CASE Credit
  BY <1>3, SendMaxDataKeeps, SendMaxStreamDataKeeps DEF Credit
<1>4. CASE Receive
  BY <1>4, RxStreamKeeps, RxResetKeeps, RxMaxDataKeeps DEF Receive
<1>5. CASE AppRead
  BY <1>5, ReadKeeps DEF AppRead
<1>6. CASE AppReset
  BY <1>6, ResetStreamKeeps DEF AppReset
<1>7. CASE Loss
  BY <1>7, LoseKeeps DEF Loss
<1>8. CASE UNCHANGED vars
  <2>1. UNCHANGED <<txfc, rxfc, final, net, lost>>
    BY <1>8 DEF vars
  <2>2. Types' /\ FramesTrue'
    BY <2>1 DEF IInv, Types, FramesTrue, Data, Reset, Granted
  <2>3. StreamMarks' /\ Granting' /\ NoProtocolError'
    BY <2>1 DEF IInv, StreamMarks, Ended, Granting, NoProtocolError
  <2>4. ConnMarks'
    BY <2>1 DEF IInv, ConnMarks, SentOf, HighestOf, ReadOf
  <2> QED BY <2>2, <2>3, <2>4 DEF IInv
<1> QED BY <1>1, <1>2, <1>3, <1>4, <1>5, <1>6, <1>7, <1>8 DEF Next

\* Every frame under way tells the truth about its sender, a stream's receive
\* controller has charged exactly the highest offset it has seen, and the
\* connection's controllers of quic_fc.c hold the sums over the streams, in
\* every behaviour, for any streams, windows and losses.
THEOREM Invariance == Spec => []IInv
<1>1. Init => IInv
  BY InitEstablishes
<1>2. IInv /\ [Next]_vars => IInv'
  BY NextKeeps
<1> QED BY <1>1, <1>2, PTL DEF Spec

\* ossl_quic_rxfc_on_rx_stream_frame never raises FLOW_CONTROL_ERROR or
\* FINAL_SIZE_ERROR against a peer that runs the same code.
THEOREM NoFalseAccusation == Spec => []NoProtocolError
<1>1. IInv => NoProtocolError
  BY DEF IInv
<1> QED BY <1>1, Invariance, PTL

\* The assertion of ossl_quic_txfc_get_credit_local and the guard of
\* ossl_quic_rxfc_on_retire never fail, and the connection's watermarks are
\* the sums over its streams.
THEOREM WatermarksOrdered == Spec => []Watermarks
<1>1. ASSUME IInv PROVE Watermarks
  <2>1. rxfc[Conn].rwm <= rxfc[Conn].swm /\ rxfc[Conn].swm <= txfc[Conn].swm
    BY <1>1, ConnInOrder DEF IInv
  <2>2. \A s \in Streams : rxfc[s].rwm <= rxfc[s].swm /\ rxfc[s].swm <= txfc[s].swm
    BY <1>1 DEF IInv, StreamMarks
  <2>3. \A x \in Controllers : rxfc[x].rwm <= rxfc[x].swm /\ rxfc[x].swm <= txfc[x].swm
    BY <2>1, <2>2 DEF Controllers
  <2>4. \A x \in Controllers : txfc[x].swm <= txfc[x].cwm /\ txfc[x].cwm <= rxfc[x].cwm
    BY <1>1 DEF IInv, Granting
  <2>5. ConnMarks
    BY <1>1 DEF IInv
  <2> QED BY <2>3, <2>4, <2>5 DEF Watermarks, ConnMarks, SentOf, HighestOf, ReadOf
<1> QED BY <1>1, Invariance, PTL

LEMMA FrameGrantsNothing ==
  ASSUME Types, NEW s \in Streams, NEW end, NEW is_fin, NEW x \in Controllers
  PROVE  on_rx_stream_frame(s, end, is_fin)[x].cwm = rxfc[x].cwm
BY ControllerSet DEF on_rx_stream_frame, on_rx_controlled_bytes, Types, RXFC

\* What a step does to credit granted and spent.
LEMMA CreditStep ==
  ASSUME IInv, IInv', [Next]_vars
  PROVE  \/ /\ SentOf' = SentOf
            /\ \A x \in Controllers : rxfc[x].cwm <= rxfc'[x].cwm
         \/ /\ \A x \in Controllers : rxfc'[x].cwm = rxfc[x].cwm /\ txfc'[x].cwm = txfc[x].cwm
            /\ \A s \in Streams : txfc[s].swm <= txfc'[s].swm
<1> DEFINE Granter == /\ SentOf' = SentOf
                      /\ \A x \in Controllers : rxfc[x].cwm <= rxfc'[x].cwm
<1>0. \A x \in Controllers : rxfc[x].cwm \in Nat /\ txfc[x].swm \in Nat
  BY Fields DEF IInv
<1>1. ASSUME UNCHANGED <<txfc, rxfc>> PROVE Granter
  BY <1>0, <1>1 DEF SentOf
<1>2. CASE NewData
  <2>1. PICK n \in [Streams -> 0..StreamLen] : SendPacket(n)
    BY <1>2 DEF NewData
  <2>2. /\ \A x \in Controllers : txfc'[x].cwm = txfc[x].cwm
        /\ \A s \in Streams : txfc'[s].swm = txfc[s].swm + n[s]
    BY <2>1, PacketCharged DEF IInv
  <2>3. \A s \in Streams : txfc[s].swm \in Nat /\ n[s] \in Nat
    BY <1>0, <2>1, ControllerSet, QuicFlowAssumption
  <2>4. rxfc' = rxfc
    BY <2>1 DEF SendPacket
  <2> QED BY <2>2, <2>3, <2>4
<1>3. CASE Resend \/ AppReset \/ Loss \/ UNCHANGED vars
  BY <1>1, <1>3 DEF Resend, Retransmit, AppReset, ResetStream, Loss, Lose, vars
<1>4. CASE Credit
  <2>1. txfc' = txfc /\ \E x \in Controllers : rxfc' = [rxfc EXCEPT ![x].has_cwm_changed = FALSE]
    BY <1>4, ControllerSet DEF Credit, SendMaxData, SendMaxStreamData
  <2>2. \A x \in Controllers : rxfc'[x].cwm = rxfc[x].cwm
    BY <2>1 DEF IInv, Types, RXFC
  <2> QED BY <1>0, <2>1, <2>2 DEF SentOf
<1>5. CASE Receive
  <2>1. PICK f \in net : RxStream(f) \/ RxReset(f) \/ RxMaxData(f)
    BY <1>5 DEF Receive
  <2>2. CASE RxMaxData(f)
    <3>1. f.s \in Controllers /\ rxfc' = rxfc /\ txfc' = bump_cwm(f.s, f.cwm)
      BY <2>2, FrameKinds DEF IInv, RxMaxData
    <3>2. \A x \in Controllers : txfc'[x].swm = txfc[x].swm
      BY <3>1 DEF bump_cwm, IInv, Types, TXFC
    <3> QED BY <1>0, <3>1, <3>2, ControllerSet DEF SentOf
  <2>3. CASE RxStream(f) \/ RxReset(f)
    <3>1. PICK end, is_fin : rxfc' = on_rx_stream_frame(f.s, end, is_fin)
      BY <2>3 DEF RxStream, RxReset
    <3>2. f.s \in Streams /\ txfc' = txfc
      BY <2>3, FrameKinds DEF IInv, RxStream, RxReset
    <3>3. \A x \in Controllers : rxfc'[x].cwm = rxfc[x].cwm
      BY <3>1, <3>2, FrameGrantsNothing DEF IInv
    <3> QED BY <1>0, <3>2, <3>3 DEF SentOf
  <2> QED BY <2>1, <2>2, <2>3
<1>6. CASE AppRead
  <2>1. PICK s \in Streams, n \in 1..StreamLen, a \in BOOLEAN, b \in BOOLEAN : Read(s, n, a, b)
    BY <1>6 DEF AppRead
  <2>2. txfc' = txfc /\ \A x \in Controllers : rxfc[x].cwm <= rxfc'[x].cwm
    BY <2>1, ReadEffect
  <2> QED BY <2>2 DEF SentOf
<1> QED BY <1>2, <1>3, <1>4, <1>5, <1>6 DEF Next

\* The two ends, with frames lost, repeated and late between them, implement
\* QuicCredit: credit is only ever granted, and never overspent, on a stream
\* or in total.
THEOREM CreditImplemented == Spec => CreditRefinement
<1>1. Init => Credit0!Init
  <2> SUFFICES ASSUME Init PROVE Credit0!Init
    OBVIOUS
  <2>1. \A x \in Controllers : rxfc[x].cwm = Window(x)
    BY DEF Init
  <2>2. \A s \in Streams : txfc[s].swm = 0
    BY ControllerSet DEF Init
  <2> QED BY <2>1, <2>2, ControllerSet DEF Credit0!Init, Credit0!Controllers, Credit0!Streams
<1>2. ASSUME IInv, IInv', [Next]_vars
      PROVE  [Credit0!Next]_<<[x \in Controllers |-> rxfc[x].cwm], [s \in Streams |-> txfc[s].swm]>>
  <2>0. /\ \A x \in Controllers : rxfc[x].cwm \in Nat /\ rxfc'[x].cwm \in Nat
        /\ \A s \in Streams : txfc'[s].swm \in Nat
    <3>1. \A x \in Controllers : rxfc'[x].cwm \in Nat /\ txfc'[x].swm \in Nat
      BY <1>2 DEF IInv, Types, RXFC, TXFC
    <3> QED BY <1>2, <3>1, Fields, ControllerSet DEF IInv
  <2>1. CASE /\ SentOf' = SentOf
             /\ \A x \in Controllers : rxfc[x].cwm <= rxfc'[x].cwm
    <3>1. Credit0!Grant
      BY <2>0, <2>1, ControllerSet DEF Credit0!Grant, Credit0!Controllers, SentOf
    <3> QED BY <3>1 DEF Credit0!Next
  <2>2. CASE /\ \A x \in Controllers : rxfc'[x].cwm = rxfc[x].cwm /\ txfc'[x].cwm = txfc[x].cwm
             /\ \A s \in Streams : txfc[s].swm <= txfc'[s].swm
    <3>0. ASSUME NEW x \in Controllers PROVE txfc'[x].swm <= rxfc[x].cwm
      <4>1. txfc'[x].swm <= txfc'[x].cwm /\ txfc'[x].cwm <= rxfc'[x].cwm
        BY <1>2 DEF IInv, Granting
      <4>2. txfc'[x].swm \in Nat /\ txfc'[x].cwm \in Nat /\ rxfc'[x].cwm \in Nat
        BY <1>2 DEF IInv, Types, RXFC, TXFC
      <4> QED BY <2>2, <4>1, <4>2
    <3>1. \A s \in Streams : txfc'[s].swm <= rxfc[s].cwm
      BY <3>0, ControllerSet
    <3>2. Total(SentOf') <= rxfc[Conn].cwm
      <4>1. txfc'[Conn].swm = Total(SentOf')
        BY <1>2 DEF IInv, ConnMarks
      <4> QED BY <3>0, <4>1, ControllerSet
    <3>3. Credit0!Spend
      BY <2>0, <2>2, <3>1, <3>2, ControllerSet
         DEF Credit0!Spend, Credit0!Streams, Credit0!PartialSums, PartialSums, Total, SentOf, Conn
    <3> QED BY <3>3 DEF Credit0!Next
  <2> QED BY <1>2, <2>1, <2>2, CreditStep
<1> QED BY <1>1, <1>2, Invariance, PTL DEF Spec, CreditRefinement, Credit0!Spec

=============================================================================
