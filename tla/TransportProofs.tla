-------------------------- MODULE TransportProofs ---------------------------
(***************************************************************************)
(* Proofs about DtlsReplay and BioPair, the two ways records and bytes come *)
(* in.                                                                     *)
(*                                                                         *)
(* The DTLS replay window accepts every record at most once, and refuses no *)
(* fresh one within the window, for every width of the window, every range *)
(* of sequence numbers and every number of epochs.                         *)
(*                                                                         *)
(* The BIO pair is two queues of bytes, one for each direction, whatever the *)
(* sizes of the buffers and of the reads and writes.                       *)
(***************************************************************************)
EXTENDS DtlsReplay, BioPair, SequenceTheorems, TLAPS

-----------------------------------------------------------------------------
(* The replay window.                                                      *)

(***************************************************************************)
(* NoReplay alone is not inductive: that a number passes replay_check says *)
(* nothing of accepts unless the bitmap stands for accepts, which is what  *)
(* BitmapExact adds.                                                       *)
(***************************************************************************)
IInv == TypeOK /\ NoReplay /\ BitmapExact

\* satsub64be keeps the sign, and the difference while it is below the window.
LEMMA SaturatedDifference ==
  ASSUME NEW a \in Nat, NEW c \in Nat
  PROVE  /\ satsub64be(a, c) \in Int
         /\ satsub64be(a, c) > 0 <=> a > c
         /\ satsub64be(a, c) < Window /\ -satsub64be(a, c) < Window =>
              satsub64be(a, c) = a - c
         /\ a - c < Window /\ c - a < Window => satsub64be(a, c) = a - c
         /\ a - c >= Window => satsub64be(a, c) >= Window
         /\ c - a >= Window => -satsub64be(a, c) >= Window
BY DtlsReplayAssumption DEF satsub64be

\* A number that passes replay_check was not accepted before.
LEMMA PassedIsFresh ==
  ASSUME IInv, NEW s \in Seqs, replay_check(s)
  PROVE  accepts[epoch][s] = 0
<1> DEFINE cmp == satsub64be(s, max_seq_num)
<1>1. s \in Nat /\ max_seq_num \in Nat /\ Window \in Nat
  BY DtlsReplayAssumption DEF IInv, TypeOK, Seqs
<1>2. CASE cmp > 0
  <2>1. s > max_seq_num
    BY <1>1, <1>2, SaturatedDifference
  <2> QED BY <2>1, <1>1 DEF IInv, BitmapExact
<1>3. CASE ~(cmp > 0)
  <2>1. ~outside(-cmp) /\ -cmp \notin map
    BY <1>3 DEF replay_check
  <2>2. cmp \in Int /\ s <= max_seq_num
    BY <1>1, <1>3, SaturatedDifference
  <2>3. cmp = s - max_seq_num
    BY <1>1, <1>3, <2>1, <2>2, SaturatedDifference DEF outside
  <2>4. max_seq_num - s \in 0..(Window - 1) /\ max_seq_num - s \notin map
    BY <1>1, <2>1, <2>2, <2>3 DEF outside
  <2>5. max_seq_num - (max_seq_num - s) = s
    BY <1>1
  <2> QED BY <2>4, <2>5, <1>1 DEF IInv, BitmapExact
<1> QED BY <1>2, <1>3

\* The new window stands for the records accepted, the new one among them.
LEMMA UpdateExact ==
  ASSUME IInv, NEW s \in Seqs, replay_check(s), bitmap_update(s),
         accepts' = [accepts EXCEPT ![epoch][s] = @ + 1], epoch' = epoch
  PROVE  /\ max_seq_num' \in Seqs /\ map' \subseteq 0..(Window - 1)
         /\ BitmapExact'
<1> DEFINE cmp == satsub64be(s, max_seq_num)
<1>1. /\ s \in Nat /\ max_seq_num \in Nat /\ Window \in Nat \ {0}
      /\ epoch \in Epochs /\ map \subseteq 0..(Window - 1)
      /\ accepts \in [Epochs -> [Seqs -> Nat]]
  BY DtlsReplayAssumption DEF IInv, TypeOK, Seqs
<1>2. /\ \A t \in Seqs : accepts'[epoch][t] = IF t = s THEN accepts[epoch][s] + 1
                                              ELSE accepts[epoch][t]
      /\ \A e \in Epochs : e # epoch => accepts'[e] = accepts[e]
  BY <1>1
<1>3. \A t \in Seqs : accepts'[epoch][t] # 0 <=> (t = s \/ accepts[epoch][t] # 0)
  BY <1>1, <1>2
<1>4. \A e \in Epochs, t \in Seqs : e > epoch => accepts'[e][t] = 0
  <2> SUFFICES ASSUME NEW e \in Epochs, NEW t \in Seqs, e > epoch
               PROVE accepts'[e][t] = 0
    OBVIOUS
  <2>1. e # epoch
    BY <1>1 DEF Epochs
  <2> QED BY <2>1, <1>2 DEF IInv, BitmapExact
<1>5. CASE cmp > 0
  <2>1. s > max_seq_num /\ max_seq_num' = s
    BY <1>1, <1>5, SaturatedDifference DEF bitmap_update
  <2>2. \A t \in Seqs : accepts'[epoch][t] # 0 => t <= s
    BY <1>1, <1>3, <2>1 DEF IInv, BitmapExact, Seqs
  <2>3. CASE outside(cmp)
    <3>1. map' = {0}
      BY <1>5, <2>3 DEF bitmap_update
    <3>2. s - max_seq_num >= Window
      BY <1>1, <1>5, <2>3, <2>1, SaturatedDifference DEF outside
    <3>3. \A i \in 0..(Window - 1) :
            i \in map' <=> (i <= s /\ accepts'[epoch][s - i] # 0)
      <4> SUFFICES ASSUME NEW i \in 0..(Window - 1)
                   PROVE i \in map' <=> (i <= s /\ accepts'[epoch][s - i] # 0)
        OBVIOUS
      <4>1. CASE i = 0
        <5>1. s - 0 = s
          BY <1>1
        <5> QED BY <4>1, <3>1, <1>1, <1>3, <5>1
      <4>2. CASE i # 0
        <5>1. i \notin map'
          BY <4>2, <3>1
        <5>2. i <= s => s - i \in Seqs /\ s - i # s /\ s - i > max_seq_num
          BY DtlsReplayAssumption, <4>2, <1>1, <3>2 DEF Seqs
        <5>3. i <= s => accepts[epoch][s - i] = 0
          BY <5>2, <1>1 DEF IInv, BitmapExact, Seqs
        <5> QED BY <5>1, <5>2, <5>3, <1>3
      <4> QED BY <4>1, <4>2
    <3> QED BY <1>1, <1>4, <2>1, <2>2, <3>1, <3>3 DEF BitmapExact, Seqs
  <2>4. CASE ~outside(cmp)
    <3>1. cmp = s - max_seq_num
      BY <1>1, <1>5, <2>4, SaturatedDifference DEF outside
    <3>2. map' = {i \in {j + (s - max_seq_num) : j \in map} : i < Window} \cup {0}
      BY <1>5, <2>4, <3>1 DEF bitmap_update, shl
    <3>3. \A i \in 0..(Window - 1) :
            i \in map' <=> (i <= s /\ accepts'[epoch][s - i] # 0)
      <4> SUFFICES ASSUME NEW i \in 0..(Window - 1)
                   PROVE i \in map' <=> (i <= s /\ accepts'[epoch][s - i] # 0)
        OBVIOUS
      <4>1. CASE i = 0
        <5>1. s - 0 = s
          BY <1>1
        <5> QED BY <4>1, <3>2, <1>1, <1>3, <5>1
      <4>2. CASE i # 0
        <5> DEFINE j == i - (s - max_seq_num)
        <5>1. j \in Int /\ i = j + (s - max_seq_num) /\ s - i = max_seq_num - j
          BY <1>1
        <5>2. i \in map' <=> j \in map
          BY <4>2, <3>2, <1>1, <5>1
        <5>3. CASE j < 0
          <6>1. j \notin map
            BY <5>3, <1>1, <5>1
          <6>2. i <= s => s - i \in Seqs /\ s - i # s /\ s - i > max_seq_num
            BY DtlsReplayAssumption, <4>2, <1>1, <5>1, <5>3 DEF Seqs
          <6>3. i <= s => accepts[epoch][s - i] = 0
            BY <6>2, <1>1 DEF IInv, BitmapExact, Seqs
          <6> QED BY <5>2, <6>1, <6>2, <6>3, <1>3
        <5>4. CASE j >= 0
          <6>1. j \in 0..(Window - 1)
            BY <5>4, <5>1, <1>1, <2>1
          <6>2. j \in map <=> (j <= max_seq_num /\ accepts[epoch][max_seq_num - j] # 0)
            BY <6>1 DEF IInv, BitmapExact
          <6>3. i <= s <=> j <= max_seq_num
            BY <5>1, <1>1
          <6>4. i <= s => s - i \in Seqs /\ s - i # s
            BY DtlsReplayAssumption, <4>2, <1>1 DEF Seqs
          <6> QED BY <5>1, <5>2, <6>2, <6>3, <6>4, <1>3
        <5> QED BY <5>1, <5>3, <5>4
      <4> QED BY <4>1, <4>2
    <3>4. map' \subseteq 0..(Window - 1)
      BY <3>2, <1>1, <2>1
    <3> QED BY <1>1, <1>4, <2>1, <2>2, <3>3, <3>4 DEF BitmapExact, Seqs
  <2> QED BY <2>3, <2>4
<1>6. CASE ~(cmp > 0)
  <2>1. ~outside(-cmp) /\ cmp \in Int /\ s <= max_seq_num
    BY <1>1, <1>6, SaturatedDifference DEF replay_check
  <2>2. -cmp = max_seq_num - s /\ max_seq_num - s \in 0..(Window - 1)
    <3>1. -cmp < Window /\ cmp < Window
      BY <1>6, <2>1, DtlsReplayAssumption DEF outside
    <3>2. cmp = s - max_seq_num
      BY <1>1, <3>1, SaturatedDifference
    <3> QED BY <1>1, <2>1, <3>1, <3>2, DtlsReplayAssumption
  <2>3. map' = map \cup {max_seq_num - s} /\ max_seq_num' = max_seq_num
    BY <1>6, <2>1, <2>2 DEF bitmap_update
  <2>4. \A i \in 0..(Window - 1) :
          i \in map' <=> (i <= max_seq_num /\ accepts'[epoch][max_seq_num - i] # 0)
    <3> SUFFICES ASSUME NEW i \in 0..(Window - 1)
                 PROVE i \in map' <=>
                       (i <= max_seq_num /\ accepts'[epoch][max_seq_num - i] # 0)
      OBVIOUS
    <3>1. i \in map' <=> (i = max_seq_num - s \/ i \in map)
      BY <2>3
    <3>2. i <= max_seq_num => max_seq_num - i \in Seqs
      BY DtlsReplayAssumption, <1>1 DEF IInv, TypeOK, Seqs
    <3>3. (i = max_seq_num - s) <=> (i <= max_seq_num /\ max_seq_num - i = s)
      BY <1>1
    <3>4. i \in map <=> (i <= max_seq_num /\ accepts[epoch][max_seq_num - i] # 0)
      BY DEF IInv, BitmapExact
    <3> QED BY <3>1, <3>2, <3>3, <3>4, <1>3
  <2>5. \A t \in Seqs : accepts'[epoch][t] # 0 => t <= max_seq_num
    BY <1>3, <2>1 DEF IInv, BitmapExact
  <2> QED BY <1>1, <1>4, <2>2, <2>3, <2>4, <2>5 DEF BitmapExact, IInv, TypeOK
<1> QED BY <1>5, <1>6

\* Every step keeps the inductive invariant.
LEMMA StepKeepsIInv == IInv /\ [Next]_vars => IInv'
<1> SUFFICES ASSUME IInv, [Next]_vars PROVE IInv'
  OBVIOUS
<1>0. ASSUME NEW r \in Records, process(r), epoch' = epoch,
             in_init' = in_init, left' \in 0..MaxLeft, prev' \subseteq prev
      PROVE  IInv'
  <2>0. r.seq \in Seqs /\ r.epoch \in Epochs /\ r.genuine \in BOOLEAN
    BY <1>0 DEF Records
  <2>1. CASE /\ r.epoch = epoch /\ replay_check(r.seq) /\ authentic(r)
             /\ bitmap_update(r.seq)
             /\ accepts' = IF r.genuine
                           THEN [accepts EXCEPT ![epoch][r.seq] = @ + 1] ELSE accepts
             /\ UNCHANGED unprocessed
    <3>1. accepts' = [accepts EXCEPT ![epoch][r.seq] = @ + 1]
      BY <2>1 DEF authentic
    <3>2. accepts[epoch][r.seq] = 0
      BY <2>0, <2>1, PassedIsFresh
    <3>3. /\ max_seq_num' \in Seqs /\ map' \subseteq 0..(Window - 1)
          /\ BitmapExact'
      BY <1>0, <2>0, <2>1, <3>1, UpdateExact
    <3>4. accepts' \in [Epochs -> [Seqs -> Nat]]
      BY <2>0, <3>1 DEF IInv, TypeOK
    <3>5. NoReplay'
      BY <2>0, <3>1, <3>2 DEF IInv, TypeOK, NoReplay
    <3> QED BY <1>0, <2>1, <3>3, <3>4, <3>5 DEF IInv, TypeOK
  <2>2. CASE /\ r.epoch = epoch + 1 /\ in_init
             /\ unprocessed' = buffer_record(r)
             /\ UNCHANGED <<max_seq_num, map, accepts>>
    <3>1. unprocessed' \subseteq Records
      BY <1>0, <2>2 DEF IInv, TypeOK, buffer_record
    <3> QED BY <1>0, <2>2, <3>1 DEF IInv, TypeOK, NoReplay, BitmapExact
  <2>3. CASE UNCHANGED <<max_seq_num, map, accepts, unprocessed>>
    BY <1>0, <2>3 DEF IInv, TypeOK, NoReplay, BitmapExact
  <2> QED BY <1>0, <2>1, <2>2, <2>3 DEF process
<1>1. ASSUME NEW r \in Records, GetBuffered(r) PROVE IInv'
  BY <1>0, <1>1 DEF GetBuffered, IInv, TypeOK
<1>2. ASSUME NEW r \in Records, GetFromWire(r) PROVE IInv'
  BY <1>0, <1>2 DEF GetFromWire, IInv, TypeOK
<1>6. ASSUME NEW r \in Records, GetLeft(r) PROVE IInv'
  <2>1. left - 1 \in 0..MaxLeft
    BY <1>6, DtlsReplayAssumption DEF GetLeft, IInv, TypeOK
  <2> QED BY <1>0, <1>6, <2>1 DEF GetLeft
<1>3. ASSUME NEW yes \in BOOLEAN, SetInInit(yes) PROVE IInv'
  BY <1>3 DEF SetInInit, IInv, TypeOK, NoReplay, BitmapExact
<1>4. ASSUME NEW n \in 0..MaxLeft, NewRecordLayer(n) PROVE IInv'
  <2>1. epoch' = epoch + 1 /\ epoch \in Epochs /\ epoch' \in Epochs /\ 0 \in Seqs
    BY <1>4, DtlsReplayAssumption DEF NewRecordLayer, IInv, TypeOK, Epochs, Seqs
  <2>2. \A s \in Seqs : accepts'[epoch'][s] = 0
    BY <1>4, <2>1 DEF NewRecordLayer, IInv, BitmapExact, Epochs
  <2>3. \A e \in Epochs, s \in Seqs : e > epoch' => accepts'[e][s] = 0
    BY <1>4, <2>1 DEF NewRecordLayer, IInv, BitmapExact, Epochs
  <2>4. max_seq_num' = 0 /\ map' = {}
    BY <1>4 DEF NewRecordLayer
  <2>5. BitmapExact'
    <3>1. \A i \in 0..(Window - 1) : i <= 0 => 0 - i = 0
      BY DtlsReplayAssumption
    <3> QED BY <2>1, <2>2, <2>3, <2>4, <3>1 DEF BitmapExact
  <2> QED BY <1>4, <2>1, <2>5 DEF NewRecordLayer, IInv, TypeOK, NoReplay
<1>5. CASE UNCHANGED vars
  BY <1>5 DEF vars, IInv, TypeOK, NoReplay, BitmapExact
<1> QED BY <1>1, <1>2, <1>3, <1>4, <1>5, <1>6 DEF Next

\* The inductive invariant holds throughout.
THEOREM Invariance == Spec => []IInv
<1>1. Init => IInv
  BY DtlsReplayAssumption DEF Init, IInv, TypeOK, NoReplay, BitmapExact, Epochs, Seqs
<1> QED BY <1>1, StepKeepsIInv, PTL DEF Spec

\* dtls_record_replay_check with dtls_record_bitmap_update: no record reaches
\* the reader twice.
THEOREM ReplayImpossible == Spec => []NoReplay
<1>1. IInv => NoReplay
  BY DEF IInv
<1> QED BY <1>1, Invariance, PTL

\* dtls_record_bitmap_update: the bitmap stands for exactly the records accepted.
THEOREM BitmapIsExact == Spec => []BitmapExact
<1>1. IInv => BitmapExact
  BY DEF IInv
<1> QED BY <1>1, Invariance, PTL

\* dtls_record_replay_check: no fresh record within the window is refused.
THEOREM FreshIsAccepted == Spec => []FreshPasses
<1>1. IInv => FreshPasses
  <2> SUFFICES ASSUME IInv, NEW s \in Seqs, accepts[epoch][s] = 0,
                      max_seq_num - s < Window
               PROVE  replay_check(s)
    BY DEF FreshPasses
  <2> DEFINE cmp == satsub64be(s, max_seq_num)
  <2>1. s \in Nat /\ max_seq_num \in Nat /\ Window \in Nat \ {0}
    BY DtlsReplayAssumption DEF IInv, TypeOK, Seqs
  <2>2. CASE cmp > 0
    BY <2>2 DEF replay_check
  <2>3. CASE ~(cmp > 0)
    <3>1. s <= max_seq_num /\ cmp \in Int
      BY <2>1, <2>3, SaturatedDifference
    <3>2. s - max_seq_num < Window
      BY <2>1, <3>1
    <3>3. -cmp = max_seq_num - s
      BY <2>1, <3>1, <3>2, SaturatedDifference
    <3>4. max_seq_num - s \in 0..(Window - 1) /\ max_seq_num - (max_seq_num - s) = s
      BY <2>1, <3>1
    <3>5. max_seq_num - s \notin map
      BY <3>4 DEF IInv, BitmapExact
    <3> QED BY <2>1, <3>1, <3>3, <3>4, <3>5 DEF replay_check, outside
  <2> QED BY <2>2, <2>3
<1> QED BY <1>1, Invariance, PTL

-----------------------------------------------------------------------------
(* The BIO pair.                                                           *)

\* The smaller of two.
LEMMA MinOfTwo ==
  ASSUME NEW m \in Int, NEW n \in Int
  PROVE  Min({m, n}) = IF m <= n THEN m ELSE n
BY DEF Min

\* A function over 1..n is a sequence of length n.
LEMMA SequenceOfFunction ==
  ASSUME NEW n \in Nat, NEW S, NEW f \in [1..n -> S]
  PROVE  f \in Seq(S) /\ Len(f) = n
OBVIOUS

\* Largest is the largest of the sizes.
LEMMA LargestIsLargest ==
  /\ Largest \in Nat \ {0} /\ Largest \in Sizes
  /\ \A n \in Sizes : n \in Nat \ {0} /\ n <= Largest
<1>1. PICK m \in Sizes : \A n \in Sizes : n <= m
  BY BioPairAssumption
<1>2. \A n \in Sizes : n \in Nat \ {0}
  BY BioPairAssumption
<1>3. \A n \in Sizes : m >= n
  BY <1>1, <1>2
<1>4. Largest \in Sizes /\ \A n \in Sizes : Largest >= n
  BY <1>3 DEF Largest, Max
<1> QED BY <1>2, <1>4

-----------------------------------------------------------------------------
(* The ring.                                                               *)

Place(x, at) == 1 + (IF at >= x.size THEN at - x.size ELSE at)

\* The counts of an end are those of a ring.
Ring(x) ==
  /\ x.size \in Sizes
  /\ x.len \in Nat /\ x.len <= x.size
  /\ x.offset \in Nat /\ x.offset < x.size

LEMMA RingNumbers ==
  ASSUME NEW x, Ring(x)
  PROVE  /\ x.size \in Nat /\ x.size > 0 /\ x.size <= Largest
         /\ x.len \in Nat /\ x.len <= x.size
         /\ x.offset \in Nat /\ x.offset < x.size
<1>1. x.size \in Sizes
  BY DEF Ring
<1>2. x.size \in Nat \ {0} /\ x.size <= Largest
  BY <1>1, LargestIsLargest
<1> QED BY <1>2 DEF Ring

LEMMA ContentAt ==
  ASSUME NEW x, Ring(x)
  PROVE  /\ Content(x) = [i \in 1..x.len |-> x.buf[Place(x, (x.offset + i) - 1)]]
         /\ Content(x) \in Seq({Content(x)[i] : i \in 1..x.len})
         /\ Len(Content(x)) = x.len
<1>1. \A i \in 1..x.len : x.offset + i - 1 = (x.offset + i) - 1
  BY RingNumbers
<1>2. Content(x) = [i \in 1..x.len |-> x.buf[Place(x, (x.offset + i) - 1)]]
  BY <1>1 DEF Content, Place
<1> DEFINE T == {Content(x)[i] : i \in 1..x.len}
<1>3. Content(x) \in [1..x.len -> T]
  BY <1>2
<1>4. x.len \in Nat
  BY RingNumbers
<1>5. Content(x) \in Seq(T) /\ Len(Content(x)) = x.len
  <2> HIDE DEF T
  <2> QED BY <1>3, <1>4, SequenceOfFunction
<1> QED BY <1>2, <1>5

LEMMA EmptyContent ==
  ASSUME NEW x, x.len = 0
  PROVE  Content(x) = <<>>
BY DEF Content

\* The counts of an end and its buffer are those of a ring that has memory.
IsBuf(x) == x.buf = [p \in 1..x.size |-> x.buf[p]]

\* Bytes copied to the first free place are where the ring has them, if they
\* need no wrap-around, and those it held are untouched.
CopiedBuf(x, s) ==
  [p \in 1..x.size |-> IF p - write_offset(x) \in 1..Len(s) THEN s[p - write_offset(x)]
                                                            ELSE x.buf[p]]

\* The index of the byte at distance at from the beginning of the buffer.
Spot(size, at) == 1 + (IF at >= size THEN at - size ELSE at)

LEMMA OldPlaces ==
  ASSUME NEW size \in Nat, NEW off \in Nat, NEW len \in Nat, NEW n \in Nat,
         off < size, len + n <= size, NEW w \in Nat, w = Spot(size, off + len) - 1,
         w + n <= size, NEW i \in 1..len
  PROVE  /\ Spot(size, (off + i) - 1) \in 1..size
         /\ Spot(size, (off + i) - 1) - w \notin 1..n
BY DEF Spot

LEMMA NewPlaces ==
  ASSUME NEW size \in Nat, NEW off \in Nat, NEW len \in Nat, NEW n \in Nat,
         off < size, len + n <= size, NEW w \in Nat, w = Spot(size, off + len) - 1,
         w + n <= size, NEW k \in 1..n
  PROVE  /\ Spot(size, (off + (len + k)) - 1) \in 1..size
         /\ Spot(size, (off + (len + k)) - 1) - w = k
BY DEF Spot

LEMMA CopiedAt ==
  ASSUME NEW x, Ring(x), NEW S, NEW s \in Seq(S), x.len + Len(s) <= x.size,
         write_offset(x) + Len(s) <= x.size
  PROVE  /\ \A i \in 1..x.len : CopiedBuf(x, s)[Place(x, (x.offset + i) - 1)]
                                  = x.buf[Place(x, (x.offset + i) - 1)]
         /\ \A k \in 1..Len(s) : CopiedBuf(x, s)[Place(x, (x.offset + (x.len + k)) - 1)] = s[k]
<1>0. /\ x.size \in Nat /\ x.len \in Nat /\ x.offset \in Nat /\ Len(s) \in Nat
      /\ x.size > 0 /\ x.offset < x.size
  BY RingNumbers, LenProperties
<1> DEFINE w == write_offset(x)
<1>1. w = (IF x.offset + x.len >= x.size THEN (x.offset + x.len) - x.size ELSE x.offset + x.len)
  BY DEF write_offset
<1>2. w \in Nat
  BY <1>0, <1>1
<1>3. \A p \in 1..x.size : CopiedBuf(x, s)[p] = IF p - w \in 1..Len(s) THEN s[p - w] ELSE x.buf[p]
  BY DEF CopiedBuf
<1>4. w + Len(s) <= x.size
  OBVIOUS
<1> HIDE DEF w
<1>7. \A at : Place(x, at) = Spot(x.size, at)
  BY DEF Place, Spot
<1>8. w = Spot(x.size, x.offset + x.len) - 1 /\ x.len + Len(s) <= x.size
  BY <1>0, <1>1 DEF Spot
<1>5. ASSUME NEW i \in 1..x.len
      PROVE  CopiedBuf(x, s)[Place(x, (x.offset + i) - 1)] = x.buf[Place(x, (x.offset + i) - 1)]
  <2> DEFINE p == Place(x, (x.offset + i) - 1)
  <2>1. p \in 1..x.size /\ p - w \notin 1..Len(s)
    <3> DEFINE z == x.size
               o == x.offset
               l == x.len
               n == Len(s)
    <3>1. /\ z \in Nat /\ o \in Nat /\ l \in Nat /\ n \in Nat /\ o < z /\ l + n <= z
          /\ w \in Nat /\ w = Spot(z, o + l) - 1 /\ w + n <= z /\ i \in 1..l
      BY <1>0, <1>2, <1>4, <1>8
    <3>2. p = Spot(z, (o + i) - 1)
      BY <1>7
    <3> HIDE DEF z, o, l, n, p
    <3>3. Spot(z, (o + i) - 1) \in 1..z /\ Spot(z, (o + i) - 1) - w \notin 1..n
      BY <3>1, OldPlaces
    <3> QED BY <3>2, <3>3 DEF z, n
  <2> HIDE DEF p
  <2>2. CopiedBuf(x, s)[p] = x.buf[p]
    BY <1>3, <2>1
  <2> QED BY <2>2 DEF p
<1>6. ASSUME NEW k \in 1..Len(s)
      PROVE  CopiedBuf(x, s)[Place(x, (x.offset + (x.len + k)) - 1)] = s[k]
  <2> DEFINE p == Place(x, (x.offset + (x.len + k)) - 1)
  <2>1. p \in 1..x.size /\ p - w = k
    <3> DEFINE z == x.size
               o == x.offset
               l == x.len
               n == Len(s)
    <3>1. /\ z \in Nat /\ o \in Nat /\ l \in Nat /\ n \in Nat /\ o < z /\ l + n <= z
          /\ w \in Nat /\ w = Spot(z, o + l) - 1 /\ w + n <= z /\ k \in 1..n
      BY <1>0, <1>2, <1>4, <1>8
    <3>2. p = Spot(z, (o + (l + k)) - 1)
      BY <1>7
    <3> HIDE DEF z, o, l, n, p
    <3>3. Spot(z, (o + (l + k)) - 1) \in 1..z /\ Spot(z, (o + (l + k)) - 1) - w = k
      BY <3>1 DEF Spot
    <3> QED BY <3>2, <3>3 DEF z
  <2> HIDE DEF p
  <2>2. CopiedBuf(x, s)[p] = s[k]
    BY <1>3, <2>1
  <2> QED BY <2>2 DEF p
<1> QED BY <1>5, <1>6

LEMMA AppendedContent ==
  ASSUME NEW x, Ring(x), NEW S, NEW s \in Seq(S), x.len + Len(s) <= x.size,
         write_offset(x) + Len(s) <= x.size,
         NEW y, Ring(y), y.buf = CopiedBuf(x, s), y.size = x.size,
         y.len = x.len + Len(s), y.offset = x.offset
  PROVE  Content(y) = Content(x) \o s
<1>0. x.size \in Nat /\ x.len \in Nat /\ x.offset \in Nat /\ Len(s) \in Nat
  BY RingNumbers, LenProperties
<1> DEFINE c == Content(x)
           T == {c[i] : i \in 1..x.len} \cup S
<1>1. c \in Seq(T) /\ s \in Seq(T) /\ Len(c) = x.len
  BY ContentAt, SeqMonotonic, Zenon
<1>2. /\ c \o s \in Seq(T) /\ Len(c \o s) = x.len + Len(s)
      /\ \A i \in 1..(x.len + Len(s)) : (c \o s)[i] = IF i <= x.len THEN c[i] ELSE s[i - x.len]
  <2> HIDE DEF c, T
  <2>1. /\ c \o s \in Seq(T) /\ Len(c \o s) = Len(c) + Len(s)
        /\ \A i \in 1..(Len(c) + Len(s)) :
             (c \o s)[i] = IF i <= Len(c) THEN c[i] ELSE s[i - Len(c)]
    BY <1>1, ConcatProperties, Zenon
  <2> QED BY <1>1, <2>1
<1>3. \A at : Place(y, at) = Place(x, at)
  BY DEF Place
<1>4. \A i \in 1..x.len : c[i] = x.buf[Place(x, (x.offset + i) - 1)]
  BY ContentAt
<1>5. Content(y) = [i \in 1..(x.len + Len(s)) |-> CopiedBuf(x, s)[Place(x, (x.offset + i) - 1)]]
  <2>1. Content(y) = [i \in 1..y.len |-> y.buf[Place(y, (y.offset + i) - 1)]]
    BY ContentAt
  <2> QED BY <1>3, <2>1
<1> HIDE DEF c, T
<1>6. ASSUME NEW i \in 1..(x.len + Len(s))
      PROVE  CopiedBuf(x, s)[Place(x, (x.offset + i) - 1)] = (c \o s)[i]
  <2>1. CASE i <= x.len
    <3>1. i \in 1..x.len
      BY <1>0, <2>1
    <3> QED BY <1>2, <1>4, <2>1, <3>1, CopiedAt
  <2>2. CASE ~ (i <= x.len)
    <3>1. i - x.len \in 1..Len(s) /\ x.len + (i - x.len) = i
      BY <1>0, <2>2
    <3>2. CopiedBuf(x, s)[Place(x, (x.offset + (x.len + (i - x.len))) - 1)] = s[i - x.len]
      BY <3>1, CopiedAt
    <3> QED BY <1>2, <2>2, <3>1, <3>2
  <2> QED BY <2>1, <2>2
<1>7. c \o s = [i \in 1..(x.len + Len(s)) |-> (c \o s)[i]]
  BY <1>2, LenProperties
<1>8. Content(y) = c \o s
  BY <1>5, <1>6, <1>7
<1> QED BY <1>8 DEF c

LEMMA ConsumedRing ==
  ASSUME NEW x, Ring(x), NEW n \in 1..x.len, x.offset + n <= x.size,
         NEW y, y.buf = x.buf, y.size = x.size,
         y.len = x.len - n, y.offset = IF n = x.len THEN 0 ELSE advance(x, n)
  PROVE  Ring(y)
BY RingNumbers DEF Ring, advance

LEMMA ConsumedContent ==
  ASSUME NEW x, Ring(x), NEW n \in 1..x.len, x.offset + n <= x.size,
         NEW y, y.buf = x.buf, y.size = x.size,
         y.len = x.len - n, y.offset = IF n = x.len THEN 0 ELSE advance(x, n)
  PROVE  Content(y) = SubSeq(Content(x), n + 1, Len(Content(x)))
<1>0. /\ x.size \in Nat /\ x.len \in Nat /\ x.offset \in Nat /\ n \in Nat
      /\ x.len <= x.size /\ x.offset < x.size /\ x.len - n \in Nat
  BY RingNumbers
<1> DEFINE c == Content(x)
           T == {c[i] : i \in 1..x.len}
           d == SubSeq(c, n + 1, x.len)
<1>1. c \in Seq(T) /\ Len(c) = x.len /\ \A i \in (n + 1)..x.len : c[i] \in T
  BY ContentAt, <1>0, SMTT(20)
<1>2. /\ d \in Seq(T) /\ Len(d) = x.len - n
      /\ \A i \in 1..(x.len - n) : d[i] = c[n + i]
  <2>1. n + 1 \in Int /\ x.len \in Int /\ x.len - (n + 1) + 1 = x.len - n
    BY <1>0
  <2>2. /\ d \in Seq(T) /\ Len(d) = IF n + 1 <= x.len THEN x.len - (n + 1) + 1 ELSE 0
        /\ \A i \in 1..(x.len - (n + 1) + 1) : d[i] = c[(n + 1) + i - 1]
    <3> HIDE DEF c, T
    <3> QED BY <1>1, <2>1, SubSeqProperties
  <2>3. \A i \in 1..(x.len - n) : (n + 1) + i - 1 = n + i
    BY <1>0
  <2> QED BY <1>0, <2>1, <2>2, <2>3
<1>3. \A i \in 1..x.len : c[i] = x.buf[Place(x, (x.offset + i) - 1)]
  BY ContentAt
<1>4. Content(y) = [i \in 1..(x.len - n) |-> x.buf[Place(y, (y.offset + i) - 1)]]
  BY ContentAt, ConsumedRing
<1> HIDE DEF c, T, d
<1>5. ASSUME NEW i \in 1..(x.len - n)
      PROVE  x.buf[Place(y, (y.offset + i) - 1)] = d[i]
  <2>1. n + i \in 1..x.len /\ n # x.len
    BY <1>0
  <2>2. Place(y, (y.offset + i) - 1) = Place(x, (x.offset + (n + i)) - 1)
    BY <1>0, <2>1 DEF Place, advance
  <2> QED BY <1>2, <1>3, <2>1, <2>2
<1>6. d = [i \in 1..(x.len - n) |-> d[i]]
  BY <1>2, LenProperties
<1>7. Content(y) = d
  BY <1>4, <1>5, <1>6
<1> QED BY <1>7, <1>1 DEF c, d

-----------------------------------------------------------------------------
(* The record of an end.                                                   *)

End(bu, si, le, of, cl, re) ==
  [buf |-> bu, size |-> si, len |-> le, offset |-> of, closed |-> cl, request |-> re]

IsEnd(x) == \E bu, si, le, of, cl, re : x = End(bu, si, le, of, cl, re)

LEMMA EndRecord ==
  ASSUME NEW bu, NEW si, NEW le, NEW of, NEW cl, NEW re
  PROVE  LET y == End(bu, si, le, of, cl, re) IN
         /\ IsEnd(y)
         /\ y.buf = bu /\ y.size = si /\ y.len = le /\ y.offset = of /\ y.closed = cl
         /\ y.request = re
<1>1. IsEnd(End(bu, si, le, of, cl, re))
  BY Zenon DEF IsEnd
<1> QED BY <1>1 DEF End

LEMMA RequestUpdate ==
  ASSUME NEW x, IsEnd(x), NEW u
  PROVE  [x EXCEPT !.request = u] = End(x.buf, x.size, x.len, x.offset, x.closed, u)
<1>1. PICK a1, a2, a3, a4, a5, a6 : x = End(a1, a2, a3, a4, a5, a6)
  BY DEF IsEnd
<1>2. /\ x.buf = a1 /\ x.size = a2 /\ x.len = a3 /\ x.offset = a4 /\ x.closed = a5
      /\ x.request = a6
  BY <1>1 DEF End
<1>3. [End(a1, a2, a3, a4, a5, a6) EXCEPT !.request = u] = End(a1, a2, a3, a4, a5, u)
  BY DEF End
<1> QED BY <1>1, <1>2, <1>3, Zenon

LEMMA ClosedUpdate ==
  ASSUME NEW x, IsEnd(x), NEW u
  PROVE  [x EXCEPT !.closed = u] = End(x.buf, x.size, x.len, x.offset, u, x.request)
<1>1. PICK a1, a2, a3, a4, a5, a6 : x = End(a1, a2, a3, a4, a5, a6)
  BY DEF IsEnd
<1>2. /\ x.buf = a1 /\ x.size = a2 /\ x.len = a3 /\ x.offset = a4 /\ x.closed = a5
      /\ x.request = a6
  BY <1>1 DEF End
<1>3. [End(a1, a2, a3, a4, a5, a6) EXCEPT !.closed = u] = End(a1, a2, a3, a4, u, a6)
  BY DEF End
<1> QED BY <1>1, <1>2, <1>3, Zenon

LEMMA EmptyUpdate ==
  ASSUME NEW x, IsEnd(x), NEW u, NEW v
  PROVE  [x EXCEPT !.len = u, !.offset = v] = End(x.buf, x.size, u, v, x.closed, x.request)
<1>1. PICK a1, a2, a3, a4, a5, a6 : x = End(a1, a2, a3, a4, a5, a6)
  BY DEF IsEnd
<1>2. /\ x.buf = a1 /\ x.size = a2 /\ x.len = a3 /\ x.offset = a4 /\ x.closed = a5
      /\ x.request = a6
  BY <1>1 DEF End
<1>3. [End(a1, a2, a3, a4, a5, a6) EXCEPT !.len = u] = End(a1, a2, u, a4, a5, a6)
  BY DEF End
<1>4. [End(a1, a2, u, a4, a5, a6) EXCEPT !.offset = v] = End(a1, a2, u, v, a5, a6)
  BY DEF End
<1>5. [x EXCEPT !.len = u, !.offset = v] = [[x EXCEPT !.len = u] EXCEPT !.offset = v]
  OBVIOUS
<1> QED BY <1>1, <1>2, <1>3, <1>4, <1>5, Zenon

LEMMA SizeUpdate ==
  ASSUME NEW x, IsEnd(x), NEW u, NEW v
  PROVE  [x EXCEPT !.buf = u, !.size = v] = End(u, v, x.len, x.offset, x.closed, x.request)
<1>1. PICK a1, a2, a3, a4, a5, a6 : x = End(a1, a2, a3, a4, a5, a6)
  BY DEF IsEnd
<1>2. /\ x.buf = a1 /\ x.size = a2 /\ x.len = a3 /\ x.offset = a4 /\ x.closed = a5
      /\ x.request = a6
  BY <1>1 DEF End
<1>3. [End(a1, a2, a3, a4, a5, a6) EXCEPT !.buf = u] = End(u, a2, a3, a4, a5, a6)
  BY DEF End
<1>4. [End(u, a2, a3, a4, a5, a6) EXCEPT !.size = v] = End(u, v, a3, a4, a5, a6)
  BY DEF End
<1>5. [x EXCEPT !.buf = u, !.size = v] = [[x EXCEPT !.buf = u] EXCEPT !.size = v]
  OBVIOUS
<1> QED BY <1>1, <1>2, <1>3, <1>4, <1>5, Zenon

LEMMA OpenUpdate ==
  ASSUME NEW x, IsEnd(x)
  PROVE  [x EXCEPT !.closed = FALSE, !.request = 0] = End(x.buf, x.size, x.len, x.offset, FALSE, 0)
<1> DEFINE no == FALSE
<1>1. PICK a1, a2, a3, a4, a5, a6 : x = End(a1, a2, a3, a4, a5, a6)
  BY DEF IsEnd
<1>2. /\ x.buf = a1 /\ x.size = a2 /\ x.len = a3 /\ x.offset = a4 /\ x.closed = a5
      /\ x.request = a6
  BY <1>1 DEF End
<1>3. [End(a1, a2, a3, a4, a5, a6) EXCEPT !.closed = no] = End(a1, a2, a3, a4, no, a6)
  <2> HIDE DEF no
  <2> QED BY DEF End
<1>4. [End(a1, a2, a3, a4, no, a6) EXCEPT !.request = 0] = End(a1, a2, a3, a4, no, 0)
  <2> HIDE DEF no
  <2> QED BY DEF End
<1>5. [x EXCEPT !.closed = FALSE, !.request = 0] = [[x EXCEPT !.closed = FALSE] EXCEPT !.request = 0]
  OBVIOUS
<1> QED BY <1>1, <1>2, <1>3, <1>4, <1>5, Zenon

LEMMA NewUpdate ==
  ASSUME NEW x, IsEnd(x), NEW u, NEW v, NEW w
  PROVE  [x EXCEPT !.buf = u, !.len = v, !.offset = w] = End(u, x.size, v, w, x.closed, x.request)
<1>1. PICK a1, a2, a3, a4, a5, a6 : x = End(a1, a2, a3, a4, a5, a6)
  BY DEF IsEnd
<1>2. /\ x.buf = a1 /\ x.size = a2 /\ x.len = a3 /\ x.offset = a4 /\ x.closed = a5
      /\ x.request = a6
  BY <1>1 DEF End
<1>3. [End(a1, a2, a3, a4, a5, a6) EXCEPT !.buf = u] = End(u, a2, a3, a4, a5, a6)
  BY DEF End
<1>4. [End(u, a2, a3, a4, a5, a6) EXCEPT !.len = v] = End(u, a2, v, a4, a5, a6)
  BY DEF End
<1>5. [End(u, a2, v, a4, a5, a6) EXCEPT !.offset = w] = End(u, a2, v, w, a5, a6)
  BY DEF End
<1>6. [x EXCEPT !.buf = u, !.len = v, !.offset = w] = [[[x EXCEPT !.buf = u] EXCEPT !.len = v] EXCEPT !.offset = w]
  OBVIOUS
<1> QED BY <1>1, <1>2, <1>3, <1>4, <1>5, <1>6, Zenon

LEMMA CopyUpdate ==
  ASSUME NEW x, IsEnd(x), NEW u, NEW v
  PROVE  [x EXCEPT !.buf = u, !.len = v] = End(u, x.size, v, x.offset, x.closed, x.request)
<1>1. PICK a1, a2, a3, a4, a5, a6 : x = End(a1, a2, a3, a4, a5, a6)
  BY DEF IsEnd
<1>2. /\ x.buf = a1 /\ x.size = a2 /\ x.len = a3 /\ x.offset = a4 /\ x.closed = a5
      /\ x.request = a6
  BY <1>1 DEF End
<1>3. [End(a1, a2, a3, a4, a5, a6) EXCEPT !.buf = u] = End(u, a2, a3, a4, a5, a6)
  BY DEF End
<1>4. [End(u, a2, a3, a4, a5, a6) EXCEPT !.len = v] = End(u, a2, v, a4, a5, a6)
  BY DEF End
<1>5. [x EXCEPT !.buf = u, !.len = v] = [[x EXCEPT !.buf = u] EXCEPT !.len = v]
  OBVIOUS
<1> QED BY <1>1, <1>2, <1>3, <1>4, <1>5, Zenon

-----------------------------------------------------------------------------
(* What the loops of bio_write and bio_read do to the ring.                *)

\* An end with memory.
Full(x) == IsEnd(x) /\ Ring(x) /\ IsBuf(x)

\* The content depends on the ring alone.
LEMMA SameRing ==
  ASSUME NEW x, NEW y, y.buf = x.buf, y.size = x.size, y.len = x.len, y.offset = x.offset
  PROVE  /\ Content(y) = Content(x)
         /\ Ring(x) => Ring(y)
         /\ IsBuf(x) => IsBuf(y)
BY DEF Content, Ring, IsBuf

LEMMA Unrequested ==
  ASSUME NEW x, Full(x)
  PROVE  LET y == unrequested(x) IN
         /\ Full(y) /\ Content(y) = Content(x) /\ y.closed = x.closed
         /\ y.size = x.size /\ y.len = x.len /\ y.offset = x.offset /\ y.buf = x.buf
<1> DEFINE y == End(x.buf, x.size, x.len, x.offset, x.closed, 0)
<1>1. unrequested(x) = y
  BY RequestUpdate DEF unrequested, Full
<1>2. IsEnd(y) /\ y.buf = x.buf /\ y.size = x.size /\ y.len = x.len /\ y.offset = x.offset
      /\ y.closed = x.closed
  BY EndRecord
<1> HIDE DEF y
<1> QED BY <1>1, <1>2, SameRing DEF Full

LEMMA CopiedEnd ==
  ASSUME NEW x, Full(x), NEW S, NEW s \in Seq(S), x.len + Len(s) <= x.size,
         write_offset(x) + Len(s) <= x.size
  PROVE  LET y == Copied(x, s) IN
         /\ Full(y) /\ y.closed = x.closed /\ Content(y) = Content(x) \o s
         /\ y.size = x.size /\ y.len = x.len + Len(s) /\ y.offset = x.offset
<1> DEFINE u == CopiedBuf(x, s)
           v == x.len + Len(s)
           y == End(u, x.size, v, x.offset, x.closed, x.request)
<1>0. IsEnd(x) /\ Ring(x)
  BY DEF Full
<1>1. Copied(x, s) = y
  <2>1. Copied(x, s) = [x EXCEPT !.buf = u, !.len = v]
    BY DEF Copied, CopiedBuf
  <2> HIDE DEF u, v
  <2> QED BY <1>0, <2>1, CopyUpdate
<1>2. IsEnd(y) /\ y.buf = u /\ y.size = x.size /\ y.len = v /\ y.offset = x.offset
      /\ y.closed = x.closed
  <2> HIDE DEF u, v
  <2> QED BY EndRecord
<1> HIDE DEF y
<1>3. Ring(y)
  BY <1>0, <1>2, RingNumbers, LenProperties DEF Ring
<1>4. IsBuf(y)
  BY <1>2 DEF IsBuf, CopiedBuf
<1>5. Content(y) = Content(x) \o s
  BY <1>0, <1>2, <1>3, AppendedContent
<1> QED BY <1>1, <1>2, <1>3, <1>4, <1>5 DEF Full

\* A sequence cut in two.
LEMMA CutInTwo ==
  ASSUME NEW S, NEW s \in Seq(S), NEW n \in 0..Len(s)
  PROVE  /\ SubSeq(s, 1, n) \in Seq(S) /\ Len(SubSeq(s, 1, n)) = n
         /\ SubSeq(s, n + 1, Len(s)) \in Seq(S)
         /\ Len(SubSeq(s, n + 1, Len(s))) = Len(s) - n
         /\ SubSeq(s, 1, n) \o SubSeq(s, n + 1, Len(s)) = s
<1>0. Len(s) \in Nat /\ n \in Nat /\ n <= Len(s) /\ \A i \in 1..Len(s) : s[i] \in S
  BY LenProperties
<1>1. SubSeq(s, 1, n) \in Seq(S) /\ Len(SubSeq(s, 1, n)) = n
  BY <1>0, SubSeqProperties
<1>2. /\ SubSeq(s, n + 1, Len(s)) \in Seq(S)
      /\ Len(SubSeq(s, n + 1, Len(s))) = Len(s) - n
  BY <1>0, SubSeqProperties
<1>3. SubSeq(s, 1, n) \o SubSeq(s, n + 1, Len(s)) = SubSeq(s, 1, Len(s))
  <2>1. 1 \in 1..(Len(s) + 1) /\ n \in (1 - 1)..Len(s) /\ Len(s) \in n..Len(s)
    BY <1>0
  <2> QED BY <2>1, ConcatAdjacentSubSeq
<1>4. SubSeq(s, 1, Len(s)) = s
  BY SubSeqFull
<1> QED BY <1>1, <1>2, <1>3, <1>4

\* A write in one or two pieces puts the whole string behind what was there.
LEMMA WrittenEnd ==
  ASSUME NEW x, Full(x), NEW S, NEW s \in Seq(S), Len(s) > 0, x.len + Len(s) <= x.size
  PROVE  LET y == Written(x, s) IN
         Full(y) /\ y.closed = x.closed /\ y.size = x.size /\ Content(y) = Content(x) \o s
<1> DEFINE w == write_offset(x)
           c == write_chunk(x, Len(s))
           s1 == SubSeq(s, 1, c)
           s2 == SubSeq(s, c + 1, Len(s))
           once == Copied(x, s1)
<1>0. /\ x.size \in Nat /\ x.len \in Nat /\ x.offset \in Nat /\ Len(s) \in Nat
      /\ x.size > 0 /\ x.offset < x.size
  BY RingNumbers, LenProperties DEF Full
<1>1. w = (IF x.offset + x.len >= x.size THEN (x.offset + x.len) - x.size ELSE x.offset + x.len)
  BY DEF write_offset
<1>2. c = IF w + Len(s) <= x.size THEN Len(s) ELSE x.size - w
  BY DEF write_chunk
<1>3. Written(x, s) = IF c = Len(s) THEN once ELSE Copied(once, s2)
  BY DEF Written, advanced
<1> HIDE DEF w, c
<1>4. w \in Nat /\ w < x.size
  BY <1>0, <1>1
<1>5. c \in Nat /\ c <= Len(s) /\ w + c <= x.size
  BY <1>0, <1>2, <1>4
<1>6. /\ s1 \in Seq(S) /\ Len(s1) = c /\ s2 \in Seq(S) /\ Len(s2) = Len(s) - c
      /\ s1 \o s2 = s
  <2>1. c \in 0..Len(s)
    BY <1>0, <1>5
  <2> QED BY <2>1, CutInTwo
<1> HIDE DEF s1, s2
<1>7. /\ Full(once) /\ once.closed = x.closed /\ Content(once) = Content(x) \o s1
      /\ once.size = x.size /\ once.len = x.len + c /\ once.offset = x.offset
  <2>1. x.len + Len(s1) <= x.size /\ write_offset(x) + Len(s1) <= x.size
    BY <1>0, <1>5, <1>6 DEF w
  <2> QED BY <1>6, <2>1, CopiedEnd
<1> HIDE DEF once
<1>8. CASE c = Len(s)
  <2>1. s1 = s
    BY <1>8, SubSeqFull DEF s1
  <2> QED BY <1>3, <1>7, <1>8, <2>1
<1>9. CASE c # Len(s)
  <2>1. x.offset + x.len < x.size /\ c = x.size - (x.offset + x.len)
    BY <1>0, <1>1, <1>2, <1>9
  <2>2. write_offset(once) = 0
    BY <1>0, <1>7, <2>1 DEF write_offset
  <2>3. once.len + Len(s2) <= once.size /\ write_offset(once) + Len(s2) <= once.size
    BY <1>0, <1>5, <1>6, <1>7, <2>2
  <2>4. LET y == Copied(once, s2) IN
        /\ Full(y) /\ y.closed = once.closed /\ y.size = once.size
        /\ Content(y) = Content(once) \o s2
    BY <1>6, <1>7, <2>3, CopiedEnd
  <2>5. (Content(x) \o s1) \o s2 = Content(x) \o s
    <3> DEFINE T == {Content(x)[i] : i \in 1..x.len}
    <3>1. Content(x) \in Seq(T)
      BY ContentAt DEF Full
    <3> HIDE DEF T
    <3>2. Content(x) \in Seq(T \cup S) /\ s1 \in Seq(T \cup S) /\ s2 \in Seq(T \cup S)
      BY <1>6, <3>1, SeqMonotonic, Zenon
    <3>3. (Content(x) \o s1) \o s2 = Content(x) \o (s1 \o s2)
      BY <3>2, ConcatAssociative
    <3> QED BY <1>6, <3>3
  <2> QED BY <1>3, <1>7, <1>9, <2>4, <2>5
<1> QED BY <1>8, <1>9

LEMMA ConsumedEnd ==
  ASSUME NEW x, Full(x), NEW n \in 1..x.len, x.offset + n <= x.size
  PROVE  LET y == Consumed(x, n) IN
         /\ Full(y) /\ y.closed = x.closed /\ y.size = x.size /\ y.len = x.len - n
         /\ y.offset = IF n = x.len THEN 0 ELSE advance(x, n)
         /\ Content(y) = SubSeq(Content(x), n + 1, Len(Content(x)))
<1> DEFINE u == x.len - n
           v == IF n = x.len THEN 0 ELSE advance(x, n)
           y == End(x.buf, x.size, u, v, x.closed, x.request)
<1>0. IsEnd(x) /\ Ring(x)
  BY DEF Full
<1>1. Consumed(x, n) = y
  <2>1. Consumed(x, n) = [x EXCEPT !.len = u, !.offset = v]
    BY DEF Consumed
  <2> HIDE DEF u, v
  <2> QED BY <1>0, <2>1, EmptyUpdate
<1>2. IsEnd(y) /\ y.buf = x.buf /\ y.size = x.size /\ y.len = u /\ y.offset = v
      /\ y.closed = x.closed
  <2> HIDE DEF u, v
  <2> QED BY EndRecord
<1> HIDE DEF y
<1>3. Ring(y)
  BY <1>0, <1>2, ConsumedRing
<1>4. IsBuf(y)
  BY <1>2 DEF IsBuf, Full
<1>5. Content(y) = SubSeq(Content(x), n + 1, Len(Content(x)))
  BY <1>0, <1>2, ConsumedContent
<1> QED BY <1>1, <1>2, <1>3, <1>4, <1>5 DEF Full

\* The bytes from the offset on are the first ones of the content.
LEMMA PieceIsFront ==
  ASSUME NEW x, Full(x), NEW n \in 1..x.len, x.offset + n <= x.size
  PROVE  Piece(x, n) = SubSeq(Content(x), 1, n)
<1>0. /\ x.size \in Nat /\ x.len \in Nat /\ x.offset \in Nat /\ n \in Nat /\ n > 0
      /\ x.size > 0 /\ x.offset < x.size /\ x.len <= x.size /\ n <= x.len
  BY RingNumbers DEF Full
<1> DEFINE C == Content(x)
           S == {x.buf[p] : p \in 1..x.size}
<1>1. \A i \in 1..x.len : C[i] = x.buf[Place(x, (x.offset + i) - 1)]
  BY ContentAt DEF Full
<1>2. \A i \in 1..n : C[i] = x.buf[x.offset + i] /\ x.offset + i \in 1..x.size
  <2> SUFFICES ASSUME NEW i \in 1..n
               PROVE  C[i] = x.buf[x.offset + i] /\ x.offset + i \in 1..x.size
    OBVIOUS
  <2>1. i \in 1..x.len /\ Place(x, (x.offset + i) - 1) = x.offset + i /\ x.offset + i \in 1..x.size
    BY <1>0 DEF Place
  <2> QED BY <1>1, <2>1
<1> HIDE DEF C
<1>3. /\ Piece(x, n) \in Seq(S) /\ Len(Piece(x, n)) = n
      /\ \A i \in 1..n : Piece(x, n)[i] = x.buf[x.offset + i]
  <2>1. \A i \in (x.offset + 1)..(x.offset + n) : x.buf[i] \in S
    BY <1>0
  <2>2. /\ x.offset + 1 \in Int /\ x.offset + n \in Int /\ x.offset + 1 <= x.offset + n
        /\ (x.offset + n) - (x.offset + 1) + 1 = n
        /\ \A i \in 1..n : (x.offset + 1) + i - 1 = x.offset + i
    BY <1>0
  <2> HIDE DEF S
  <2> QED BY <2>1, <2>2, SubSeqProperties DEF Piece
<1>4. /\ SubSeq(C, 1, n) \in Seq(S) /\ Len(SubSeq(C, 1, n)) = n
      /\ \A i \in 1..n : SubSeq(C, 1, n)[i] = C[i]
  <2>1. \A i \in 1..n : C[i] \in S
    BY <1>2
  <2>2. 1 \in Int /\ n \in Int /\ 1 <= n /\ n - 1 + 1 = n /\ \A i \in 1..n : 1 + i - 1 = i
    BY <1>0
  <2> HIDE DEF S
  <2> QED BY <2>1, <2>2, SubSeqProperties
<1>5. Piece(x, n) = SubSeq(C, 1, n)
  <2> HIDE DEF S
  <2> QED BY <1>2, <1>3, <1>4, SeqEqual
<1> QED BY <1>5 DEF C

\* Parts of what is behind the first k of a sequence.
LEMMA BehindPart ==
  ASSUME NEW S, NEW s \in Seq(S), NEW k \in 1..Len(s), NEW n \in Nat, k < n, n <= Len(s)
  PROVE  LET r == SubSeq(s, k + 1, Len(s)) IN
         /\ SubSeq(s, 1, k) \o SubSeq(r, 1, n - k) = SubSeq(s, 1, n)
         /\ SubSeq(r, (n - k) + 1, Len(r)) = SubSeq(s, n + 1, Len(s))
<1> DEFINE r == SubSeq(s, k + 1, Len(s))
<1>0. Len(s) \in Nat /\ k \in Nat /\ k > 0 /\ \A i \in 1..Len(s) : s[i] \in S
  BY LenProperties
<1>1. r \in Seq(S) /\ Len(r) = Len(s) - k
  BY <1>0, CutInTwo
<1>2. SubSeq(r, 1, n - k) = SubSeq(s, k + 1, n)
  <2>1. /\ k + 1 \in 1..Len(s) /\ Len(s) \in 1..Len(s)
        /\ 1 \in 1..(Len(s) - (k + 1) + 1) /\ n - k \in 1..(Len(s) - (k + 1) + 1)
    BY <1>0
  <2>2. SubSeq(r, 1, n - k) = SubSeq(s, (k + 1) + 1 - 1, (k + 1) + (n - k) - 1)
    BY <2>1, SubSeqOfSubSeq
  <2>3. (k + 1) + 1 - 1 = k + 1 /\ (k + 1) + (n - k) - 1 = n
    BY <1>0
  <2> QED BY <2>2, <2>3
<1>3. SubSeq(s, 1, k) \o SubSeq(s, k + 1, n) = SubSeq(s, 1, n)
  <2>1. 1 \in 1..(Len(s) + 1) /\ k \in (1 - 1)..Len(s) /\ n \in k..Len(s)
    BY <1>0
  <2> QED BY <2>1, ConcatAdjacentSubSeq
<1>4. SubSeq(r, (n - k) + 1, Len(r)) = SubSeq(s, n + 1, Len(s))
  <2>1. CASE n = Len(s)
    <3>1. SubSeq(r, (n - k) + 1, Len(r)) = <<>>
      BY <1>0, <1>1, <2>1, SubSeqEmpty
    <3>2. SubSeq(s, n + 1, Len(s)) = <<>>
      BY <1>0, <2>1, SubSeqEmpty
    <3> QED BY <3>1, <3>2
  <2>2. CASE n # Len(s)
    <3>1. /\ k + 1 \in 1..Len(s) /\ Len(s) \in 1..Len(s)
          /\ (n - k) + 1 \in 1..(Len(s) - (k + 1) + 1)
          /\ Len(s) - k \in 1..(Len(s) - (k + 1) + 1)
      BY <1>0, <2>2
    <3>2. SubSeq(r, (n - k) + 1, Len(s) - k)
            = SubSeq(s, (k + 1) + ((n - k) + 1) - 1, (k + 1) + (Len(s) - k) - 1)
      BY <3>1, SubSeqOfSubSeq
    <3>3. (k + 1) + ((n - k) + 1) - 1 = n + 1 /\ (k + 1) + (Len(s) - k) - 1 = Len(s)
      BY <1>0
    <3> QED BY <1>1, <3>2, <3>3
  <2> QED BY <2>1, <2>2
<1> QED BY <1>2, <1>3, <1>4

\* A read in one or two pieces returns the first bytes, and leaves the others.
LEMMA AfterEnd ==
  ASSUME NEW x, Full(x), NEW n \in 1..x.len
  PROVE  LET y == After(x, n) IN
         /\ Full(y) /\ y.closed = x.closed /\ y.size = x.size
         /\ Content(y) = SubSeq(Content(x), n + 1, Len(Content(x)))
         /\ Returned(x, n) = SubSeq(Content(x), 1, n)
<1> DEFINE c == read_chunk(x, n)
           z == Consumed(x, c)
           C == Content(x)
<1>0. /\ x.size \in Nat /\ x.len \in Nat /\ x.offset \in Nat /\ n \in Nat /\ n > 0
      /\ x.size > 0 /\ x.offset < x.size /\ x.len <= x.size /\ n <= x.len
  BY RingNumbers DEF Full
<1>1. c = IF x.offset + n <= x.size THEN n ELSE x.size - x.offset
  BY DEF read_chunk
<1>2. /\ After(x, n) = IF c = n THEN Consumed(x, n) ELSE Consumed(z, n - c)
      /\ Returned(x, n) = IF c = n THEN Piece(x, n) ELSE Piece(x, c) \o Piece(z, n - c)
  BY DEF After, Returned
<1> HIDE DEF c
<1>3. CASE c = n
  <2>1. x.offset + n <= x.size
    BY <1>0, <1>1, <1>3
  <2> QED BY <1>2, <1>3, <2>1, ConsumedEnd, PieceIsFront
<1>4. CASE c # n
  <2>1. /\ c = x.size - x.offset /\ c \in 1..x.len /\ c < n /\ c \in Nat
        /\ x.offset + c <= x.size /\ c # x.len /\ x.offset + c = x.size
    BY <1>0, <1>1, <1>4
  <2>2. /\ Full(z) /\ z.closed = x.closed /\ z.size = x.size /\ z.len = x.len - c
        /\ z.offset = IF c = x.len THEN 0 ELSE advance(x, c)
        /\ Content(z) = SubSeq(C, c + 1, Len(C))
    BY <2>1, ConsumedEnd
  <2>3. z.offset = 0 /\ z.len = x.len - c /\ z.size = x.size
    BY <2>1, <2>2 DEF advance
  <2> HIDE DEF z
  <2>4. n - c \in 1..z.len /\ z.offset + (n - c) <= z.size
    BY <1>0, <2>1, <2>3
  <2>5. /\ Full(Consumed(z, n - c)) /\ Consumed(z, n - c).closed = z.closed
        /\ Consumed(z, n - c).size = z.size
        /\ Content(Consumed(z, n - c)) = SubSeq(Content(z), (n - c) + 1, Len(Content(z)))
    BY <2>2, <2>4, ConsumedEnd
  <2>6. Piece(z, n - c) = SubSeq(Content(z), 1, n - c)
    BY <2>2, <2>4, PieceIsFront
  <2>7. Piece(x, c) = SubSeq(C, 1, c)
    BY <2>1, PieceIsFront
  <2>8. /\ SubSeq(C, 1, c) \o SubSeq(Content(z), 1, n - c) = SubSeq(C, 1, n)
        /\ SubSeq(Content(z), (n - c) + 1, Len(Content(z))) = SubSeq(C, n + 1, Len(C))
    <3> DEFINE T == {C[i] : i \in 1..x.len}
    <3>1. C \in Seq(T) /\ Len(C) = x.len
      BY ContentAt DEF Full
    <3> HIDE DEF C, T
    <3>2. c \in 1..Len(C) /\ n \in Nat /\ c < n /\ n <= Len(C)
      BY <1>0, <2>1, <3>1
    <3> QED BY <2>2, <3>1, <3>2, BehindPart
  <2> QED BY <1>2, <1>4, <2>2, <2>5, <2>6, <2>7, <2>8
<1> QED BY <1>3, <1>4

-----------------------------------------------------------------------------
(* The invariant.                                                          *)

EndOK(x) ==
  /\ IsEnd(x) /\ Ring(x)
  /\ x.buf = NoBuf \/ IsBuf(x)

PairInv ==
  /\ b = [e \in Ends |-> b[e]]
  /\ \A e \in Ends : EndOK(b[e])
  /\ paired => \A e \in Ends : IsBuf(b[e])
  /\ ~paired => \A e \in Ends : b[e].len = 0 /\ b[e].offset = 0

\* End e becomes y, the other end stays as it is.
Changed(e, y) == b' = [d \in Ends |-> IF d = e THEN y ELSE b[d]]

LEMMA ChangedInv ==
  ASSUME PairInv, NEW e \in Ends, NEW y, Changed(e, y), EndOK(y), UNCHANGED paired,
         paired => IsBuf(y),
         ~paired => y.len = 0 /\ y.offset = 0
  PROVE  PairInv'
<1>1. b' = [d \in Ends |-> b'[d]] /\ \A d \in Ends : b'[d] = IF d = e THEN y ELSE b[d]
  BY DEF Changed
<1>2. \A d \in Ends : EndOK(b'[d])
  BY <1>1 DEF PairInv
<1>3. paired' => \A d \in Ends : IsBuf(b'[d])
  BY <1>1 DEF PairInv
<1>4. ~paired' => \A d \in Ends : b'[d].len = 0 /\ b'[d].offset = 0
  BY <1>1 DEF PairInv
<1>5. /\ \A d \in Ends : EndOK(b[d])' <=> EndOK(b'[d])
      /\ \A d \in Ends : IsBuf(b[d])' <=> IsBuf(b'[d])
  BY DEF EndOK, IsEnd, Ring, IsBuf
<1> QED BY <1>1, <1>2, <1>3, <1>4, <1>5 DEF PairInv

\* A step that alters neither the content nor closed of an end.
LEMMA Unseen ==
  ASSUME PairInv, NEW e \in Ends, NEW y, Changed(e, y),
         Content(y) = Content(b[e]), y.closed = b[e].closed
  PROVE  /\ [d \in Ends |-> Content(b[d])]' = [d \in Ends |-> Content(b[d])]
         /\ {d \in Ends : b[d].closed}' = {d \in Ends : b[d].closed}
<1>1. \A d \in Ends : b'[d] = IF d = e THEN y ELSE b[d]
  BY DEF Changed
<1>2. \A d \in Ends : Content(b[d])' = Content(b[d]) /\ b[d].closed' = b[d].closed
  <2> SUFFICES ASSUME NEW d \in Ends
               PROVE  Content(b'[d]) = Content(b[d]) /\ b'[d].closed = b[d].closed
    BY DEF Content
  <2> QED BY <1>1
<1> QED BY <1>2

\* A step that alters the content of one end.
LEMMA Seen ==
  ASSUME PairInv, NEW e \in Ends, NEW y, Changed(e, y), y.closed = b[e].closed
  PROVE  /\ [d \in Ends |-> Content(b[d])]'
              = [[d \in Ends |-> Content(b[d])] EXCEPT ![e] = Content(y)]
         /\ {d \in Ends : b[d].closed}' = {d \in Ends : b[d].closed}
<1>1. \A d \in Ends : b'[d] = IF d = e THEN y ELSE b[d]
  BY DEF Changed
<1>2. \A d \in Ends : b'[d].closed = b[d].closed
  BY <1>1
<1>3. \A d \in Ends : Content(b'[d]) = IF d = e THEN Content(y) ELSE Content(b[d])
  BY <1>1
<1>4. {d \in Ends : b[d].closed}' = {d \in Ends : b[d].closed}
  BY <1>2
<1>5. [d \in Ends |-> Content(b'[d])]
              = [[d \in Ends |-> Content(b[d])] EXCEPT ![e] = Content(y)]
  <2> DEFINE old(d) == Content(b[d])
             new(d) == Content(b'[d])
             c == Content(y)
  <2>1. \A d \in Ends : new(d) = IF d = e THEN c ELSE old(d)
    BY <1>3
  <2> HIDE DEF old, new, c
  <2>2. [d \in Ends |-> new(d)] = [[d \in Ends |-> old(d)] EXCEPT ![e] = c]
    BY <2>1
  <2> QED BY <2>2 DEF old, new, c
<1>6. [d \in Ends |-> Content(b[d])]' = [d \in Ends |-> Content(b'[d])]
  BY DEF Content
<1> QED BY <1>4, <1>5, <1>6

-----------------------------------------------------------------------------
(* The steps.                                                              *)

\* What is to be shown of every step.
Simulated == PairInv' /\ [Channel!Next]_(Channel!vars)

LEMMA EndFields ==
  ASSUME PairInv, NEW e \in Ends
  PROVE  /\ b = [d \in Ends |-> b[d]] /\ DOMAIN b = Ends
         /\ IsEnd(b[e]) /\ Ring(b[e]) /\ EndOK(b[e])
         /\ paired => Full(b[e])
         /\ ~paired => b[e].len = 0 /\ b[e].offset = 0
<1>1. b = [d \in Ends |-> b[d]]
  BY DEF PairInv
<1>2. DOMAIN b = Ends
  BY <1>1
<1> QED BY <1>1, <1>2 DEF PairInv, EndOK, Full

\* The request of an end is no part of the channel.
LEMMA RequestChanged ==
  ASSUME PairInv, NEW e \in Ends, NEW r, b' = [b EXCEPT ![e] = [b[e] EXCEPT !.request = r]],
         UNCHANGED paired
  PROVE  /\ PairInv'
         /\ [d \in Ends |-> Content(b[d])]' = [d \in Ends |-> Content(b[d])]
         /\ {d \in Ends : b[d].closed}' = {d \in Ends : b[d].closed}
<1> DEFINE x == b[e]
           y == End(x.buf, x.size, x.len, x.offset, x.closed, r)
<1>1. Changed(e, y)
  <2>1. [x EXCEPT !.request = r] = y
    BY EndFields, RequestUpdate
  <2>2. b' = [b EXCEPT ![e] = y]
    BY <2>1
  <2> HIDE DEF y
  <2> QED BY <2>2, EndFields DEF Changed
<1>2. IsEnd(y) /\ y.buf = x.buf /\ y.size = x.size /\ y.len = x.len /\ y.offset = x.offset
      /\ y.closed = x.closed
  BY EndRecord
<1> HIDE DEF y
<1>3. Content(y) = Content(x) /\ Ring(y) /\ (IsBuf(x) => IsBuf(y))
  BY <1>2, SameRing, EndFields
<1>4. EndOK(y)
  BY <1>2, <1>3, EndFields DEF EndOK
<1>5. PairInv'
  BY <1>1, <1>2, <1>3, <1>4, ChangedInv, EndFields DEF Full
<1> QED BY <1>1, <1>2, <1>3, <1>5, Unseen

LEMMA ResetRequestStep ==
  ASSUME PairInv, NEW e \in Ends, ResetReadRequest(e)
  PROVE  Simulated
<1>1. /\ b' = [b EXCEPT ![e] = [b[e] EXCEPT !.request = 0]] /\ UNCHANGED paired
      /\ io' = NoCall
  BY DEF ResetReadRequest, unrequested
<1>2. PairInv' /\ Channel!Other
  BY <1>1, RequestChanged DEF Channel!Other, Channel!NoCall, Channel!Call, NoCall, Call
<1> QED BY <1>2 DEF Simulated, Channel!Next

\* A write is refused when the end is closed or the ring is full, and then it
\* has at least one byte.
LEMMA RefusedStep ==
  ASSUME PairInv, paired, UNCHANGED paired, NEW e \in Ends, WriteRefused(e)
  PROVE  Simulated
<1>1. /\ b' = [b EXCEPT ![e] = [b[e] EXCEPT !.request = 0]]
      /\ b[e].closed \/ b[e].len = b[e].size
  BY DEF WriteRefused, unrequested
<1>2. io' = Call("write", e, <<>>, 0)
  BY DEF WriteRefused
<1> DEFINE chan == [d \in Ends |-> Content(b[d])]
<1>3. e \in {d \in Ends : b[d].closed} \/ chan[e] # <<>>
  <2>1. CASE b[e].len = b[e].size
    <3>1. Len(Content(b[e])) > 0
      BY <2>1, ContentAt, EndFields, RingNumbers
    <3>2. Content(b[e]) # <<>>
      BY <3>1
    <3> QED BY <3>2
  <2> QED BY <1>1, <2>1
<1>4. PairInv' /\ Channel!PutNothing(e)
  BY <1>1, <1>2, <1>3, RequestChanged DEF Channel!PutNothing, Channel!Call, Call
<1> QED BY <1>4 DEF Simulated, Channel!Next

LEMMA NothingStep ==
  ASSUME PairInv, UNCHANGED paired, NEW e \in Ends, NEW n, NothingToRead(e, n)
  PROVE  Simulated
<1> DEFINE p == Peer(e)
           chan == [d \in Ends |-> Content(b[d])]
<1>0. p \in Ends
  BY DEF Peer, Ends
<1>1. /\ \E r : b' = [b EXCEPT ![p] = [b[p] EXCEPT !.request = r]]
      /\ b[p].len = 0 /\ io' = Call("read", p, <<>>, 0)
  BY DEF NothingToRead
<1> HIDE DEF p
<1>2. chan[p] = <<>>
  BY <1>0, <1>1, EmptyContent
<1>3. PairInv' /\ Channel!GetNothing(p)
  BY <1>0, <1>1, <1>2, RequestChanged DEF Channel!GetNothing, Channel!Call, Call
<1> QED BY <1>0, <1>3 DEF Simulated, Channel!Next

LEMMA ShutdownStep ==
  ASSUME PairInv, NEW e \in Ends, ShutdownWr(e)
  PROVE  Simulated
<1> DEFINE x == b[e]
           y == End(x.buf, x.size, x.len, x.offset, TRUE, x.request)
<1>1. Changed(e, y) /\ UNCHANGED paired
  <2>1. [x EXCEPT !.closed = TRUE] = y
    BY EndFields, ClosedUpdate
  <2>2. b' = [b EXCEPT ![e] = [x EXCEPT !.closed = TRUE]]
    BY DEF ShutdownWr
  <2>3. b' = [b EXCEPT ![e] = y]
    BY <2>1, <2>2
  <2> HIDE DEF y
  <2> QED BY <2>3, EndFields DEF Changed, ShutdownWr
<1>2. /\ IsEnd(y) /\ y.buf = x.buf /\ y.size = x.size /\ y.len = x.len /\ y.offset = x.offset
      /\ y.closed = TRUE
  <2>1. IsEnd(y)
    BY EndRecord
  <2> QED BY <2>1 DEF End
<1> HIDE DEF y
<1>3. Content(y) = Content(x) /\ Ring(y) /\ (IsBuf(x) => IsBuf(y))
  BY <1>2, SameRing, EndFields
<1>4. EndOK(y)
  BY <1>2, <1>3, EndFields DEF EndOK
<1>5. PairInv'
  BY <1>1, <1>2, <1>3, <1>4, ChangedInv, EndFields DEF Full
<1>6. \A d \in Ends : b'[d] = IF d = e THEN y ELSE b[d]
  BY <1>1 DEF Changed
<1>7. [d \in Ends |-> Content(b[d])]' = [d \in Ends |-> Content(b[d])]
  <2>1. \A d \in Ends : Content(b'[d]) = Content(b[d])
    BY <1>3, <1>6
  <2>2. [d \in Ends |-> Content(b[d])]' = [d \in Ends |-> Content(b'[d])]
    BY DEF Content
  <2> QED BY <2>1, <2>2
<1>8. {d \in Ends : b[d].closed}' = {d \in Ends : b[d].closed} \cup {e}
  BY <1>2, <1>6
<1>9. Channel!Close(e)
  BY <1>7, <1>8 DEF Channel!Close, ShutdownWr, Channel!NoCall, Channel!Call, NoCall, Call
<1> QED BY <1>5, <1>9 DEF Simulated, Channel!Next

LEMMA ResetStep ==
  ASSUME PairInv, NEW e \in Ends, Reset(e)
  PROVE  Simulated
<1> DEFINE x == b[e]
           y == End(x.buf, x.size, 0, 0, x.closed, x.request)
<1>1. Changed(e, y) /\ UNCHANGED paired
  <2>1. [x EXCEPT !.len = 0, !.offset = 0] = y
    BY EndFields, EmptyUpdate
  <2>2. b' = [b EXCEPT ![e] = [x EXCEPT !.len = 0, !.offset = 0]]
    BY EndFields DEF Reset
  <2>3. b' = [b EXCEPT ![e] = y]
    BY <2>1, <2>2
  <2> HIDE DEF y
  <2> QED BY <2>3, EndFields DEF Changed, Reset
<1>2. IsEnd(y) /\ y.buf = x.buf /\ y.size = x.size /\ y.len = 0 /\ y.offset = 0
      /\ y.closed = x.closed
  BY EndRecord
<1> HIDE DEF y
<1>3. Content(y) = <<>>
  BY <1>2, EmptyContent
<1>4. EndOK(y) /\ (IsBuf(x) => IsBuf(y))
  BY <1>2, EndFields, RingNumbers DEF EndOK, Ring, IsBuf
<1>5. PairInv'
  BY <1>1, <1>2, <1>4, ChangedInv, EndFields DEF Full
<1>6. Channel!Clear(e)
  <2>1. /\ [d \in Ends |-> Content(b[d])]'
             = [[d \in Ends |-> Content(b[d])] EXCEPT ![e] = <<>>]
        /\ {d \in Ends : b[d].closed}' = {d \in Ends : b[d].closed}
    BY <1>1, <1>2, <1>3, Seen
  <2>2. io' = Channel!NoCall
    BY DEF Reset, Channel!NoCall, Channel!Call, NoCall, Call
  <2> QED BY <2>1, <2>2 DEF Channel!Clear
<1> QED BY <1>5, <1>6 DEF Simulated, Channel!Next

LEMMA ResizeStep ==
  ASSUME PairInv, NEW e \in Ends, NEW n \in Sizes, SetWriteBufSize(e, n)
  PROVE  Simulated
<1> DEFINE x == b[e]
           y == End(NoBuf, n, x.len, x.offset, x.closed, x.request)
<1>0. ~paired /\ x.len = 0 /\ x.offset = 0
  BY EndFields DEF SetWriteBufSize
<1>1. Changed(e, y) /\ UNCHANGED paired
  <2>1. [x EXCEPT !.buf = NoBuf, !.size = n] = y
    BY EndFields, SizeUpdate
  <2>2. b' = [b EXCEPT ![e] = [x EXCEPT !.buf = NoBuf, !.size = n]]
    BY EndFields DEF SetWriteBufSize
  <2>3. b' = [b EXCEPT ![e] = y]
    BY <2>1, <2>2
  <2> HIDE DEF y
  <2> QED BY <2>3, EndFields DEF Changed, SetWriteBufSize
<1>2. IsEnd(y) /\ y.buf = NoBuf /\ y.size = n /\ y.len = 0 /\ y.offset = 0
      /\ y.closed = x.closed
  BY <1>0, EndRecord
<1> HIDE DEF y
<1>3. Content(y) = <<>> /\ Content(x) = <<>>
  BY <1>0, <1>2, EmptyContent
<1>4. EndOK(y)
  BY <1>2, LargestIsLargest DEF EndOK, Ring
<1>5. PairInv'
  BY <1>0, <1>1, <1>2, <1>4, ChangedInv
<1>6. Channel!Other
  BY <1>1, <1>2, <1>3, Unseen DEF Channel!Other, SetWriteBufSize, Channel!NoCall,
                                  Channel!Call, NoCall, Call
<1> QED BY <1>5, <1>6 DEF Simulated, Channel!Next

\* A prefix of a string written.
LEMMA Prefix ==
  ASSUME NEW s \in Strings
  PROVE  /\ s \in Seq(Bytes) /\ Len(s) \in Nat /\ Len(s) > 0
         /\ \A num \in 1..Len(s) :
              SubSeq(s, 1, num) \in Seq(Bytes) /\ Len(SubSeq(s, 1, num)) = num
<1>1. PICK n \in 1..(Largest + 1) : s \in [1..n -> Bytes]
  BY DEF Strings
<1>2. s \in Seq(Bytes) /\ Len(s) = n /\ n \in Nat /\ n > 0
  BY <1>1, SequenceOfFunction, LargestIsLargest
<1>3. ASSUME NEW num \in 1..Len(s)
      PROVE  SubSeq(s, 1, num) \in Seq(Bytes) /\ Len(SubSeq(s, 1, num)) = num
  <2>1. num \in 0..Len(s)
    BY <1>2
  <2> QED BY <1>2, <2>1, CutInTwo
<1> QED BY <1>2, <1>3

\* num of the bytes s were put behind the content of e.
LEMMA PutStep ==
  ASSUME PairInv, paired, UNCHANGED paired, NEW e \in Ends, ~b[e].closed,
         NEW s \in Strings, NEW num \in 1..Len(s), b[e].len + num <= b[e].size,
         NEW y, Full(y), y.closed = b[e].closed,
         Content(y) = Content(b[e]) \o SubSeq(s, 1, num),
         b' = [b EXCEPT ![e] = y], io' = Call("write", e, s, num)
  PROVE  Simulated
<1> DEFINE x == b[e]
           chan == [d \in Ends |-> Content(b[d])]
<1>1. Changed(e, y)
  BY EndFields DEF Changed
<1>2. PairInv'
  BY <1>1, ChangedInv DEF EndOK, Full
<1>3. e \notin {d \in Ends : b[d].closed}
  OBVIOUS
<1>4. s \in Seq(Bytes)
  BY Prefix
<1>5. Len(chan[e]) + num <= Largest
  <2>1. Len(chan[e]) = x.len /\ x.size <= Largest /\ x.len \in Nat /\ x.size \in Nat
    BY ContentAt, RingNumbers, EndFields
  <2>2. Largest \in Nat /\ Len(s) \in Nat
    BY LargestIsLargest, Prefix
  <2> HIDE DEF chan
  <2> QED BY <2>1, <2>2
<1>6. /\ chan' = [chan EXCEPT ![e] = chan[e] \o SubSeq(s, 1, num)]
      /\ {d \in Ends : b[d].closed}' = {d \in Ends : b[d].closed}
  BY <1>1, Seen
<1>7. io'.bytes = s /\ io'.count = num
  BY DEF Call
<1>8. io' = Channel!Call("write", e, s, num)
  BY DEF Call, Channel!Call
<1> HIDE DEF chan
<1>9. Channel!Put(e)
  BY <1>3, <1>4, <1>5, <1>6, <1>7, <1>8 DEF Channel!Put, chan
<1> QED BY <1>2, <1>9 DEF Simulated, Channel!Next

\* The room up to the end of the buffer is part of the room there is.
LEMMA OnePiece ==
  ASSUME NEW x, Ring(x), x.len # x.size
  PROVE  LET room == write_chunk(x, x.size - x.len) IN
         /\ room \in Nat /\ 0 < room /\ room <= x.size - x.len
         /\ write_offset(x) \in Nat /\ write_offset(x) + room <= x.size
<1>1. /\ x.size \in Nat /\ x.len \in Nat /\ x.offset \in Nat /\ x.len < x.size
      /\ x.offset < x.size
  BY RingNumbers
<1>2. write_offset(x) \in Nat /\ write_offset(x) < x.size
  BY <1>1 DEF write_offset
<1> HIDE DEF write_offset
<1> QED BY <1>1, <1>2 DEF write_chunk

LEMMA WriteStep ==
  ASSUME PairInv, NEW e \in Ends, NEW s \in Strings, bio_write(e, s)
  PROVE  Simulated
<1> DEFINE x == unrequested(b[e])
           num == Min({Len(s), x.size - x.len})
           y == Written(x, SubSeq(s, 1, num))
<1>0. paired /\ UNCHANGED paired
  BY DEF bio_write
<1>1. CASE WriteRefused(e)
  BY <1>0, <1>1, RefusedStep
<1>2. CASE ~WriteRefused(e)
  <2>1. /\ ~x.closed /\ x.len # x.size
        /\ b' = [b EXCEPT ![e] = y] /\ io' = Call("write", e, s, num)
    BY <1>2 DEF bio_write
  <2>2. /\ Full(x) /\ Content(x) = Content(b[e]) /\ x.closed = b[e].closed
        /\ x.size = b[e].size /\ x.len = b[e].len
    BY <1>0, EndFields, Unrequested
  <2> HIDE DEF x
  <2>3. x.size \in Nat /\ x.len \in Nat /\ x.len < x.size
    BY <2>1, <2>2, RingNumbers DEF Full
  <2>4. s \in Seq(Bytes) /\ Len(s) \in Nat /\ Len(s) > 0
    BY Prefix
  <2>5. num \in 1..Len(s) /\ x.len + num <= x.size
    <3>1. num = IF Len(s) <= x.size - x.len THEN Len(s) ELSE x.size - x.len
      BY <2>3, <2>4, MinOfTwo
    <3> QED BY <2>3, <2>4, <3>1
  <2> HIDE DEF num
  <2>6. SubSeq(s, 1, num) \in Seq(Bytes) /\ Len(SubSeq(s, 1, num)) = num
    BY <2>5, Prefix
  <2>7. num > 0
    BY <2>4, <2>5
  <2>8. Full(y) /\ y.closed = x.closed /\ Content(y) = Content(x) \o SubSeq(s, 1, num)
    BY <2>2, <2>5, <2>6, <2>7, WrittenEnd
  <2> HIDE DEF y
  <2> QED BY <1>0, <2>1, <2>2, <2>5, <2>8, PutStep
<1> QED BY <1>1, <1>2

LEMMA NwriteStep ==
  ASSUME PairInv, NEW e \in Ends, NEW s \in Strings, bio_nwrite(e, s)
  PROVE  Simulated
<1> DEFINE x == unrequested(b[e])
           room == write_chunk(x, x.size - x.len)
           num == Min({Len(s), room})
           y == Copied(x, SubSeq(s, 1, num))
<1>0. paired /\ UNCHANGED paired
  BY DEF bio_nwrite
<1>1. CASE WriteRefused(e)
  BY <1>0, <1>1, RefusedStep
<1>2. CASE ~WriteRefused(e)
  <2>1. /\ ~x.closed /\ x.len # x.size
        /\ b' = [b EXCEPT ![e] = y] /\ io' = Call("write", e, s, num)
    BY <1>2 DEF bio_nwrite
  <2>2. /\ Full(x) /\ Content(x) = Content(b[e]) /\ x.closed = b[e].closed
        /\ x.size = b[e].size /\ x.len = b[e].len
    BY <1>0, EndFields, Unrequested
  <2> HIDE DEF x
  <2>3. x.size \in Nat /\ x.len \in Nat /\ x.len < x.size
    BY <2>1, <2>2, RingNumbers DEF Full
  <2>4. s \in Seq(Bytes) /\ Len(s) \in Nat /\ Len(s) > 0
    BY Prefix
  <2>5. /\ room \in Nat /\ 0 < room /\ room <= x.size - x.len
        /\ write_offset(x) \in Nat /\ write_offset(x) + room <= x.size
    BY <2>1, <2>2, OnePiece DEF Full
  <2> HIDE DEF room
  <2>6. num \in 1..Len(s) /\ num <= room
    <3>1. num = IF Len(s) <= room THEN Len(s) ELSE room
      BY <2>4, <2>5, MinOfTwo
    <3> QED BY <2>4, <2>5, <3>1
  <2> HIDE DEF num
  <2>7. SubSeq(s, 1, num) \in Seq(Bytes) /\ Len(SubSeq(s, 1, num)) = num
    BY <2>6, Prefix
  <2>8. x.len + num <= x.size /\ write_offset(x) + num <= x.size
    BY <2>3, <2>4, <2>5, <2>6
  <2>9. Full(y) /\ y.closed = x.closed /\ Content(y) = Content(x) \o SubSeq(s, 1, num)
    BY <2>2, <2>7, <2>8, CopiedEnd
  <2> HIDE DEF y
  <2> QED BY <1>0, <2>1, <2>2, <2>6, <2>8, <2>9, PutStep
<1> QED BY <1>1, <1>2

\* The first n bytes of e were returned and taken away.
LEMMA GetStep ==
  ASSUME PairInv, UNCHANGED paired, paired, NEW e \in Ends, NEW n \in 1..b[e].len,
         NEW y, Full(y), y.closed = b[e].closed,
         Content(y) = SubSeq(Content(b[e]), n + 1, Len(Content(b[e]))),
         b' = [b EXCEPT ![e] = y],
         io' = Call("read", e, SubSeq(Content(b[e]), 1, n), n)
  PROVE  Simulated
<1> DEFINE chan == [d \in Ends |-> Content(b[d])]
<1>1. Changed(e, y)
  BY EndFields DEF Changed
<1>2. PairInv'
  BY <1>1, ChangedInv DEF EndOK, Full
<1>3. n \in 1..Len(chan[e])
  BY ContentAt, EndFields
<1>4. /\ chan' = [chan EXCEPT ![e] = SubSeq(chan[e], n + 1, Len(chan[e]))]
      /\ {d \in Ends : b[d].closed}' = {d \in Ends : b[d].closed}
  BY <1>1, Seen, ZenonT(40)
<1>5. io'.count = n
  BY DEF Call
<1>6. io' = Channel!Call("read", e, SubSeq(chan[e], 1, n), n)
  BY DEF Call, Channel!Call
<1> HIDE DEF chan
<1>7. Channel!Get(e)
  BY <1>3, <1>4, <1>5, <1>6 DEF Channel!Get, chan
<1> QED BY <1>2, <1>7 DEF Simulated, Channel!Next

LEMMA ReadStep ==
  ASSUME PairInv, NEW e \in Ends, NEW n \in 1..(Largest + 1), bio_read(e, n)
  PROVE  Simulated
<1> DEFINE p == Peer(e)
           x == unrequested(b[p])
           num == Min({n, x.len})
           y == After(x, num)
<1>0. p \in Ends
  BY DEF Peer, Ends
<1>1. paired /\ UNCHANGED paired
  BY DEF bio_read
<1>2. CASE NothingToRead(e, n)
  BY <1>1, <1>2, NothingStep
<1>3. CASE ~NothingToRead(e, n)
  <2>1. /\ x.len # 0 /\ b' = [b EXCEPT ![p] = y]
        /\ io' = Call("read", p, Returned(x, num), num)
    BY <1>3 DEF bio_read
  <2> HIDE DEF p
  <2>2. /\ Full(x) /\ Content(x) = Content(b[p]) /\ x.closed = b[p].closed
        /\ x.size = b[p].size /\ x.len = b[p].len
    BY <1>0, <1>1, EndFields, Unrequested
  <2> HIDE DEF x
  <2>3. x.len \in Nat /\ n \in Nat /\ n > 0
    BY <2>2, RingNumbers, LargestIsLargest DEF Full
  <2>4. num \in 1..x.len
    <3>1. num = IF n <= x.len THEN n ELSE x.len
      BY <2>3, MinOfTwo
    <3> QED BY <2>1, <2>3, <3>1
  <2> HIDE DEF num
  <2>5. /\ Full(y) /\ y.closed = x.closed
        /\ Content(y) = SubSeq(Content(x), num + 1, Len(Content(x)))
        /\ Returned(x, num) = SubSeq(Content(x), 1, num)
    BY <2>2, <2>4, AfterEnd
  <2> HIDE DEF y
  <2> QED BY <1>0, <1>1, <2>1, <2>2, <2>4, <2>5, GetStep
<1> QED BY <1>2, <1>3

LEMMA NreadStep ==
  ASSUME PairInv, NEW e \in Ends, NEW n \in 1..(Largest + 1), bio_nread(e, n)
  PROVE  Simulated
<1> DEFINE p == Peer(e)
           x == unrequested(b[p])
           room == read_chunk(x, x.len)
           num == Min({n, room})
           y == Consumed(x, num)
<1>0. p \in Ends
  BY DEF Peer, Ends
<1>1. paired /\ UNCHANGED paired
  BY DEF bio_nread
<1>2. CASE NothingToRead(e, 1)
  BY <1>1, <1>2, NothingStep
<1>3. CASE ~NothingToRead(e, 1)
  <2>1. /\ x.len # 0 /\ b' = [b EXCEPT ![p] = y]
        /\ io' = Call("read", p, Piece(x, num), num)
    BY <1>3 DEF bio_nread
  <2> HIDE DEF p
  <2>2. /\ Full(x) /\ Content(x) = Content(b[p]) /\ x.closed = b[p].closed
        /\ x.size = b[p].size /\ x.len = b[p].len
    BY <1>0, <1>1, EndFields, Unrequested
  <2> HIDE DEF x
  <2>3. /\ x.len \in Nat /\ n \in Nat /\ n > 0 /\ x.size \in Nat /\ x.offset \in Nat
        /\ x.len <= x.size /\ x.offset < x.size
    BY <2>2, RingNumbers, LargestIsLargest DEF Full
  <2>4. room \in Nat /\ 0 < room /\ room <= x.len /\ x.offset + room <= x.size
    BY <2>1, <2>3 DEF read_chunk
  <2> HIDE DEF room
  <2>5. num \in 1..x.len /\ x.offset + num <= x.size
    <3>1. num = IF n <= room THEN n ELSE room
      BY <2>3, <2>4, MinOfTwo
    <3> QED BY <2>3, <2>4, <3>1
  <2> HIDE DEF num
  <2>6. /\ Full(y) /\ y.closed = x.closed
        /\ Content(y) = SubSeq(Content(x), num + 1, Len(Content(x)))
    BY <2>2, <2>5, ConsumedEnd
  <2>7. Piece(x, num) = SubSeq(Content(x), 1, num)
    BY <2>2, <2>5, PieceIsFront
  <2> HIDE DEF y
  <2> QED BY <1>0, <1>1, <2>1, <2>2, <2>5, <2>6, <2>7, GetStep
<1> QED BY <1>2, <1>3

LEMMA BreakStep ==
  ASSUME PairInv, bio_destroy_pair
  PROVE  Simulated
<1> DEFINE y(e) == End(b[e].buf, b[e].size, 0, 0, b[e].closed, b[e].request)
<1>1. ~paired' /\ b' = [e \in Ends |-> y(e)]
  <2>1. \A e \in Ends : [b[e] EXCEPT !.len = 0, !.offset = 0] = y(e)
    BY EndFields, EmptyUpdate
  <2> HIDE DEF y
  <2> QED BY <2>1 DEF bio_destroy_pair
<1>2. \A e \in Ends : /\ IsEnd(y(e)) /\ y(e).buf = b[e].buf /\ y(e).size = b[e].size
                      /\ y(e).len = 0 /\ y(e).offset = 0 /\ y(e).closed = b[e].closed
  BY EndRecord
<1> HIDE DEF y
<1>3. \A e \in Ends : b'[e] = y(e)
  BY <1>1
<1>4. \A e \in Ends : EndOK(y(e)) /\ (IsBuf(b[e]) => IsBuf(y(e)))
  BY <1>2, EndFields, RingNumbers DEF EndOK, Ring, IsBuf
<1>5. PairInv'
  <2>1. b' = [e \in Ends |-> b'[e]]
    BY <1>1
  <2> QED BY <1>1, <1>2, <1>3, <1>4, <2>1 DEF PairInv
<1>6. Channel!Break
  <2>1. \A e \in Ends : Content(b'[e]) = <<>>
    BY <1>2, <1>3, EmptyContent
  <2>2. [e \in Ends |-> Content(b[e])]' = [e \in Ends |-> Content(b'[e])]
    BY DEF Content
  <2>3. [e \in Ends |-> Content(b[e])]' = [e \in Ends |-> <<>>]
    BY <2>1, <2>2
  <2>4. {e \in Ends : b[e].closed}' = {e \in Ends : b[e].closed}
    BY <1>2, <1>3
  <2> QED BY <2>3, <2>4 DEF Channel!Break, bio_destroy_pair, Channel!NoCall, Channel!Call,
                            NoCall, Call
<1> QED BY <1>5, <1>6 DEF Simulated, Channel!Next

LEMMA AllocatedEnd ==
  ASSUME NEW x, EndOK(x), x.len = 0, x.offset = 0
  PROVE  LET y == allocated(x) IN
         /\ Full(y) /\ y.size = x.size /\ y.len = 0 /\ y.offset = 0 /\ y.closed = x.closed
<1>0. IsEnd(x) /\ Ring(x)
  BY DEF EndOK
<1>1. CASE x.buf = NoBuf
  <2> DEFINE n == NewBuf(x.size)
             y == End(n, x.size, 0, 0, x.closed, x.request)
  <2>1. allocated(x) = y
    <3>1. allocated(x) = [x EXCEPT !.buf = n, !.len = 0, !.offset = 0]
      BY <1>1 DEF allocated
    <3> HIDE DEF n
    <3> QED BY <1>0, <3>1, NewUpdate
  <2>2. IsEnd(y) /\ y.buf = n /\ y.size = x.size /\ y.len = 0 /\ y.offset = 0
        /\ y.closed = x.closed
    <3> HIDE DEF n
    <3> QED BY EndRecord
  <2> HIDE DEF y
  <2>3. Ring(y)
    BY <1>0, <2>2, RingNumbers DEF Ring
  <2>4. IsBuf(y)
    BY <2>2 DEF IsBuf, NewBuf
  <2> QED BY <2>1, <2>2, <2>3, <2>4 DEF Full
<1>2. CASE x.buf # NoBuf
  BY <1>0, <1>2 DEF allocated, EndOK, Full
<1> QED BY <1>1, <1>2

LEMMA PairedEnd ==
  ASSUME NEW x, EndOK(x), x.len = 0, x.offset = 0
  PROVE  LET y == [allocated(x) EXCEPT !.closed = FALSE, !.request = 0] IN
         EndOK(y) /\ IsBuf(y) /\ y.len = 0 /\ y.closed = FALSE
<1> DEFINE z == allocated(x)
           y == End(z.buf, z.size, z.len, z.offset, FALSE, 0)
<1>1. Full(z) /\ z.size = x.size /\ z.len = 0 /\ z.offset = 0
  BY AllocatedEnd
<1> HIDE DEF z
<1>2. [z EXCEPT !.closed = FALSE, !.request = 0] = y
  BY <1>1, OpenUpdate DEF Full
<1>3. IsEnd(y) /\ y.buf = z.buf /\ y.size = z.size /\ y.len = z.len /\ y.offset = z.offset
  <2>1. IsEnd(y)
    BY EndRecord, Zenon
  <2> QED BY <2>1 DEF End
<1>4. y.closed = FALSE
  BY DEF End
<1> HIDE DEF y
<1>5. Ring(y) /\ IsBuf(y)
  BY <1>1, <1>3, SameRing DEF Full
<1> QED BY <1>1, <1>2, <1>3, <1>4, <1>5 DEF EndOK, z

\* The buffer that was allocated before the other allocation failed is empty.
LEMMA PairFailsStep ==
  ASSUME PairInv, NEW e \in Ends, MakePairFails(e)
  PROVE  Simulated
<1> DEFINE y == allocated(b[e])
<1>1. ~paired /\ UNCHANGED paired /\ b' = [b EXCEPT ![e] = y] /\ io' = NoCall
  BY DEF MakePairFails
<1>2. b[e].len = 0 /\ b[e].offset = 0 /\ EndOK(b[e])
  BY <1>1, EndFields
<1>3. Full(y) /\ y.len = 0 /\ y.offset = 0 /\ y.closed = b[e].closed
  BY <1>2, AllocatedEnd
<1> HIDE DEF y
<1>4. Changed(e, y)
  BY <1>1, EndFields DEF Changed
<1>5. PairInv'
  BY <1>1, <1>3, <1>4, ChangedInv DEF EndOK, Full
<1>6. Content(y) = Content(b[e])
  BY <1>2, <1>3, EmptyContent
<1>7. Channel!Other
  BY <1>1, <1>3, <1>4, <1>6, Unseen DEF Channel!Other, Channel!NoCall, Channel!Call,
                                        NoCall, Call
<1> QED BY <1>5, <1>7 DEF Simulated, Channel!Next

LEMMA PairStep ==
  ASSUME PairInv, bio_make_pair
  PROVE  Simulated
<1> DEFINE y(e) == [allocated(b[e]) EXCEPT !.closed = FALSE, !.request = 0]
<1>1. ~paired /\ paired' = TRUE /\ b' = [e \in Ends |-> y(e)]
  BY DEF bio_make_pair
<1>2. \A e \in Ends : /\ EndOK(y(e)) /\ IsBuf(y(e))
                      /\ y(e).len = 0 /\ y(e).closed = FALSE /\ b[e].len = 0
  BY <1>1, EndFields, PairedEnd
<1> HIDE DEF y
<1>3. \A e \in Ends : b'[e] = y(e)
  BY <1>1
<1>4. PairInv'
  <2>1. b' = [e \in Ends |-> b'[e]]
    BY <1>1
  <2> QED BY <1>1, <1>2, <1>3, <2>1 DEF PairInv
<1>5. Channel!Pair
  <2>1. \A e \in Ends : Content(b'[e]) = Content(b[e])
    BY <1>2, <1>3, EmptyContent
  <2>2. [e \in Ends |-> Content(b[e])]' = [e \in Ends |-> Content(b'[e])]
    BY DEF Content
  <2>3. [e \in Ends |-> Content(b[e])]' = [e \in Ends |-> Content(b[e])]
    BY <2>1, <2>2
  <2>4. {e \in Ends : b[e].closed}' = {}
    BY <1>2, <1>3
  <2> QED BY <2>3, <2>4 DEF Channel!Pair, bio_make_pair, Channel!NoCall, Channel!Call,
                            NoCall, Call
<1> QED BY <1>4, <1>5 DEF Simulated, Channel!Next

LEMMA PairStart ==
  ASSUME PairInit
  PROVE  PairInv /\ Channel!Init
<1>1. b = [e \in Ends |-> bio_new] /\ paired = FALSE
  BY DEF PairInit
<1>2. bio_new = End(NoBuf, InitSize, 0, 0, FALSE, 0)
  BY DEF bio_new, End
<1>3. IsEnd(bio_new) /\ bio_new.buf = NoBuf /\ bio_new.size = InitSize /\ bio_new.len = 0
      /\ bio_new.offset = 0
  <2>1. IsEnd(bio_new)
    BY <1>2, EndRecord, Zenon
  <2> QED BY <2>1 DEF bio_new
<1>4. bio_new.closed = FALSE
  BY DEF bio_new
<1>5. EndOK(bio_new)
  <2>1. InitSize \in Sizes /\ InitSize \in Nat /\ InitSize > 0
    BY BioPairAssumption
  <2> QED BY <1>3, <2>1 DEF EndOK, Ring
<1>6. \A e \in Ends : b[e] = bio_new
  BY <1>1
<1>7. PairInv
  <2>1. b = [e \in Ends |-> b[e]]
    BY <1>1
  <2> QED BY <1>1, <1>3, <1>5, <1>6, <2>1 DEF PairInv
<1>8. Channel!Init
  <2>1. \A e \in Ends : Content(b[e]) = <<>>
    BY <1>3, <1>6, EmptyContent
  <2>2. {e \in Ends : b[e].closed} = {}
    BY <1>4, <1>6
  <2> QED BY <2>1, <2>2 DEF Channel!Init, PairInit, Channel!NoCall, Channel!Call, NoCall, Call
<1> QED BY <1>7, <1>8

LEMMA PairNextStep ==
  ASSUME PairInv, [PairNext]_pairVars
  PROVE  Simulated
<1>1. CASE bio_make_pair
  BY <1>1, PairStep
<1>2. CASE bio_destroy_pair
  BY <1>2, BreakStep
<1>3. ASSUME NEW e \in Ends, ShutdownWr(e) PROVE Simulated
  BY <1>3, ShutdownStep
<1>4. ASSUME NEW e \in Ends, ResetReadRequest(e) PROVE Simulated
  BY <1>4, ResetRequestStep
<1>5. ASSUME NEW e \in Ends, Reset(e) PROVE Simulated
  BY <1>5, ResetStep
<1>6. ASSUME NEW e \in Ends, NEW n \in Sizes, SetWriteBufSize(e, n) PROVE Simulated
  BY <1>6, ResizeStep
<1>7. ASSUME NEW e \in Ends, NEW s \in Strings, bio_write(e, s) \/ bio_nwrite(e, s)
      PROVE  Simulated
  BY <1>7, WriteStep, NwriteStep
<1>8. ASSUME NEW e \in Ends, NEW n \in 1..(Largest + 1), bio_read(e, n) \/ bio_nread(e, n)
      PROVE  Simulated
  BY <1>8, ReadStep, NreadStep
<1>10. ASSUME NEW e \in Ends, MakePairFails(e) PROVE Simulated
  BY <1>10, PairFailsStep
<1>9. CASE UNCHANGED pairVars
  <2>1. PairInv'
    BY <1>9 DEF pairVars, PairInv
  <2>2. UNCHANGED Channel!vars
    BY <1>9 DEF pairVars, Channel!vars, Content
  <2> QED BY <2>1, <2>2 DEF Simulated
<1> QED BY <1>1, <1>2, <1>3, <1>4, <1>5, <1>6, <1>7, <1>8, <1>9, <1>10 DEF PairNext

\* Whatever the two ends do, in whatever order, a write appends the bytes it was
\* given, as many as it reports (bss_bio.c:293-335), and a read returns the
\* first bytes not yet read (bss_bio.c:147-190), each once: the ring buffers,
\* their two pieces and their requests implement two queues.
THEOREM PairIsChannel == PairSpec => IsChannel
<1>1. PairInit => PairInv /\ Channel!Init
  BY PairStart
<1>2. PairInv /\ [PairNext]_pairVars => PairInv' /\ [Channel!Next]_(Channel!vars)
  BY PairNextStep DEF Simulated
<1> QED BY <1>1, <1>2, PTL DEF PairSpec, IsChannel, Channel!Spec

=============================================================================
