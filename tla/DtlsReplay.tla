----------------------------- MODULE DtlsReplay -----------------------------
(***************************************************************************)
(* The reading side of the DTLS record layer                               *)
(* (openssl-master/ssl/record/methods/dtls_meth.c): the replay window, the *)
(* records of the next epoch kept until it begins, and the record layer    *)
(* that is put in the place of the old one when it does.                   *)
(*                                                                         *)
(* The network hands over any record at any time, any number of times;     *)
(* genuine tells whether it will pass authentication.  The transport is    *)
(* not SCTP, over which the code makes no replay check.  A fatal alert     *)
(* ends the connection: behaviours that have one stop before it.           *)
(***************************************************************************)
EXTENDS Integers, FiniteSets

CONSTANTS
  MaxSeq,      \* the last sequence number, 2^48 - 1
  MaxEpoch,    \* bound: the last epoch
  Window,      \* bits of DTLS_BITMAP.map, 64
  QueueLimit,  \* records kept for the next epoch, 100
  MaxLeft      \* bound: records left in the buffer of a layer that ends

ASSUME DtlsReplayAssumption ==
  /\ MaxSeq \in Nat /\ MaxEpoch \in Nat /\ Window \in Nat \ {0} /\ QueueLimit \in Nat
  /\ MaxLeft \in Nat

Seqs == 0..MaxSeq
Epochs == 0..MaxEpoch
Records == [epoch : Epochs, seq : Seqs, genuine : BOOLEAN]

VARIABLES
  epoch,        \* rl->epoch
  in_init,      \* a handshake is in progress
  max_seq_num,  \* of rl->bitmap
  map,          \* the shifts whose bits are set in rl->bitmap
  unprocessed,  \* unprocessed_rcds: records of the next epoch
  left,         \* how many records the layer before this one had in its rbuf
  prev,         \* records of its queue, handed down behind those
  accepts       \* how often each record was passed on to the reader

vars == <<epoch, in_init, max_seq_num, map, unprocessed, left, prev, accepts>>

\* dtls_new_record_layer
Init ==
  /\ epoch = 0 /\ in_init = TRUE
  /\ max_seq_num = 0 /\ map = {}
  /\ unprocessed = {} /\ left = 0 /\ prev = {}
  /\ accepts = [e \in Epochs |-> [s \in Seqs |-> 0]]

-----------------------------------------------------------------------------
\* The difference of two numbers, cut off beyond 2 * Window either way.
satsub64be(a, b) ==
  IF a - b > 2 * Window THEN 2 * Window
  ELSE IF a - b < -(2 * Window) THEN -(2 * Window)
  ELSE a - b

\* mutant: the record at the far edge counts as inside the window
outside_late(shift) == shift > Window

outside(shift) == shift >= Window

replay_check(seq) ==
  LET cmp == satsub64be(seq, max_seq_num) IN
  cmp > 0 \/ (~outside(-cmp) /\ -cmp \notin map)

\* mutant: the bits are moved one place too few
shl_short(n) == {i + n - 1 : i \in map} \cup {0}

\* map << n, with the bit of the new record
shl(n) == {i \in {j + n : j \in map} : i < Window} \cup {0}

bitmap_update(seq) ==
  LET cmp == satsub64be(seq, max_seq_num) IN
  IF cmp > 0
  THEN /\ map' = IF outside(cmp) THEN {0} ELSE shl(cmp)
       /\ max_seq_num' = seq
  ELSE /\ map' = IF outside(-cmp) THEN map ELSE map \cup {-cmp}
       /\ UNCHANGED max_seq_num

\* dtls_rlayer_buffer_record: a queue that is full, or has the number already,
\* drops the record.
buffer_record(r) ==
  IF Cardinality(unprocessed) >= QueueLimit \/ (\E q \in unprocessed : q.seq = r.seq)
  THEN unprocessed ELSE unprocessed \cup {r}

\* mutant: the window moves before the record is authenticated
authentic_any(r) == TRUE

\* The record can be decrypted and its MAC is right; else it is dropped, or the
\* connection ends (encrypt-then-MAC, a length that is too large).
authentic(r) == r.genuine

\* One turn of dtls_get_more_records with r read.  A record of the next epoch
\* always passes the replay check, whose bitmap for that epoch stays empty.
process(r) ==
  \/ /\ r.epoch = epoch /\ replay_check(r.seq) /\ authentic(r)
     /\ bitmap_update(r.seq)
     /\ accepts' = IF r.genuine THEN [accepts EXCEPT ![epoch][r.seq] = @ + 1] ELSE accepts
     /\ UNCHANGED unprocessed
  \/ /\ r.epoch = epoch + 1 /\ in_init
     /\ unprocessed' = buffer_record(r)
     /\ UNCHANGED <<max_seq_num, map, accepts>>
  \/ /\ r.epoch = epoch => ~(replay_check(r.seq) /\ authentic(r))
     /\ r.epoch = epoch + 1 => ~in_init
     /\ UNCHANGED <<max_seq_num, map, accepts, unprocessed>>

\* What the old record layer handed down is read first (rl->prev): the bytes
\* left in its buffer, which are whatever came over the wire,
GetLeft(r) ==
  /\ left > 0 /\ left' = left - 1
  /\ process(r)
  /\ UNCHANGED <<epoch, in_init, prev>>

\* and then the records of its queue, in order.
GetBuffered(r) ==
  /\ left = 0 /\ r \in prev /\ \A q \in prev : r.seq <= q.seq
  /\ prev' = prev \ {r}
  /\ process(r)
  /\ UNCHANGED <<epoch, in_init, left>>

GetFromWire(r) ==
  /\ left = 0 /\ prev = {}
  /\ process(r)
  /\ UNCHANGED <<epoch, in_init, left, prev>>

SetInInit(b) ==
  /\ in_init' = b
  /\ UNCHANGED <<epoch, max_seq_num, map, unprocessed, left, prev, accepts>>

\* The layer of the next epoch: dtls_free of the old one pushes the n records in
\* its buffer and those it kept to the new one, which starts in a handshake and
\* with an empty window.
NewRecordLayer(n) ==
  /\ in_init /\ epoch < MaxEpoch
  /\ epoch' = epoch + 1 /\ max_seq_num' = 0 /\ map' = {}
  /\ left' = n /\ prev' = unprocessed /\ unprocessed' = {}
  /\ UNCHANGED <<in_init, accepts>>

Next ==
  \/ \E r \in Records : GetLeft(r) \/ GetBuffered(r) \/ GetFromWire(r)
  \/ \E b \in BOOLEAN : SetInInit(b)
  \/ \E n \in 0..MaxLeft : NewRecordLayer(n)

Spec == Init /\ [][Next]_vars

-----------------------------------------------------------------------------
TypeOK ==
  /\ epoch \in Epochs /\ in_init \in BOOLEAN
  /\ max_seq_num \in Seqs /\ map \subseteq 0..(Window - 1)
  /\ unprocessed \subseteq Records /\ left \in 0..MaxLeft /\ prev \subseteq Records
  /\ accepts \in [Epochs -> [Seqs -> Nat]]

\* No record reaches the reader twice, through any reordering, repetition and
\* loss, across epochs and through the queue of the next epoch.
NoReplay == \A e \in Epochs, s \in Seqs : accepts[e][s] <= 1

\* The window refuses nothing it could accept: a number of this epoch that was
\* not accepted yet and is less than Window behind the newest passes, however
\* far and how often the window was moved.
FreshPasses ==
  \A s \in Seqs :
    (accepts[epoch][s] = 0 /\ max_seq_num - s < Window) => replay_check(s)

\* What the bitmap stands for: bit i is set exactly if the record i before the
\* newest was accepted, and nothing newer or of a later epoch was.
BitmapExact ==
  /\ \A i \in 0..(Window - 1) :
       i \in map <=> (i <= max_seq_num /\ accepts[epoch][max_seq_num - i] # 0)
  /\ \A s \in Seqs : accepts[epoch][s] # 0 => s <= max_seq_num
  /\ \A e \in Epochs, s \in Seqs : e > epoch => accepts[e][s] = 0

=============================================================================
