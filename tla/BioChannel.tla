----------------------------- MODULE BioChannel -----------------------------
(***************************************************************************)
(* What a BIO pair promises: two queues of bytes, one for each direction.  *)
(* A write appends the bytes it was given, or the first of them, and says  *)
(* how many; a read returns the first bytes of the queue and takes them    *)
(* away.  The queues are emptied when the pair is broken or on request.    *)
(***************************************************************************)
EXTENDS Integers, Sequences

CONSTANTS Ends, Bytes, Capacity

VARIABLES
  chan,     \* the bytes written by each end and not read by the other
  closed,   \* the ends that write no more
  io        \* the last call: the bytes it was given or returned, and how many

vars == <<chan, closed, io>>

Call(op, from, bytes, count) == [op |-> op, from |-> from, bytes |-> bytes, count |-> count]
NoCall == Call("none", 0, <<>>, 0)

Init == chan = [e \in Ends |-> <<>>] /\ closed = {} /\ io = NoCall

\* The bytes s were given, and k of them taken.
Put(e) ==
  LET s == io'.bytes
      k == io'.count IN
  /\ io' = Call("write", e, s, k)
  /\ s \in Seq(Bytes) /\ k \in 1..Len(s)
  /\ e \notin closed /\ Len(chan[e]) + k <= Capacity
  /\ chan' = [chan EXCEPT ![e] = @ \o SubSeq(s, 1, k)]
  /\ UNCHANGED closed

\* A write takes nothing only if the end is closed or the queue has something.
PutNothing(e) ==
  /\ io' = Call("write", e, <<>>, 0)
  /\ e \in closed \/ chan[e] # <<>>
  /\ UNCHANGED <<chan, closed>>

Get(e) ==
  LET n == io'.count IN
  /\ n \in 1..Len(chan[e])
  /\ io' = Call("read", e, SubSeq(chan[e], 1, n), n)
  /\ chan' = [chan EXCEPT ![e] = SubSeq(@, n + 1, Len(@))]
  /\ UNCHANGED closed

\* A read returns nothing only if there is nothing.
GetNothing(e) ==
  /\ io' = Call("read", e, <<>>, 0)
  /\ chan[e] = <<>>
  /\ UNCHANGED <<chan, closed>>

Clear(e) == chan' = [chan EXCEPT ![e] = <<>>] /\ io' = NoCall /\ UNCHANGED closed

Close(e) == closed' = closed \cup {e} /\ io' = NoCall /\ UNCHANGED chan

Break == chan' = [e \in Ends |-> <<>>] /\ io' = NoCall /\ UNCHANGED closed

Pair == closed' = {} /\ io' = NoCall /\ UNCHANGED chan

Other == io' = NoCall /\ UNCHANGED <<chan, closed>>

Next ==
  \/ \E e \in Ends : Put(e) \/ PutNothing(e) \/ Get(e) \/ GetNothing(e) \/ Clear(e) \/ Close(e)
  \/ Break \/ Pair \/ Other

Spec == Init /\ [][Next]_vars

=============================================================================
