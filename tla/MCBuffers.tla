----------------------------- MODULE MCBuffers ------------------------------
(* The secure heap, the BIO pair and the DTLS record layer, which know     *)
(* nothing of each other: in each state at most one of them has left its   *)
(* initial state.                                                          *)
EXTENDS SecureHeap, BioPair, DtlsReplay

\* Only end 1 of the pair writes; the two directions share the record of the
\* last call, the pairing and nothing else.
OneWay == b'[2].len = 0

BuffersInit == HeapInit /\ PairInit /\ Init

BuffersNext ==
  \/ PairInit /\ Init /\ HeapNext /\ UNCHANGED <<pairVars, vars>>
  \/ HeapInit /\ Init /\ PairNext /\ OneWay /\ UNCHANGED <<heapVars, vars>>
  \/ HeapInit /\ PairInit /\ Next /\ UNCHANGED <<heapVars, pairVars>>

BuffersSpec == BuffersInit /\ [][BuffersNext]_<<heapVars, pairVars, vars>>
=============================================================================
