----------------------------- MODULE QuicCredit -----------------------------
(***************************************************************************)
(* What QUIC flow control promises, with no frames in it: one end grants,  *)
(* never takes back, and the other spends on its streams no more than has  *)
(* been granted, per stream and in total (controller 0).                   *)
(***************************************************************************)
EXTENDS Sums

CONSTANTS NStreams, Window(_)

VARIABLES granted, spent

Streams == 1..NStreams
Controllers == 0..NStreams

Init ==
  /\ granted = [x \in Controllers |-> Window(x)]
  /\ spent = [s \in Streams |-> 0]

Grant ==
  /\ granted' \in [Controllers -> Nat]
  /\ \A x \in Controllers : granted'[x] >= granted[x]
  /\ UNCHANGED spent

Spend ==
  /\ spent' \in [Streams -> Nat]
  /\ \A s \in Streams : spent[s] <= spent'[s] /\ spent'[s] <= granted[s]
  /\ PartialSums(spent', NStreams)[NStreams] <= granted[0]
  /\ UNCHANGED granted

Next == Grant \/ Spend

Spec == Init /\ [][Next]_<<granted, spent>>

=============================================================================
