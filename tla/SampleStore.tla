---------------------------- MODULE SampleStore -----------------------------
(***************************************************************************)
(* What the rest of the program relies on from the collection CodeSamples: *)
(* one category per sample text, replaced as a whole by an upsert of the   *)
(* same text and never removed.  CodeSamples.tla implements it.            *)
(***************************************************************************)
CONSTANTS
  Documents,     \* the texts a sample can be
  Categories,    \* the categories samples are filed under
  Absent         \* stands for "no such sample"

ASSUME StoreAssumption == Absent \notin Categories

VARIABLE samples

StoreTypeOK == samples \in [Documents -> Categories \cup {Absent}]

StoreInit == samples = [d \in Documents |-> Absent]

Upsert(d, k) == samples' = [samples EXCEPT ![d] = k]

StoreNext == \E d \in Documents, k \in Categories : Upsert(d, k)

StoreSpec == StoreInit /\ [][StoreNext]_samples

Stored == {d \in Documents : samples[d] # Absent}

=============================================================================
