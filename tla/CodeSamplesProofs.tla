-------------------------- MODULE CodeSamplesProofs --------------------------
(***************************************************************************)
(* Proofs about vecstore.py for any number of overlapping runs, samples    *)
(* and categories: type correctness, the consistency of the records, that  *)
(* a stored sample is never lost, that a retry is idempotent, and that the *)
(* runs implement the atomic store of SampleStore.                         *)
(***************************************************************************)
EXTENDS CodeSamples, TLAPS

(* Between its steps a run holds what its program counter promises: the    *)
(* text once it is read, that text's embedding once it is computed.        *)
Held ==
  \A r \in Runs :
    /\ pc[r] \in {"embed", "upsert", "stored"} => code[r] \in Documents
    /\ pc[r] = "upsert" => embeddings[r] = Embedding[code[r]]

Inv == TypeOK /\ Held /\ SelfDescribing /\ NeverLost

-----------------------------------------------------------------------------
(* Whatever may be in the files at the start, a new collection is empty.   *)
LEMMA InitInv == Init => Inv
<1> SUFFICES ASSUME Init PROVE Inv
  OBVIOUS
<1>1. TypeOK
  BY DEF Init, TypeOK
<1>2. Held /\ SelfDescribing /\ NeverLost
  BY DEF Init, Held, SelfDescribing, NeverLost
<1> QED
  BY <1>1, <1>2 DEF Inv

(* The record that a commit writes is well formed and filed under the      *)
(* digest of its own text.                                                 *)
LEMMA CommitRecord ==
  ASSUME Inv, NEW r \in Runs, Commit(r)
  PROVE  /\ code[r] \in Documents
         /\ Sha256[code[r]] \in Ids
         /\ store'[Sha256[code[r]]] =
              [category |-> argv[r].category, document |-> code[r],
               embedding |-> Embedding[code[r]]]
         /\ store'[Sha256[code[r]]] \in Record
         /\ store'[Sha256[code[r]]] # Absent
         /\ store'[Sha256[code[r]]].category = argv[r].category
         /\ store'[Sha256[code[r]]].document = code[r]
         /\ store'[Sha256[code[r]]].embedding = Embedding[code[r]]
         /\ \A i \in Ids \ {Sha256[code[r]]} : store'[i] = store[i]
<1>1. code[r] \in Documents /\ embeddings[r] = Embedding[code[r]]
  BY DEF Inv, Held, Commit
<1>2. Sha256[code[r]] \in Ids
  BY <1>1, SampleAssumption
<1>3. argv[r].category \in Categories
  BY DEF Inv, TypeOK, Argv
<1>4. Embedding[code[r]] \in Vectors
  BY <1>1 DEF Vectors
<1>5. store \in [Ids -> Record \cup {Absent}]
  BY DEF Inv, TypeOK
<1>6. store'[Sha256[code[r]]] =
        [category |-> argv[r].category, document |-> code[r],
         embedding |-> Embedding[code[r]]]
  BY <1>1, <1>2, <1>5 DEF Commit
<1>7. store'[Sha256[code[r]]] \in Record
  BY <1>1, <1>3, <1>4, <1>6 DEF Record
<1>8. \A i \in Ids \ {Sha256[code[r]]} : store'[i] = store[i]
  BY <1>2, <1>5 DEF Commit
<1> QED
  BY <1>1, <1>2, <1>6, <1>7, <1>8, RecordAssumption

-----------------------------------------------------------------------------
(* No step leaves the types: what a commit writes is a whole record.      *)
LEMMA StepTypeOK == TypeOK /\ Held /\ [Next]_vars => TypeOK'
<1> SUFFICES ASSUME TypeOK, Held, [Next]_vars PROVE TypeOK'
  OBVIOUS
<1> USE DEF TypeOK
<1>1. CASE \E r \in Runs : ReadSample(r)
  BY <1>1 DEF ReadSample
<1>2. CASE \E r \in Runs : Embed(r)
  <2>1. PICK r \in Runs : Embed(r)
    BY <1>2
  <2>2. Embedding[code[r]] \in Vectors
    BY <2>1 DEF Embed, Held, Vectors
  <2> QED
    BY <2>1, <2>2 DEF Embed
<1>3. CASE \E r \in Runs : Commit(r)
  <2>1. PICK r \in Runs : Commit(r)
    BY <1>3
  <2>2. /\ code[r] \in Documents /\ argv[r].category \in Categories
        /\ embeddings[r] = Embedding[code[r]]
    BY <2>1 DEF Commit, Held, Argv
  <2>3. [category |-> argv[r].category, document |-> code[r],
         embedding |-> embeddings[r]] \in Record
    BY <2>2 DEF Record, Vectors
  <2> QED
    BY <2>1, <2>3 DEF Commit
<1>4. CASE \E r \in Runs : Fail(r)
  BY <1>4 DEF Fail
<1>5. CASE \E r \in Runs, a \in Argv : Rerun(r, a)
  BY <1>5 DEF Rerun
<1>6. CASE \E p \in Paths, c \in Documents \cup {Unreadable} : EditSample(p, c)
  BY <1>6 DEF EditSample
<1>7. CASE UNCHANGED vars
  BY <1>7 DEF vars
<1> QED
  BY <1>1, <1>2, <1>3, <1>4, <1>5, <1>6, <1>7 DEF Next, Step

(* A run keeps the text and the embedding it holds until it starts anew;   *)
(* an edit of the file does not reach them.                                *)
LEMMA StepHeld == Inv /\ [Next]_vars => Held'
<1> SUFFICES ASSUME Inv, [Next]_vars PROVE Held'
  OBVIOUS
<1> USE DEF Inv, TypeOK, Held
<1>1. CASE \E r \in Runs : ReadSample(r)
  BY <1>1 DEF ReadSample
<1>2. CASE \E r \in Runs : Embed(r)
  BY <1>2 DEF Embed
<1>3. CASE \E r \in Runs : Commit(r)
  BY <1>3 DEF Commit
<1>4. CASE \E r \in Runs : Fail(r)
  BY <1>4 DEF Fail
<1>5. CASE \E r \in Runs, a \in Argv : Rerun(r, a)
  BY <1>5 DEF Rerun
<1>6. CASE \E p \in Paths, c \in Documents \cup {Unreadable} : EditSample(p, c)
  BY <1>6 DEF EditSample
<1>7. CASE UNCHANGED vars
  BY <1>7 DEF vars
<1> QED
  BY <1>1, <1>2, <1>3, <1>4, <1>5, <1>6, <1>7 DEF Next, Step

(* Only a commit touches the collection. *)
LEMMA OnlyCommitWrites ==
  [Next]_vars => (\E r \in Runs : Commit(r)) \/ UNCHANGED store
BY DEF Next, Step, ReadSample, Embed, Fail, Rerun, EditSample, vars

(* A commit files a record under the digest of its own text.               *)
LEMMA StepSelfDescribing == Inv /\ [Next]_vars => SelfDescribing'
<1> SUFFICES ASSUME Inv, [Next]_vars PROVE SelfDescribing'
  OBVIOUS
<1>1. CASE \E r \in Runs : Commit(r)
  <2>1. PICK r \in Runs : Commit(r)
    BY <1>1
  <2>2. /\ Sha256[code[r]] \in Ids
        /\ store'[Sha256[code[r]]].document = code[r]
        /\ store'[Sha256[code[r]]].embedding = Embedding[code[r]]
        /\ \A i \in Ids \ {Sha256[code[r]]} : store'[i] = store[i]
    BY <2>1, CommitRecord
  <2> QED
    BY <2>2 DEF Inv, SelfDescribing
<1>2. CASE UNCHANGED store
  BY <1>2 DEF Inv, SelfDescribing
<1> QED
  BY <1>1, <1>2, OnlyCommitWrites

(* A later commit under the same digest is of the same text.               *)
LEMMA StepNeverLost == Inv /\ [Next]_vars => NeverLost'
<1> SUFFICES ASSUME Inv, [Next]_vars, NEW q \in Runs, pc'[q] = "stored"
             PROVE  /\ store'[Sha256[code'[q]]] # Absent
                    /\ store'[Sha256[code'[q]]].document = code'[q]
  BY DEF NeverLost
<1>1. CASE \E r \in Runs : Commit(r)
  <2>1. PICK r \in Runs : Commit(r)
    BY <1>1
  <2>2. code' = code /\ (q # r => pc[q] = "stored")
    BY <2>1 DEF Commit, Inv, TypeOK
  <2>3. /\ code[r] \in Documents
        /\ store'[Sha256[code[r]]] # Absent
        /\ store'[Sha256[code[r]]].document = code[r]
        /\ \A i \in Ids \ {Sha256[code[r]]} : store'[i] = store[i]
    BY <2>1, CommitRecord
  <2>4. CASE q = r
    BY <2>2, <2>3, <2>4
  <2>5. CASE q # r
    <3>1. /\ store[Sha256[code[q]]] # Absent
          /\ store[Sha256[code[q]]].document = code[q]
      BY <2>2, <2>5 DEF Inv, NeverLost
    <3>2. code[q] \in Documents /\ Sha256[code[q]] \in Ids
      BY <2>2, <2>5, SampleAssumption DEF Inv, Held
    <3>3. CASE Sha256[code[q]] = Sha256[code[r]]
      BY <2>2, <2>3, <3>2, <3>3, SampleAssumption
    <3>4. CASE Sha256[code[q]] # Sha256[code[r]]
      BY <2>2, <2>3, <3>1, <3>2, <3>4
    <3> QED
      BY <3>3, <3>4
  <2> QED
    BY <2>4, <2>5
<1>2. CASE ~ \E r \in Runs : Commit(r)
  <2>1. UNCHANGED store
    BY <1>2, OnlyCommitWrites
  <2>2. pc[q] = "stored" /\ code'[q] = code[q]
    BY <1>2 DEF Inv, TypeOK, Next, Step, ReadSample, Embed, Fail, Rerun,
               EditSample, vars
  <2> QED
    BY <2>1, <2>2 DEF Inv, NeverLost
<1> QED
  BY <1>1, <1>2

-----------------------------------------------------------------------------
(* The invariant of vecstore.py, from which the theorems below follow. *)
THEOREM Invariance == Spec => []Inv
<1>1. Inv /\ [Next]_vars => Inv'
  BY StepTypeOK, StepHeld, StepSelfDescribing, StepNeverLost DEF Inv
<1> QED
  BY InitInv, <1>1, PTL DEF Spec

(* Every variable of the ingestion keeps its type, in particular a record  *)
(* always has a category, a text and an embedding of some text.            *)
THEOREM TypeCorrect == Spec => []TypeOK
BY Invariance, PTL DEF Inv

(* A record of the collection always holds the text whose digest is its    *)
(* id, with that text's embedding.                                         *)
THEOREM SelfDescription == Spec => []SelfDescribing
BY Invariance, PTL DEF Inv

(* The text of a run that ended well is in the collection ever after.      *)
THEOREM Durability == Spec => []NeverLost
BY Invariance, PTL DEF Inv

-----------------------------------------------------------------------------
(* A run that goes from "upsert" to "stored" has committed. *)
LEMMA StoredByCommit ==
  ASSUME Inv, [Next]_vars, NEW r \in Runs, pc[r] = "upsert", pc'[r] = "stored"
  PROVE  Commit(r)
BY DEF Inv, TypeOK, Next, Step, ReadSample, Embed, Commit, Fail, Rerun,
       EditSample, vars

(* Storing a text again under the category it has leaves the collection    *)
(* exactly as it was, whichever run stored it first.                       *)
THEOREM Idempotence == Spec => RetryIsIdempotent
<1> DEFINE Idempotent ==
      \A r \in Runs :
        LET record == store[Sha256[code[r]]]
        IN  pc[r] = "upsert" /\ pc'[r] = "stored"
              => (record # Absent /\ record.category = argv[r].category
                    => store' = store)
<1>1. Inv /\ [Next]_vars => Idempotent
  <2> SUFFICES ASSUME Inv, [Next]_vars, NEW r \in Runs,
                      pc[r] = "upsert", pc'[r] = "stored",
                      store[Sha256[code[r]]] # Absent,
                      store[Sha256[code[r]]].category = argv[r].category
               PROVE  store' = store
    OBVIOUS
  <2> DEFINE id == Sha256[code[r]]
             old == store[id]
             new == [category |-> argv[r].category, document |-> code[r],
                     embedding |-> Embedding[code[r]]]
  <2>1. Commit(r)
    BY StoredByCommit
  <2>2. code[r] \in Documents /\ id \in Ids /\ embeddings[r] = Embedding[code[r]]
    BY <2>1, SampleAssumption DEF Commit, Inv, Held
  <2>3. old \in Record
    BY <2>2 DEF Inv, TypeOK
  <2>4. old.document = code[r] /\ old.embedding = Embedding[code[r]]
    BY <2>2, <2>3, SampleAssumption DEF Inv, SelfDescribing, Record
  <2>5. old = new
    BY <2>3, <2>4 DEF Record
  <2>6. store' = [store EXCEPT ![id] = old]
    BY <2>1, <2>2, <2>5 DEF Commit
  <2>7. store \in [Ids -> Record \cup {Absent}]
    BY DEF Inv, TypeOK
  <2> QED
    BY <2>6, <2>7
<1>2. Inv /\ [Next]_vars => [Idempotent]_vars
  BY <1>1
<1> QED
  BY <1>2, Invariance, PTL DEF Spec, RetryIsIdempotent

-----------------------------------------------------------------------------
(* A commit is an upsert of the run's text and category, as the rest of    *)
(* the program sees the collection.                                        *)
LEMMA CommitUpserts ==
  ASSUME Inv, NEW r \in Runs, Commit(r)
  PROVE  samples' = [samples EXCEPT ![code[r]] = argv[r].category]
<1>1. /\ code[r] \in Documents
      /\ store'[Sha256[code[r]]] # Absent
      /\ store'[Sha256[code[r]]].category = argv[r].category
      /\ \A i \in Ids \ {Sha256[code[r]]} : store'[i] = store[i]
  BY CommitRecord
<1>2. ASSUME NEW d \in Documents, d # code[r]
      PROVE  store'[Sha256[d]] = store[Sha256[d]]
  BY <1>1, <1>2, SampleAssumption
<1>3. samples' = [d \in Documents |->
                    IF d = code[r] THEN argv[r].category ELSE samples[d]]
  BY <1>1, <1>2 DEF samples
<1> QED
  BY <1>1, <1>3 DEF samples

(* The overlapping, failing and repeated runs of vecstore.py implement a   *)
(* store whose only step is an atomic upsert.                              *)
THEOREM Refinement == Spec => ImplementsStore
<1>1. Init => Store!StoreInit
  BY SampleAssumption DEF Init, Store!StoreInit, samples
<1>2. Inv /\ [Next]_vars => [Store!StoreNext]_samples
  <2> SUFFICES ASSUME Inv, [Next]_vars
               PROVE  Store!StoreNext \/ UNCHANGED samples
    OBVIOUS
  <2>1. CASE \E r \in Runs : Commit(r)
    <3>1. PICK r \in Runs : Commit(r)
      BY <2>1
    <3>2. code[r] \in Documents /\ argv[r].category \in Categories
      BY <3>1 DEF Commit, Inv, Held, TypeOK, Argv
    <3>3. samples' = [samples EXCEPT ![code[r]] = argv[r].category]
      BY <3>1, CommitUpserts
    <3> QED
      BY <3>2, <3>3 DEF Store!StoreNext, Store!Upsert
  <2>2. CASE UNCHANGED store
    BY <2>2 DEF samples
  <2> QED
    BY <2>1, <2>2, OnlyCommitWrites
<1> QED
  BY <1>1, <1>2, Invariance, PTL DEF Spec, ImplementsStore, Store!StoreSpec

=============================================================================
