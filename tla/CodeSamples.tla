---------------------------- MODULE CodeSamples -----------------------------
(***************************************************************************)
(* vecstore.py: each run of it reads a file, embeds the text and upserts   *)
(* it into the persistent collection under the SHA-256 of the text.  Runs  *)
(* overlap, files are edited meanwhile, and a run may die at any point and *)
(* be started again.                                                       *)
(***************************************************************************)
CONSTANTS
  Paths,         \* the files samples are taken from
  Documents,     \* texts that decode
  Unreadable,    \* stands for a file that is missing or does not decode
  Categories,    \* the second command line argument
  Ids, Sha256,   \* the digests, and the digest of each text
  Embedding,     \* the embedding of each text
  Absent,        \* stands for "no such record"
  Runs           \* concurrent runs of the program

ASSUME SampleAssumption ==
  /\ Sha256 \in [Documents -> Ids]
  /\ \A d, e \in Documents : Sha256[d] = Sha256[e] => d = e
  /\ Unreadable \notin Documents
  /\ Absent \notin Categories

VARIABLES
  disk,          \* what each path holds
  store,         \* the collection: id -> record
  pc, argv,      \* where each run is, and its arguments
  code,          \* the text a run has read
  embeddings     \* what OllamaEmbedding returned for it

vars == <<disk, store, pc, argv, code, embeddings>>

Vectors == {Embedding[d] : d \in Documents}
Record == [category : Categories, document : Documents, embedding : Vectors]
Argv == [path : Paths, category : Categories]

ASSUME RecordAssumption == Absent \notin Record \cup Vectors \cup Documents

Init ==
  /\ disk \in [Paths -> Documents \cup {Unreadable}]
  /\ store = [i \in Ids |-> Absent]
  /\ pc = [r \in Runs |-> "start"]
  /\ argv \in [Runs -> Argv]
  /\ code = [r \in Runs |-> Absent]
  /\ embeddings = [r \in Runs |-> Absent]

-----------------------------------------------------------------------------
\* The collection is recreated instead of opened.
ReadSampleFresh(r) ==
  /\ pc[r] = "start"
  /\ disk[argv[r].path] \in Documents
  /\ code' = [code EXCEPT ![r] = disk[argv[r].path]]
  /\ pc' = [pc EXCEPT ![r] = "embed"]
  /\ store' = [i \in Ids |-> Absent]
  /\ UNCHANGED <<disk, argv, embeddings>>

(* Open the collection, creating it if need be, and read the file. *)
ReadSample(r) ==
  /\ pc[r] = "start"
  /\ disk[argv[r].path] \in Documents
  /\ code' = [code EXCEPT ![r] = disk[argv[r].path]]
  /\ pc' = [pc EXCEPT ![r] = "embed"]
  /\ UNCHANGED <<disk, store, argv, embeddings>>

(* upsert calls OllamaEmbedding on the documents before it writes. *)
Embed(r) ==
  /\ pc[r] = "embed"
  /\ embeddings' = [embeddings EXCEPT ![r] = Embedding[code[r]]]
  /\ pc' = [pc EXCEPT ![r] = "upsert"]
  /\ UNCHANGED <<disk, store, argv, code>>

\* The document is read from the file again when it is written.
CommitReread(r) ==
  /\ pc[r] = "upsert"
  /\ disk[argv[r].path] \in Documents
  /\ store' = [store EXCEPT ![Sha256[code[r]]] =
                 [category |-> argv[r].category, document |-> disk[argv[r].path],
                  embedding |-> embeddings[r]]]
  /\ pc' = [pc EXCEPT ![r] = "stored"]
  /\ UNCHANGED <<disk, argv, code, embeddings>>

(* The collection replaces the record of that id in one transaction. *)
Commit(r) ==
  /\ pc[r] = "upsert"
  /\ store' = [store EXCEPT ![Sha256[code[r]]] =
                 [category |-> argv[r].category, document |-> code[r],
                  embedding |-> embeddings[r]]]
  /\ pc' = [pc EXCEPT ![r] = "stored"]
  /\ UNCHANGED <<disk, argv, code, embeddings>>

(* A file that cannot be read, "Could not get embedding", a refused        *)
(* connection, a failed transaction, a kill.                               *)
Fail(r) ==
  /\ pc[r] \in {"start", "embed", "upsert"}
  /\ pc' = [pc EXCEPT ![r] = "raised"]
  /\ UNCHANGED <<disk, store, argv, code, embeddings>>

(* The next run on the command line: a retry, or another sample. *)
Rerun(r, a) ==
  /\ pc[r] \in {"stored", "raised"}
  /\ pc' = [pc EXCEPT ![r] = "start"]
  /\ argv' = [argv EXCEPT ![r] = a]
  /\ code' = [code EXCEPT ![r] = Absent]
  /\ embeddings' = [embeddings EXCEPT ![r] = Absent]
  /\ UNCHANGED <<disk, store>>

EditSample(p, c) ==
  /\ disk' = [disk EXCEPT ![p] = c]
  /\ UNCHANGED <<store, pc, argv, code, embeddings>>

Step(r) == ReadSample(r) \/ Embed(r) \/ Commit(r) \/ Fail(r)

Next ==
  \/ \E r \in Runs : Step(r)
  \/ \E r \in Runs, a \in Argv : Rerun(r, a)
  \/ \E p \in Paths, c \in Documents \cup {Unreadable} : EditSample(p, c)

Spec == Init /\ [][Next]_vars

-----------------------------------------------------------------------------
TypeOK ==
  /\ disk \in [Paths -> Documents \cup {Unreadable}]
  /\ store \in [Ids -> Record \cup {Absent}]
  /\ pc \in [Runs -> {"start", "embed", "upsert", "stored", "raised"}]
  /\ argv \in [Runs -> Argv]
  /\ code \in [Runs -> Documents \cup {Absent}]
  /\ embeddings \in [Runs -> Vectors \cup {Absent}]

(* A record is filed under the digest of the very text it holds and with   *)
(* that text's embedding, although the file it came from may change        *)
(* between the read, the embedding and the upsert.                         *)
SelfDescribing ==
  \A i \in Ids : store[i] # Absent
    => /\ Sha256[store[i].document] = i
       /\ store[i].embedding = Embedding[store[i].document]

(* What a run has stored stays stored whatever other runs do, crash or     *)
(* retry: later runs can change its category, never drop the text.         *)
NeverLost ==
  \A r \in Runs : pc[r] = "stored"
    => /\ store[Sha256[code[r]]] # Absent
       /\ store[Sha256[code[r]]].document = code[r]

(* A retry of an ingestion that had already gone through, by this run or   *)
(* by another with the same text and category, leaves the store as it is.  *)
RetryIsIdempotent ==
  [][\A r \in Runs :
       LET record == store[Sha256[code[r]]]
       IN  pc[r] = "upsert" /\ pc'[r] = "stored"
             => (record # Absent /\ record.category = argv[r].category
                   => store' = store)]_vars

(* The collection as the rest of the program sees it. *)
samples == [d \in Documents |->
              IF store[Sha256[d]] = Absent THEN Absent
              ELSE store[Sha256[d]].category]

Store == INSTANCE SampleStore

(* Overlapping, failing and repeated runs amount to atomic upserts of      *)
(* single samples: last writer wins and nothing is ever removed.           *)
ImplementsStore == Store!StoreSpec

=============================================================================
