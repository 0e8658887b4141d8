----------------------------- MODULE ScanProofs -----------------------------
(***************************************************************************)
(* Proofs about scan_folder for every tree, every store and every model:   *)
(* while other programs create, remove and edit files and ingest samples,  *)
(* no file is yielded twice, a scan that ends has yielded every file that  *)
(* stayed in folders that could be listed, and a stored sample's own text  *)
(* keeps its category.  A proof about the evaluation that iterates it: the *)
(* accuracy is over all of these files.  And proofs about the question to  *)
(* the language model: what is made of any answer.                         *)
(***************************************************************************)
EXTENDS Evaluate, ToolCalls, FiniteSetTheorems, WellFoundedInduction, TLAPS

(* The paths that existed all along still exist, with the folders they are *)
(* in: others may remove a folder only with everything below it.           *)
SteadyPresent == steady \subseteq present /\ Closed(steady)

(* The generator ends with nothing left to walk. *)
EndOfWalk == phase = "done" => frontier = {} /\ listing = {}

Inv ==
  /\ TypeOK /\ SteadyPresent /\ EndOfWalk
  /\ WalkDiscipline /\ ReportedOnce /\ NothingOverlooked

-----------------------------------------------------------------------------
(* A scan begins with its root folder to visit, below which every file is. *)
LEMMA InitInv == Init => Inv
<1> SUFFICES ASSUME Init PROVE Inv
  OBVIOUS
<1>1. TypeOK
  BY TreeAssumption DEF Init, InitTree, TypeOK, TreeTypeOK, StoreTypeOK, Busy
<1>2. SteadyPresent
  BY DEF Init, InitTree, SteadyPresent
<1>3. EndOfWalk /\ WalkDiscipline /\ ReportedOnce
  BY DEF Init, EndOfWalk, WalkDiscipline, ReportedOnce, ReportedFiles, Busy
<1>4. NothingOverlooked
  <2> SUFFICES ASSUME NEW f \in steady \cap Files
               PROVE  Above[f] \cap frontier # {}
    BY DEF NothingOverlooked
  <2>1. f \in Nodes \ {Root}
    BY TreeAssumption DEF Nodes
  <2> QED
    BY <2>1, TreeAssumption DEF Init
<1> QED
  BY <1>1, <1>2, <1>3, <1>4 DEF Inv

(* The only step that extends what the generator has yielded is Yield.     *)
LEMMA OnlyYieldReports == [Next]_vars => Yield \/ UNCHANGED reported
BY DEF Next, ScanStep, Walk, Classify, Environment, VisitFolder, SkipFolder,
       NextFolder, Finish, ReadFile, ReadFails, Query, EmbeddingFails, Ask,
       AskFails, Reply, ReplyFails, Raise, vars, scanVars

(* Yield adds the file in work, and no other, at the end. *)
LEMMA YieldReports ==
  ASSUME TypeOK, Yield
  PROVE  /\ file \in Files
         /\ Len(reported) \in Nat
         /\ DOMAIN reported = 1 .. Len(reported)
         /\ DOMAIN reported' = 1 .. Len(reported) + 1
         /\ \A i \in DOMAIN reported : reported'[i] = reported[i]
         /\ reported'[Len(reported) + 1].file = file
         /\ reported' \in Seq([file : Files,
                               label : Outcomes \cup {<<"ElipticCurves">>}])
         /\ ReportedFiles' = ReportedFiles \cup {file}
<1> DEFINE Pair == [file : Files, label : Outcomes \cup {<<"ElipticCurves">>}]
           x == [file |-> file, label |-> Normalise(category)]
<1>1. file \in Files /\ category \in Outcomes /\ reported \in Seq(Pair)
  BY DEF TypeOK, Yield, Busy
<1>2. Normalise(category) \in Outcomes \cup {<<"ElipticCurves">>}
  BY <1>1 DEF Normalise
<1>3. x \in Pair /\ x.file = file
  BY <1>1, <1>2
<1>4. reported' = Append(reported, x)
  BY DEF Yield
<1> HIDE DEF x, Pair
<1>5. /\ Len(reported) \in Nat
      /\ DOMAIN reported = 1 .. Len(reported)
      /\ DOMAIN reported' = 1 .. Len(reported) + 1
      /\ \A i \in DOMAIN reported : reported'[i] = reported[i]
      /\ reported'[Len(reported) + 1] = x
      /\ reported' \in Seq(Pair)
  BY <1>1, <1>3, <1>4
<1>6. ReportedFiles' = ReportedFiles \cup {file}
  BY <1>3, <1>5 DEF ReportedFiles
<1> QED
  BY <1>1, <1>3, <1>5, <1>6 DEF Pair

-----------------------------------------------------------------------------
(* early_stop answers only with a category that all the neighbours have.   *)
LEMMA EarlyStopUnanimous ==
  ASSUME NEW C, early_stop(C) # None
  PROVE  \A c \in C : early_stop(C) = c
BY DEF early_stop

(* It never makes up a category. *)
LEMMA EarlyStopMember ==
  ASSUME NEW C, early_stop(C) # None
  PROVE  early_stop(C) \in C
BY DEF early_stop

(* Every step keeps the variables in their types; the category decided by  *)
(* early_stop is a stored sample's.                                        *)
LEMMA StepTypeOK == TypeOK /\ [Next]_vars => TypeOK'
<1> SUFFICES ASSUME TypeOK, [Next]_vars PROVE TypeOK'
  OBVIOUS
<1> USE DEF TypeOK, TreeTypeOK, StoreTypeOK, Busy, treeVars
<1>1. CASE \E d \in Dirs : VisitFolder(d)
  BY <1>1 DEF VisitFolder, NextFolder, FilesIn, Subfolders
<1>2. CASE \E d \in Dirs : SkipFolder(d)
  BY <1>2 DEF SkipFolder, NextFolder
<1>3. CASE Finish
  BY <1>3 DEF Finish
<1>4. CASE \E f \in Files : ReadFile(f)
  BY <1>4 DEF ReadFile, Readable
<1>5. CASE Raise
  BY <1>5 DEF Raise
<1>6. CASE Query
  <2>1. PICK S \in Nearest : category' = early_stop({samples[s] : s \in S})
    BY <1>6 DEF Query
  <2>2. {samples[s] : s \in S} \subseteq Categories
    BY <2>1 DEF Nearest, Stored
  <2>3. category' # None => category' \in Categories
    BY <2>1, <2>2, EarlyStopMember
  <2> QED
    BY <1>6, <2>3 DEF Query, Outcomes
<1>7. CASE Ask
  BY <1>7 DEF Ask
<1>8. CASE \E a \in Answers : Reply(a)
  BY <1>8 DEF Reply, Outcomes
<1>9. CASE Yield
  <2>1. reported' \in Seq([file : Files,
                            label : Outcomes \cup {<<"ElipticCurves">>}])
    BY <1>9, YieldReports
  <2> QED
    BY <1>9, <2>1 DEF Yield, Outcomes
<1>10. CASE ChangeTree /\ UNCHANGED <<samples, scanVars>>
  BY <1>10, TreeAssumption
     DEF ChangeTree, Create, Remove, Edit, scanVars, Outcomes
<1>11. CASE StoreNext /\ UNCHANGED <<treeVars, scanVars>>
  BY <1>11 DEF StoreNext, Upsert, scanVars, Outcomes
<1>12. CASE UNCHANGED vars
  BY <1>12 DEF vars, scanVars, Outcomes
<1> QED
  BY <1>1, <1>2, <1>3, <1>4, <1>5, <1>6, <1>7, <1>8, <1>9, <1>10, <1>11, <1>12
     DEF Next, ScanStep, Walk, Classify, Environment, ReadFails,
         EmbeddingFails, AskFails, ReplyFails

(* Only other programs change the tree, and they keep it a tree.           *)
LEMMA StepSteadyPresent ==
  TypeOK /\ SteadyPresent /\ [Next]_vars => SteadyPresent'
<1> SUFFICES ASSUME TypeOK, SteadyPresent, [Next]_vars PROVE SteadyPresent'
  OBVIOUS
<1> USE DEF SteadyPresent, Closed
<1>1. CASE \E n \in Nodes : Create(n)
  BY <1>1 DEF Create
<1>2. CASE \E n \in Nodes : Remove(n)
  <2>1. PICK n \in Nodes : Remove(n)
    BY <1>2
  <2>2. steady \subseteq Nodes
    BY DEF TypeOK, TreeTypeOK
  <2>3. ASSUME NEW m \in steady \ Subtree(n), NEW a \in Above[m]
        PROVE  a \in steady \ Subtree(n)
    BY <2>2, TreeAssumption DEF Subtree, Nodes
  <2> QED
    BY <2>1, <2>3 DEF Remove
<1>3. CASE \E f \in Files, c \in Contents : Edit(f, c)
  BY <1>3 DEF Edit
<1>4. CASE UNCHANGED treeVars
  BY <1>4 DEF treeVars
<1> QED
  BY <1>1, <1>2, <1>3, <1>4
     DEF Next, ScanStep, Walk, Classify, Yield, Environment, ChangeTree,
         VisitFolder, SkipFolder, NextFolder, Finish, ReadFile, ReadFails,
         Query, EmbeddingFails, Ask, AskFails, Reply, ReplyFails, Raise, vars

-----------------------------------------------------------------------------
(* A step that neither moves the walk nor takes or yields a file. *)
Aside ==
  /\ UNCHANGED <<frontier, visited, unlisted, listing, reported>>
  /\ steady' \subseteq steady
  /\ Busy' => Busy /\ file' = file
  /\ phase' # "raised" => phase # "raised" /\ (Busy => Busy' /\ file' = file)
  /\ phase' = "done" => phase = "done" \/ (frontier = {} /\ listing = {})

(* Only four actions move the walk or change what is in work. *)
LEMMA StepKinds ==
  ASSUME TypeOK, [Next]_vars
  PROVE  \/ \E d \in Dirs : VisitFolder(d) \/ SkipFolder(d)
         \/ \E f \in Files : ReadFile(f)
         \/ Yield
         \/ Aside
<1> USE DEF Aside, Busy, treeVars
<1>1. CASE Finish
  BY <1>1 DEF Finish
<1>2. CASE Raise
  BY <1>2 DEF Raise
<1>3. CASE Query \/ Ask \/ \E a \in Answers : Reply(a)
  BY <1>3 DEF Query, Ask, Reply
<1>4. CASE Environment
  BY <1>4 DEF Environment, ChangeTree, Create, Remove, Edit, scanVars
<1>5. CASE UNCHANGED vars
  BY <1>5 DEF vars, scanVars
<1> QED
  BY <1>1, <1>2, <1>3, <1>4, <1>5
     DEF Next, ScanStep, Walk, Classify, ReadFails, EmbeddingFails, AskFails,
         ReplyFails

(* A folder that the walk comes to has not been visited, none of its files *)
(* has been yielded, and none of its subfolders has been reached.          *)
LEMMA FolderIsNew ==
  ASSUME TypeOK, WalkDiscipline, NEW d \in frontier
  PROVE  /\ d \in Dirs /\ d \notin visited
         /\ FilesIn(d) \cap ReportedFiles = {}
         /\ Subfolders(d) \cap (visited \cup {d}) = {}
<1>1. d \in Dirs /\ d \notin visited
  BY DEF TypeOK, WalkDiscipline
<1>2. FilesIn(d) \cap ReportedFiles = {}
  BY <1>1 DEF WalkDiscipline, FilesIn
<1>3. ASSUME NEW e \in Subfolders(d) PROVE e \notin visited /\ e # d
  <2>1. e \in Nodes \ {Root} /\ Parent[e] = d
    BY DEF Subfolders, Nodes
  <2>2. d \in Above[e]
    BY <2>1, TreeAssumption
  <2>3. e # d
    BY <2>1, <2>2, TreeAssumption DEF Nodes
  <2>4. e \notin visited
    BY <1>1, <2>1 DEF WalkDiscipline
  <2> QED
    BY <2>3, <2>4
<1> QED
  BY <1>1, <1>2, <1>3

(* The walk reaches each folder once and shares out its files. *)
LEMMA StepWalkDiscipline == Inv /\ [Next]_vars => WalkDiscipline'
<1> SUFFICES ASSUME Inv, [Next]_vars PROVE WalkDiscipline'
  OBVIOUS
<1> USE DEF Inv
<1>1. CASE \E d \in Dirs : VisitFolder(d)
  <2>1. PICK d \in Dirs : VisitFolder(d)
    BY <1>1
  <2>2. /\ d \in frontier /\ phase' = "walk"
        /\ visited' = visited \cup {d}
        /\ listing' = FilesIn(d)
        /\ frontier' = (frontier \ {d}) \cup Subfolders(d)
        /\ unlisted' = unlisted /\ ReportedFiles' = ReportedFiles
    BY <2>1 DEF VisitFolder, NextFolder, ReportedFiles
  <2>3. FilesIn(d) \cap ReportedFiles = {} /\ Subfolders(d) \cap (visited \cup {d}) = {}
    BY <2>2, FolderIsNew
  <2>4. /\ \A e \in Subfolders(d) : Parent[e] = d
        /\ \A f \in FilesIn(d) : Parent[f] = d
    BY DEF Subfolders, FilesIn
  <2> QED
    BY <2>2, <2>3, <2>4 DEF WalkDiscipline, Busy
<1>2. CASE \E d \in Dirs : SkipFolder(d)
  BY <1>2 DEF SkipFolder, NextFolder, WalkDiscipline, ReportedFiles, Busy
<1>3. CASE \E f \in Files : ReadFile(f)
  BY <1>3 DEF ReadFile, WalkDiscipline, ReportedFiles, Busy
<1>4. CASE Yield
  <2>1. ReportedFiles' = ReportedFiles \cup {file}
    BY <1>4, YieldReports
  <2> QED
    BY <1>4, <2>1 DEF Yield, WalkDiscipline, Busy
<1>5. CASE Aside
  BY <1>5 DEF Aside, WalkDiscipline, ReportedFiles
<1> QED
  BY <1>1, <1>2, <1>3, <1>4, <1>5, StepKinds

(* The file that is yielded was in work, so it had not been yielded.       *)
LEMMA StepReportedOnce == Inv /\ [Next]_vars => ReportedOnce'
<1> SUFFICES ASSUME Inv, [Next]_vars PROVE ReportedOnce'
  OBVIOUS
<1>1. CASE Yield
  <2>1. file \notin ReportedFiles
    BY <1>1 DEF Inv, WalkDiscipline, Yield, Busy
  <2>2. \A i \in DOMAIN reported : reported[i].file # file
    BY <2>1 DEF ReportedFiles
  <2> QED
    BY <1>1, <2>2, YieldReports DEF Inv, ReportedOnce
<1>2. CASE UNCHANGED reported
  BY <1>2 DEF Inv, ReportedOnce
<1> QED
  BY <1>1, <1>2, OnlyYieldReports

(* A file that stays is handed from the frontier to a listing, from the    *)
(* listing to classification and from there to the consumer.               *)
LEMMA StepNothingOverlooked == Inv /\ [Next]_vars => NothingOverlooked'
<1> SUFFICES ASSUME Inv, [Next]_vars, phase' # "raised",
                    NEW f \in steady' \cap Files
             PROVE  \/ f \in ReportedFiles' \cup listing'
                    \/ Busy' /\ f = file'
                    \/ Above[f] \cap frontier' # {}
                    \/ Above[f] \cap unlisted' # {}
  BY DEF NothingOverlooked, Unlistable
<1> USE DEF Unlistable
<1>1. CASE \E d \in Dirs : VisitFolder(d)
  <2>1. PICK d \in Dirs : VisitFolder(d)
    BY <1>1
  <2>2. /\ phase = "walk" /\ listing = {} /\ steady' = steady
        /\ listing' = FilesIn(d)
        /\ frontier' = (frontier \ {d}) \cup Subfolders(d)
        /\ unlisted' = unlisted /\ ReportedFiles' = ReportedFiles
    BY <2>1 DEF VisitFolder, NextFolder, treeVars, ReportedFiles
  <2>3. f \in Files /\ f \in Nodes \ {Root} /\ f \in present /\ Above[f] \subseteq present
    BY <2>2, TreeAssumption DEF Inv, SteadyPresent, Closed, Nodes
  <2>4. \/ f \in ReportedFiles \/ Above[f] \cap frontier # {}
        \/ Above[f] \cap unlisted # {}
    BY <2>2 DEF Inv, NothingOverlooked, Busy
  <2>5. CASE d \in Above[f]
    <3>1. d = Parent[f] \/ \E e \in Above[f] \ {Root} : Parent[e] = d
      BY <2>3, <2>5, TreeAssumption
    <3>2. CASE d = Parent[f]
      BY <2>2, <2>3, <3>2 DEF FilesIn
    <3>3. CASE \E e \in Above[f] \ {Root} : Parent[e] = d
      <4>1. PICK e \in Above[f] \ {Root} : Parent[e] = d
        BY <3>3
      <4>2. e \in Dirs
        BY <2>3, TreeAssumption
      <4>3. e \in Subfolders(d)
        BY <2>3, <4>1, <4>2 DEF Subfolders
      <4> QED
        BY <2>2, <4>1, <4>3
    <3> QED
      BY <3>1, <3>2, <3>3
  <2>6. CASE d \notin Above[f]
    BY <2>2, <2>4, <2>6
  <2> QED
    BY <2>5, <2>6
<1>2. CASE \E d \in Dirs : SkipFolder(d)
  <2>1. PICK d \in Dirs : SkipFolder(d)
    BY <1>2
  <2>2. /\ phase = "walk" /\ steady' = steady
        /\ listing' = listing /\ frontier' = frontier \ {d}
        /\ unlisted' = unlisted \cup ({d} \cap present)
        /\ ReportedFiles' = ReportedFiles
    BY <2>1 DEF SkipFolder, NextFolder, treeVars, ReportedFiles
  <2>3. d \in Above[f] => d \in unlisted'
    BY <2>2 DEF Inv, SteadyPresent, Closed
  <2>4. \/ f \in ReportedFiles \cup listing \/ Above[f] \cap frontier # {}
        \/ Above[f] \cap unlisted # {}
    BY <2>2 DEF Inv, NothingOverlooked, Busy
  <2> QED
    BY <2>2, <2>3, <2>4
<1>3. CASE \E g \in Files : ReadFile(g)
  BY <1>3 DEF ReadFile, treeVars, Inv, NothingOverlooked, ReportedFiles, Busy
<1>4. CASE Yield
  <2>1. ReportedFiles' = ReportedFiles \cup {file}
    BY <1>4, YieldReports DEF Inv
  <2> QED
    BY <1>4, <2>1 DEF Yield, treeVars, Inv, NothingOverlooked, Busy
<1>5. CASE Aside
  BY <1>5 DEF Aside, Inv, NothingOverlooked, ReportedFiles
<1> QED
  BY <1>1, <1>2, <1>3, <1>4, <1>5, StepKinds DEF Inv

-----------------------------------------------------------------------------
LEMMA StepInv == Inv /\ [Next]_vars => Inv'
<1>1. Inv /\ [Next]_vars => EndOfWalk'
  <2> SUFFICES ASSUME Inv, [Next]_vars PROVE EndOfWalk'
    OBVIOUS
  <2>1. CASE Aside
    BY <2>1 DEF Aside, Inv, EndOfWalk
  <2> QED
    BY <2>1, StepKinds
       DEF Inv, EndOfWalk, VisitFolder, SkipFolder, NextFolder, ReadFile, Yield
<1> QED
  BY <1>1, StepTypeOK, StepSteadyPresent, StepWalkDiscipline, StepReportedOnce,
     StepNothingOverlooked DEF Inv

(* The inductive invariant of scan_folder. *)
THEOREM Invariance == Spec => []Inv
BY InitInv, StepInv, PTL DEF Spec

(* Every variable of the scan keeps its type: a file in work is one of the *)
(* tree's, what is yielded is a stored category or what the model's answer *)
(* was made into.                                                          *)
THEOREM TypeCorrect == Spec => []TypeOK
BY Invariance, PTL DEF Inv

(* scan_folder never yields a file twice, on any tree that changes in any  *)
(* way during the walk.                                                    *)
THEOREM NoDuplicates == Spec => []ReportedOnce
BY Invariance, PTL DEF Inv

(* os.walk and the loop over a listing share out folders and files.        *)
THEOREM Discipline == Spec => []WalkDiscipline
BY Invariance, PTL DEF Inv

(* A file that stays is never out of the walk's reach before it is yielded,*)
(* unless os.walk found one of its folders and could not list it.          *)
THEOREM Reach == Spec => []NothingOverlooked
BY Invariance, PTL DEF Inv

(* A scan that ends without an exception has yielded every file that       *)
(* existed from its start to its end and is below no folder that could not *)
(* be listed.                                                              *)
THEOREM Completeness == Spec => []CompleteScan
<1>1. Inv => CompleteScan
  BY DEF Inv, EndOfWalk, NothingOverlooked, CompleteScan, Unlistable,
         Busy
<1> QED
  BY <1>1, Invariance, PTL

-----------------------------------------------------------------------------
(* A query of a store that is not empty returns at least one neighbour.    *)
LEMMA SomeNeighbour ==
  ASSUME Stored # {}, NEW S \in Nearest
  PROVE  S # {}
<1>1. IsFiniteSet(Stored) /\ S \subseteq Stored
  BY ScanAssumption, FS_Subset DEF Stored, Nearest
<1>2. Cardinality(Stored) \in Nat /\ Cardinality(Stored) # 0
  BY <1>1, FS_CardinalityType, FS_EmptySet
<1>3. Cardinality(S) # 0
  BY <1>2, ScanAssumption DEF Nearest, Smaller
<1> QED
  BY <1>3, FS_EmptySet

(* A text that is stored is among its own neighbours, since no other is at *)
(* distance zero.                                                          *)
LEMMA OwnNeighbour ==
  ASSUME text \in Stored, NEW S \in Nearest
  PROVE  text \in S
<1> SUFFICES ASSUME text \notin S PROVE FALSE
  OBVIOUS
<1>1. S \subseteq Stored /\ Stored \subseteq Documents
  BY DEF Stored, Nearest
<1>2. PICK s \in S : TRUE
  BY SomeNeighbour
<1>3. Dist[text][s] <= Dist[text][text]
  BY <1>2 DEF Nearest
<1>4. Dist[text][text] = 0 /\ Dist[text][s] \in Nat
  BY <1>1, <1>2, ScanAssumption
<1>5. s = text
  BY <1>1, <1>2, <1>3, <1>4, ScanAssumption
<1> QED
  BY <1>2, <1>5

(* Only a query decides between the neighbours and the model. *)
LEMMA QueryDecides ==
  ASSUME [Next]_vars, phase = "query", phase' \in {"ask", "yield"}
  PROVE  Query
BY DEF Next, ScanStep, Walk, Classify, Yield, Environment, VisitFolder,
       SkipFolder, NextFolder, Finish, ReadFile, ReadFails, EmbeddingFails,
       Ask, AskFails, Reply, ReplyFails, Raise, vars, scanVars

(* early_stop never overrules the category under which the very text of a  *)
(* file is stored, however many samples there are and wherever they lie.   *)
THEOREM OwnSampleDecides == Spec => ExactSampleKeepsCategory
<1> DEFINE Keeps == phase = "query" /\ phase' = "yield" /\ text \in Stored
                      => category' = samples[text]
<1>1. TypeOK /\ [Next]_vars => Keeps
  <2> SUFFICES ASSUME TypeOK, [Next]_vars, phase = "query", phase' = "yield",
                      text \in Stored
               PROVE  category' = samples[text]
    OBVIOUS
  <2>1. Query
    BY QueryDecides
  <2>2. PICK S \in Nearest : category' = early_stop({samples[s] : s \in S})
    BY <2>1 DEF Query
  <2>3. category' # None
    BY <2>1 DEF Query
  <2>4. text \in S
    BY OwnNeighbour
  <2> QED
    BY <2>2, <2>3, <2>4, EarlyStopUnanimous
<1>2. TypeOK /\ [Next]_vars => [Keeps]_vars
  BY <1>1
<1> QED
  BY <1>2, TypeCorrect, PTL DEF Spec, ExactSampleKeepsCategory

(* Samples that agree, however few, always settle the category without the *)
(* model.                                                                  *)
THEOREM DissentOnly == Spec => ModelAskedOnDissent
<1> DEFINE Dissent == Stored = {} \/ \E s, t \in Stored : samples[s] # samples[t]
           Asked == phase = "query" /\ phase' = "ask" => Dissent
<1>1. TypeOK /\ [Next]_vars => Asked
  <2> SUFFICES ASSUME TypeOK, [Next]_vars, phase = "query", phase' = "ask",
                      ~ Dissent
               PROVE  FALSE
    OBVIOUS
  <2>1. Query
    BY QueryDecides
  <2>2. PICK S \in Nearest : category' = early_stop({samples[s] : s \in S})
    BY <2>1 DEF Query
  <2>3. category' = None
    BY <2>1 DEF Query
  <2>4. S \subseteq Stored /\ S # {}
    BY SomeNeighbour DEF Nearest
  <2>5. PICK s \in S : TRUE
    BY <2>4
  <2>6. {samples[t] : t \in S} = {samples[s]}
    BY <2>4, <2>5
  <2>7. samples[s] \in Categories
    BY <2>4, <2>5 DEF Stored, TypeOK, StoreTypeOK
  <2>8. early_stop({samples[s]}) = samples[s]
    BY DEF early_stop
  <2>9. category' = samples[s]
    <3>1. category' = early_stop({samples[s]})
      BY <2>2, <2>6, Zenon
    <3> QED
      BY <3>1, <2>8, Zenon
  <2> QED
    BY <2>3, <2>7, <2>9, ScanAssumption
<1>2. TypeOK /\ [Next]_vars => [Asked]_vars
  BY <1>1
<1> QED
  BY <1>2, TypeCorrect, PTL DEF Spec, ModelAskedOnDissent

-----------------------------------------------------------------------------
(* evaluate.py.  Its tally agrees with what the generator has yielded: a   *)
(* file is counted when it is yielded, as right or as wrong.               *)
LabelTexts == Outcomes \cup {<<"ElipticCurves">>}

Tally ==
  /\ rights \in Seq([file : Files, label : LabelTexts])
  /\ wrongs \in Seq([file : Files, label : LabelTexts,
                     actual : {get_right_category_from_file_name(f) : f \in Files}])
  /\ correct = Len(rights) /\ total = Len(rights) + Len(wrongs)
  /\ Counted = ReportedFiles
  /\ IsFiniteSet(Counted) /\ Cardinality(Counted) = total

Reported == outcome # "running" => phase = "done"

EvalInv == Inv /\ Tally /\ Reported

(* Appending to a sequence adds one element to its range. *)
LEMMA AppendRange ==
  ASSUME NEW S, NEW s \in Seq(S), NEW e \in S
  PROVE  /\ Append(s, e) \in Seq(S)
         /\ Len(Append(s, e)) = Len(s) + 1 /\ Len(s) \in Nat
         /\ Range(Append(s, e)) = Range(s) \cup {e}
<1>1. /\ Append(s, e) \in Seq(S)
      /\ Len(Append(s, e)) = Len(s) + 1 /\ Len(s) \in Nat
      /\ DOMAIN s = 1..Len(s) /\ DOMAIN Append(s, e) = 1..(Len(s) + 1)
      /\ \A i \in 1..Len(s) : Append(s, e)[i] = s[i]
      /\ Append(s, e)[Len(s) + 1] = e
  OBVIOUS
<1> QED
  BY <1>1 DEF Range

LEMMA EvalInitInv == EvalInit => EvalInv
<1> SUFFICES ASSUME EvalInit PROVE EvalInv
  OBVIOUS
<1>1. Inv
  BY InitInv DEF EvalInit
<1>2. Range(rights) = {} /\ Range(wrongs) = {} /\ Len(rights) = 0 /\ Len(wrongs) = 0
  BY DEF EvalInit, Range
<1>3. Counted = {} /\ ReportedFiles = {}
  BY <1>2 DEF EvalInit, Init, Counted, ReportedFiles
<1>4. Tally
  BY <1>2, <1>3, FS_EmptySet DEF EvalInit, Tally
<1>5. Reported
  BY DEF EvalInit, Reported
<1> QED
  BY <1>1, <1>4, <1>5 DEF EvalInv

(* Every step of the evaluation is one of the generator, or none. *)
LEMMA EvalStepScans == [EvalNext]_allVars => [Next]_vars
BY DEF EvalNext, allVars, Next, ScanStep, Iterate, PrintReport

(* A file the loop counts has not been yielded, hence not counted before.  *)
LEMMA IterateTally == EvalInv /\ Iterate => Tally'
<1> SUFFICES ASSUME EvalInv, Iterate PROVE Tally'
  OBVIOUS
<1> DEFINE label == Normalise(category)
           actual == get_right_category_from_file_name(file)
           R == [file : Files, label : LabelTexts]
           W == [file : Files, label : LabelTexts,
                 actual : {get_right_category_from_file_name(f) : f \in Files}]
           x == [file |-> file, label |-> label]
           w == [file |-> file, label |-> label, actual |-> actual]
<1>1. file \in Files /\ label \in LabelTexts
  BY DEF EvalInv, Inv, TypeOK, Iterate, Yield, Busy, Normalise, LabelTexts, Outcomes
<1>2. ReportedFiles' = ReportedFiles \cup {file}
  BY YieldReports DEF EvalInv, Inv, Iterate
<1>3. file \notin ReportedFiles
  BY DEF EvalInv, Inv, WalkDiscipline, Iterate, Yield, Busy
<1>4. /\ file \notin Counted /\ IsFiniteSet(Counted) /\ Cardinality(Counted) = total
      /\ IsFiniteSet(Counted \cup {file})
      /\ Cardinality(Counted \cup {file}) = total + 1
  BY <1>3, FS_AddElement DEF EvalInv, Tally
<1>5. x \in R /\ x.file = file /\ x.label = label
      /\ w \in W /\ w.file = file
  BY <1>1
<1>6. rights \in Seq(R) /\ wrongs \in Seq(W)
  BY DEF EvalInv, Tally
<1>7. /\ correct = Len(rights) /\ total = Len(rights) + Len(wrongs)
      /\ Counted = ReportedFiles
  BY DEF EvalInv, Tally
<1>9. \/ /\ total' = total + 1 /\ correct' = correct + 1
         /\ rights' = Append(rights, x) /\ wrongs' = wrongs
      \/ /\ total' = total + 1 /\ wrongs' = Append(wrongs, w)
         /\ correct' = correct /\ rights' = rights
  BY DEF Iterate, Count, SameLabel
<1>10. LabelTexts' = LabelTexts
  BY DEF LabelTexts, Outcomes
<1> HIDE DEF x, w, R, W, label, actual
<1>11. CASE /\ total' = total + 1 /\ correct' = correct + 1
            /\ rights' = Append(rights, x) /\ wrongs' = wrongs
  <2>1. /\ rights' \in Seq(R) /\ Len(rights') = Len(rights) + 1
        /\ Len(rights) \in Nat /\ Len(wrongs) \in Nat
        /\ Range(rights') = Range(rights) \cup {x} /\ Range(wrongs') = Range(wrongs)
    BY <1>5, <1>6, <1>11, AppendRange
  <2>2. Counted' = Counted \cup {file}
    BY <1>5, <2>1 DEF Counted
  <2>3. correct' = Len(rights') /\ total' = Len(rights') + Len(wrongs')
    BY <1>7, <1>11, <2>1
  <2>4. rights' \in Seq(R) /\ wrongs' \in Seq(W)
    BY <1>6, <1>11, <2>1
  <2> QED
    BY <1>2, <1>4, <1>7, <1>10, <1>11, <2>2, <2>3, <2>4 DEF Tally, R, W
<1>12. CASE /\ total' = total + 1 /\ wrongs' = Append(wrongs, w)
            /\ correct' = correct /\ rights' = rights
  <2>1. /\ wrongs' \in Seq(W) /\ Len(wrongs') = Len(wrongs) + 1
        /\ Len(rights) \in Nat /\ Len(wrongs) \in Nat
        /\ Range(wrongs') = Range(wrongs) \cup {w} /\ Range(rights') = Range(rights)
    BY <1>5, <1>6, <1>12, AppendRange
  <2>2. Counted' = Counted \cup {file}
    BY <1>5, <2>1 DEF Counted
  <2>3. correct' = Len(rights') /\ total' = Len(rights') + Len(wrongs')
    BY <1>7, <1>12, <2>1
  <2>4. rights' \in Seq(R) /\ wrongs' \in Seq(W)
    BY <1>6, <1>12, <2>1
  <2> QED
    BY <1>2, <1>4, <1>7, <1>10, <1>12, <2>2, <2>3, <2>4 DEF Tally, R, W
<1> QED
  BY <1>9, <1>11, <1>12

(* Once the generator has ended it stays so. *)
LEMMA DoneStays == phase = "done" /\ [Next]_vars => phase' = "done"
BY DEF Next, ScanStep, Walk, Classify, Environment, VisitFolder, SkipFolder,
       NextFolder, Finish, ReadFile, ReadFails, Query, EmbeddingFails, Ask,
       AskFails, Reply, ReplyFails, Raise, Yield, vars, scanVars

(* Steps of the scan other than Yield leave what is yielded alone. *)
LEMMA ScanKeepsReported ==
  Walk \/ Classify \/ Environment => UNCHANGED reported
BY DEF Walk, Classify, Environment, VisitFolder, SkipFolder, NextFolder, Finish,
       ReadFile, ReadFails, Query, EmbeddingFails, Ask, AskFails, Reply,
       ReplyFails, Raise, scanVars

LEMMA EvalStepInv == EvalInv /\ [EvalNext]_allVars => EvalInv'
<1> SUFFICES ASSUME EvalInv, [EvalNext]_allVars PROVE EvalInv'
  OBVIOUS
<1>1. [Next]_vars
  BY EvalStepScans
<1>2. Inv'
  BY <1>1, StepInv DEF EvalInv
<1>3. ASSUME UNCHANGED <<reported, total, correct, rights, wrongs>> PROVE Tally'
  BY <1>3 DEF EvalInv, Tally, Counted, ReportedFiles, LabelTexts, Outcomes
<1>4. CASE (Walk \/ Classify \/ Environment) /\ UNCHANGED evalVars
  <2>1. Tally'
    BY <1>3, <1>4, ScanKeepsReported DEF evalVars
  <2>2. Reported'
    BY <1>1, <1>4, DoneStays DEF evalVars, EvalInv, Reported
  <2> QED
    BY <1>2, <2>1, <2>2 DEF EvalInv
<1>5. CASE Iterate
  <2>1. Tally'
    BY <1>5, IterateTally
  <2>2. Reported'
    BY <1>1, <1>5, DoneStays DEF Iterate, EvalInv, Reported
  <2> QED
    BY <1>2, <2>1, <2>2 DEF EvalInv
<1>6. CASE PrintReport
  <2>1. UNCHANGED <<reported, phase, total, correct, rights, wrongs>>
    BY <1>6 DEF PrintReport, vars, scanVars
  <2>2. Reported'
    BY <1>6, <2>1 DEF PrintReport, Reported
  <2> QED
    BY <1>2, <1>3, <2>1, <2>2 DEF EvalInv
<1>7. CASE UNCHANGED allVars
  <2>1. UNCHANGED <<reported, phase, total, correct, rights, wrongs, matrix, outcome>>
    BY <1>7 DEF allVars, vars, scanVars, evalVars
  <2>2. Reported'
    BY <2>1 DEF EvalInv, Reported
  <2> QED
    BY <1>2, <1>3, <2>1, <2>2 DEF EvalInv
<1> QED
  BY <1>4, <1>5, <1>6, <1>7 DEF EvalNext

(* The inductive invariant of the evaluation: the scan's, and that its     *)
(* tally agrees with what the scan has yielded.                            *)
THEOREM EvalInvariance == EvalSpec => []EvalInv
BY EvalInitInv, EvalStepInv, PTL DEF EvalSpec

(* Whatever other programs do to the folder during the evaluation, the     *)
(* accuracy that evaluate.py prints counts every file that stayed below no *)
(* folder that could not be listed, and none more than once.               *)
THEOREM AccuracyComplete == EvalSpec => []AccuracyOverWholeFolder
<1>1. EvalInv => AccuracyOverWholeFolder
  BY DEF EvalInv, Inv, Tally, Reported, AccuracyOverWholeFolder, EndOfWalk,
         NothingOverlooked, Unlistable, Busy
<1> QED
  BY <1>1, EvalInvariance, PTL

(* A set of naturals has a smallest element. *)
LEMMA Smallest ==
  ASSUME NEW T \in SUBSET Nat, T # {}
  PROVE  \E x \in T : \A y \in T : x <= y
<1> DEFINE R == OpToRel(<, Nat)
<1>1. IsWellFoundedOn(R, Nat)
  BY NatLessThanWellFounded
<1>2. \A x, y \in Nat : <<y, x>> \in R <=> y < x
  BY DEF OpToRel
<1> HIDE DEF R
<1>3. PICK x \in T : \A y \in T : ~ (<<y, x>> \in R)
  BY <1>1, WFMin
<1>4. x \in Nat /\ \A y \in T : y \in Nat
  OBVIOUS
<1>5. ASSUME NEW y \in T PROVE x <= y
  <2>1. ~ (y < x)
    BY <1>2, <1>3, <1>4, Zenon
  <2> QED
    BY <1>4, <2>1
<1> QED
  BY <1>5

-----------------------------------------------------------------------------
(***************************************************************************)
(* The question to the language model, which scan_folder asks, and its     *)
(* version with tool calls: the laws of regex.search and str.strip over    *)
(* the categories first, then ToolCalls for every answer that can be given *)
(* in any fragments.                                                       *)
(***************************************************************************)
LEMMA CategoryList ==
  /\ DOMAIN POSSIBLE_CATEGORIES = 1..19
  /\ POSSIBLE_CATEGORIES[1] = <<"hashing">>
  /\ POSSIBLE_CATEGORIES[2] = <<"RSA">>
  /\ POSSIBLE_CATEGORIES[3] = <<"DiffieHellman">>
  /\ POSSIBLE_CATEGORIES[4] = <<"DSA">>
  /\ POSSIBLE_CATEGORIES[5] = <<"ElipticCurves">>
  /\ POSSIBLE_CATEGORIES[6] = <<"ED448">>
  /\ POSSIBLE_CATEGORIES[7] = <<"ED25519">>
  /\ POSSIBLE_CATEGORIES[8] = <<"AES">>
  /\ POSSIBLE_CATEGORIES[9] = <<"Camellia">>
  /\ POSSIBLE_CATEGORIES[10] = <<"ChaCha">>
  /\ POSSIBLE_CATEGORIES[11] = <<"DES">>
  /\ POSSIBLE_CATEGORIES[12] = <<"HMAC">>
  /\ POSSIBLE_CATEGORIES[13] = <<"MD5">>
  /\ POSSIBLE_CATEGORIES[14] = <<"SHA">>
  /\ POSSIBLE_CATEGORIES[15] = <<"NOCRYPTO">>
  /\ POSSIBLE_CATEGORIES[16] = <<"USES_", "AES">>
  /\ POSSIBLE_CATEGORIES[17] = <<"PASSWORD_", "PBKDF2_", "SHA", "256">>
  /\ POSSIBLE_CATEGORIES[18] = <<"PASSWORD_", "BCRYPT">>
  /\ POSSIBLE_CATEGORIES[19] = <<"bcrypt">>
BY DEF POSSIBLE_CATEGORIES

\* Texts the search can look for, and how fragments make one.
Blank == " "

Spelled(p) ==
  /\ Len(p) \in 1..4 /\ DOMAIN p = 1..Len(p)
  /\ \A j \in 1..Len(p) : p[j] # Blank
  /\ p # None /\ p # IndexError /\ \E S : p \in Seq(S)

LEMMA OneFragment ==
  ASSUME NEW a, a # Blank, <<a>> # None, <<a>> # IndexError
  PROVE  Spelled(<<a>>)
<1>1. \E S : <<a>> \in Seq(S)
  <2>1. <<a>> \in Seq({a})
    OBVIOUS
  <2> QED BY <2>1
<1> QED BY <1>1 DEF Spelled

LEMMA TwoFragments ==
  ASSUME NEW a, NEW b, a # Blank, b # Blank
  PROVE  Spelled(<<a, b>>)
<1>1. \A c : <<a, b>> # <<c>>
  OBVIOUS
<1>2. <<a, b>> # None /\ <<a, b>> # IndexError
  BY <1>1, Zenon DEF None, IndexError
<1>3. \E S : <<a, b>> \in Seq(S)
  <2>1. <<a, b>> \in Seq({a, b})
    OBVIOUS
  <2> QED BY <2>1
<1> QED BY <1>2, <1>3 DEF Spelled

LEMMA FourFragments ==
  ASSUME NEW a, NEW b, NEW c, NEW d, a # Blank, b # Blank, c # Blank, d # Blank
  PROVE  Spelled(<<a, b, c, d>>)
<1>1. \A e : <<a, b, c, d>> # <<e>>
  OBVIOUS
<1>2. <<a, b, c, d>> # None /\ <<a, b, c, d>> # IndexError
  BY <1>1, Zenon DEF None, IndexError
<1>3. \E S : <<a, b, c, d>> \in Seq(S)
  <2>1. <<a, b, c, d>> \in Seq({a, b, c, d})
    OBVIOUS
  <2> QED BY <2>1
<1> QED BY <1>2, <1>3 DEF Spelled

LEMMA CategoriesSpelled == \A k \in 1..19 : Spelled(POSSIBLE_CATEGORIES[k])
<1>1. /\ Spelled(POSSIBLE_CATEGORIES[1]) /\ Spelled(POSSIBLE_CATEGORIES[2])
      /\ Spelled(POSSIBLE_CATEGORIES[3]) /\ Spelled(POSSIBLE_CATEGORIES[4])
      /\ Spelled(POSSIBLE_CATEGORIES[5]) /\ Spelled(POSSIBLE_CATEGORIES[6])
      /\ Spelled(POSSIBLE_CATEGORIES[7]) /\ Spelled(POSSIBLE_CATEGORIES[8])
  BY CategoryList, OneFragment, Zenon DEF Blank, None, IndexError
<1>2. /\ Spelled(POSSIBLE_CATEGORIES[9]) /\ Spelled(POSSIBLE_CATEGORIES[10])
      /\ Spelled(POSSIBLE_CATEGORIES[11]) /\ Spelled(POSSIBLE_CATEGORIES[12])
      /\ Spelled(POSSIBLE_CATEGORIES[13]) /\ Spelled(POSSIBLE_CATEGORIES[14])
      /\ Spelled(POSSIBLE_CATEGORIES[15]) /\ Spelled(POSSIBLE_CATEGORIES[19])
  BY CategoryList, OneFragment, Zenon DEF Blank, None, IndexError
<1>3. /\ Spelled(POSSIBLE_CATEGORIES[16]) /\ Spelled(POSSIBLE_CATEGORIES[18])
  BY CategoryList, TwoFragments, Zenon DEF Blank, None, IndexError
<1>4. /\ Spelled(POSSIBLE_CATEGORIES[17])
  BY CategoryList, FourFragments, Zenon DEF Blank, None, IndexError
<1>5. \A k \in 1..19 : \/ k = 1 \/ k = 2 \/ k = 3 \/ k = 4 \/ k = 5 \/ k = 6 \/ k = 7
                         \/ k = 8 \/ k = 9 \/ k = 10 \/ k = 11 \/ k = 12 \/ k = 13
                         \/ k = 14 \/ k = 15 \/ k = 16 \/ k = 17 \/ k = 18 \/ k = 19
  OBVIOUS
<1> QED BY <1>1, <1>2, <1>3, <1>4, <1>5

\* The leftmost of some matches, and there the first alternative.
LEMMA Leftmost ==
  ASSUME NEW H, H # {}, \A h \in H : h[1] \in Nat /\ h[2] \in Nat
  PROVE  \E h \in H : \A g \in H : Precedes(h, g)
<1>1. PICK i \in {h[1] : h \in H} : \A j \in {h[1] : h \in H} : i <= j
  <2>1. {h[1] : h \in H} \in SUBSET Nat /\ {h[1] : h \in H} # {}
    OBVIOUS
  <2> QED BY <2>1, Smallest
<1> DEFINE K == {h[2] : h \in {g \in H : g[1] = i}}
<1>2. K \in SUBSET Nat /\ K # {}
  BY <1>1
<1>3. PICK k \in K : \A l \in K : k <= l
  BY <1>2, Smallest
<1>4. PICK h \in H : h[1] = i /\ h[2] = k
  BY <1>3
<1>5. ASSUME NEW g \in H PROVE Precedes(h, g)
  <2>1. i <= g[1] /\ i \in Nat /\ g[1] \in Nat
    BY <1>1
  <2>2. CASE g[1] = i
    <3>1. k <= g[2]
      BY <1>3, <2>2
    <3> QED BY <1>4, <2>2, <3>1 DEF Precedes
  <2>3. CASE g[1] # i
    BY <1>4, <2>1, <2>3 DEF Precedes
  <2> QED BY <2>2, <2>3
<1> QED BY <1>4, <1>5

LEMMA MatchIs ==
  ASSUME NEW A, NEW t, NEW h \in Occurrences(A, t)
  PROVE  h[1] \in DOMAIN t /\ h[2] \in DOMAIN A /\ OccursAt(A[h[2]], t, h[1])
BY DEF Occurrences

LEMMA IsMatch ==
  ASSUME NEW A, NEW t, NEW i \in DOMAIN t, NEW k \in DOMAIN A, OccursAt(A[k], t, i)
  PROVE  <<i, k>> \in Occurrences(A, t)
BY DEF Occurrences

\* What regex.search returns: the alternative that is leftmost, or None.
LEMMA SearchResult ==
  ASSUME NEW A, NEW t, DOMAIN A \subseteq Nat, DOMAIN t \subseteq Nat
  PROVE  /\ Occurrences(A, t) = {} => Search(A, t) = None
         /\ Occurrences(A, t) # {} =>
              \E h \in Occurrences(A, t) : /\ Search(A, t) = A[h[2]]
                                           /\ \A g \in Occurrences(A, t) : Precedes(h, g)
<1> DEFINE H == Occurrences(A, t)
           F(h) == \A g \in H : Precedes(h, g)
<1>1. \A h \in H : h[1] \in Nat /\ h[2] \in Nat
  BY DEF Occurrences
<1>2. Search(A, t) = IF \E h \in H : F(h) THEN A[(CHOOSE h \in H : F(h))[2]] ELSE None
  BY Zenon DEF Search
<1> HIDE DEF H
<1>3. CASE H = {}
  BY <1>2, <1>3, Zenon DEF H
<1>4. CASE H # {}
  <2>1. \E h \in H : F(h)
    BY <1>1, <1>4, Leftmost
  <2> DEFINE c == CHOOSE h \in H : F(h)
  <2>2. c \in H /\ F(c)
    BY <2>1, Zenon
  <2>3. Search(A, t) = A[c[2]]
    BY <1>2, <2>1, Zenon
  <2> QED BY <1>4, <2>2, <2>3, Zenon DEF H
<1> QED BY <1>3, <1>4

\* Every spelling of SHA contains the category SHA.
LEMMA ShaFound ==
  ASSUME NEW t, DOMAIN t \subseteq Nat, Len(t) \in Nat, Search(SHA_SPELLINGS, t) # None
  PROVE  Occurrences(POSSIBLE_CATEGORIES, t) # {}
<1>1. /\ DOMAIN SHA_SPELLINGS = 1..8
      /\ \A k \in 1..8 : /\ SHA_SPELLINGS[k][1] = "SHA" /\ Len(SHA_SPELLINGS[k]) = 2
                         /\ DOMAIN SHA_SPELLINGS[k] = 1..2
  BY DEF SHA_SPELLINGS
<1>2. PICK h \in Occurrences(SHA_SPELLINGS, t) : TRUE
  BY <1>1, SearchResult
<1>3. h[1] \in DOMAIN t /\ h[2] \in 1..8 /\ OccursAt(SHA_SPELLINGS[h[2]], t, h[1])
  BY <1>1, MatchIs
<1> DEFINE q == SHA_SPELLINGS[h[2]]
<1>4. h[1] + 2 <= Len(t) + 1 /\ t[h[1] + 1 - 1] = "SHA"
  <2>1. q[1] = "SHA" /\ Len(q) = 2 /\ 1 \in DOMAIN q /\ OccursAt(q, t, h[1])
    BY <1>1, <1>3
  <2> HIDE DEF q
  <2> QED BY <2>1 DEF OccursAt
<1>5. /\ Len(POSSIBLE_CATEGORIES[14]) = 1 /\ DOMAIN POSSIBLE_CATEGORIES[14] = 1..1
      /\ POSSIBLE_CATEGORIES[14][1] = "SHA"
  BY CategoryList
<1>6. h[1] + 1 <= Len(t) + 1
  BY <1>3, <1>4
<1>7. OccursAt(POSSIBLE_CATEGORIES[14], t, h[1])
  BY <1>4, <1>5, <1>6 DEF OccursAt
<1>8. 14 \in DOMAIN POSSIBLE_CATEGORIES
  BY CategoryList
<1>9. <<h[1], 14>> \in Occurrences(POSSIBLE_CATEGORIES, t)
  BY <1>3, <1>7, <1>8, IsMatch
<1> QED BY <1>9

\* The first expression finds one of its alternatives whenever the second matches.
LEMMA MatchSpelled ==
  ASSUME NEW t, DOMAIN t \subseteq Nat, Len(t) \in Nat
  PROVE  \/ Search(POSSIBLE_CATEGORIES, t) = None /\ Search(SHA_SPELLINGS, t) = None
         \/ /\ Search(POSSIBLE_CATEGORIES, t) # None
            /\ \E k \in DOMAIN POSSIBLE_CATEGORIES :
                 Search(POSSIBLE_CATEGORIES, t) = POSSIBLE_CATEGORIES[k]
<1>1. DOMAIN POSSIBLE_CATEGORIES \subseteq Nat
  BY CategoryList
<1>2. CASE Occurrences(POSSIBLE_CATEGORIES, t) = {}
  BY <1>1, <1>2, SearchResult, ShaFound
<1>3. CASE Occurrences(POSSIBLE_CATEGORIES, t) # {}
  <2>1. PICK h \in Occurrences(POSSIBLE_CATEGORIES, t) :
               Search(POSSIBLE_CATEGORIES, t) = POSSIBLE_CATEGORIES[h[2]]
    BY <1>1, <1>3, SearchResult
  <2>2. h[2] \in DOMAIN POSSIBLE_CATEGORIES
    BY DEF Occurrences
  <2>3. POSSIBLE_CATEGORIES[h[2]] # None
    BY <2>2, CategoryList, CategoriesSpelled DEF Spelled
  <2> QED BY <2>1, <2>2, <2>3
<1> QED BY <1>2, <1>3

LEMMA FirstWords ==
  [j \in 1..19 |-> POSSIBLE_CATEGORIES[j][1]]
    = <<"hashing", "RSA", "DiffieHellman", "DSA", "ElipticCurves", "ED448", "ED25519",
        "AES", "Camellia", "ChaCha", "DES", "HMAC", "MD5", "SHA", "NOCRYPTO", "USES_",
        "PASSWORD_", "PASSWORD_", "bcrypt">>
BY CategoryList

LEMMA SameFirstWord ==
  ASSUME NEW k \in 1..19, NEW l \in 1..19, k # l,
         POSSIBLE_CATEGORIES[k][1] = POSSIBLE_CATEGORIES[l][1]
  PROVE  k \in {17, 18} /\ l \in {17, 18}
<1> DEFINE word == [j \in 1..19 |-> POSSIBLE_CATEGORIES[j][1]]
<1>1. word[k] = word[l]
  OBVIOUS
<1> QED BY <1>1, FirstWords

\* Two categories differ in their first fragments or in their second ones.
LEMMA CategoriesDiffer ==
  ASSUME NEW k \in 1..19, NEW l \in 1..19,
         POSSIBLE_CATEGORIES[k][1] = POSSIBLE_CATEGORIES[l][1],
         Len(POSSIBLE_CATEGORIES[k]) >= 2 /\ Len(POSSIBLE_CATEGORIES[l]) >= 2
           => POSSIBLE_CATEGORIES[k][2] = POSSIBLE_CATEGORIES[l][2]
  PROVE  k = l
<1>3. k # l => k \in {17, 18} /\ l \in {17, 18}
  BY SameFirstWord
<1>4. /\ Len(POSSIBLE_CATEGORIES[17]) >= 2 /\ Len(POSSIBLE_CATEGORIES[18]) >= 2
      /\ POSSIBLE_CATEGORIES[17][2] # POSSIBLE_CATEGORIES[18][2]
  BY CategoryList
<1> QED BY <1>3, <1>4

\* At one place of a text there is at most one category: none begins another.
LEMMA OneHere ==
  ASSUME NEW k \in 1..19, NEW l \in 1..19, NEW t, NEW i \in Nat,
         OccursAt(POSSIBLE_CATEGORIES[k], t, i), OccursAt(POSSIBLE_CATEGORIES[l], t, i)
  PROVE  k = l
<1> DEFINE p == POSSIBLE_CATEGORIES[k]
           q == POSSIBLE_CATEGORIES[l]
<1>1. Spelled(p) /\ Spelled(q)
  BY CategoriesSpelled
<1> HIDE DEF p, q
<1>2. t[i + 1 - 1] = p[1] /\ (Len(p) >= 2 => t[i + 2 - 1] = p[2])
  <2>1. \A j \in 1..Len(p) : t[i + j - 1] = p[j]
    BY <1>1, Zenon DEF OccursAt, Spelled, p
  <2>2. 1 \in 1..Len(p) /\ (Len(p) >= 2 => 2 \in 1..Len(p))
    BY <1>1 DEF Spelled
  <2> QED BY <2>1, <2>2, Zenon
<1>3. t[i + 1 - 1] = q[1] /\ (Len(q) >= 2 => t[i + 2 - 1] = q[2])
  <2>1. \A j \in 1..Len(q) : t[i + j - 1] = q[j]
    BY <1>1, Zenon DEF OccursAt, Spelled, q
  <2>2. 1 \in 1..Len(q) /\ (Len(q) >= 2 => 2 \in 1..Len(q))
    BY <1>1 DEF Spelled
  <2> QED BY <2>1, <2>2, Zenon
<1>4. p[1] = q[1] /\ (Len(p) >= 2 /\ Len(q) >= 2 => p[2] = q[2])
  BY <1>2, <1>3, Zenon
<1> QED BY <1>4, CategoriesDiffer DEF p, q

\* An answer that is a category is found to be that category.
LEMMA OwnName ==
  ASSUME NEW i \in 1..19
  PROVE  Search(POSSIBLE_CATEGORIES, POSSIBLE_CATEGORIES[i]) = POSSIBLE_CATEGORIES[i]
<1> DEFINE A == POSSIBLE_CATEGORIES
           H == Occurrences(A, A[i])
<1>1. DOMAIN A = 1..19 /\ Len(A[i]) \in 1..4 /\ DOMAIN A[i] = 1..Len(A[i])
  BY CategoryList, CategoriesSpelled DEF Spelled
<1>2. OccursAt(A[i], A[i], 1)
  <2>1. \A j \in 1..4 : 1 + j - 1 = j
    OBVIOUS
  <2> QED BY <1>1, <2>1 DEF OccursAt
<1>3. <<1, i>> \in H
  <2>1. 1 \in DOMAIN A[i] /\ i \in DOMAIN A
    <3> HIDE DEF A
    <3> QED BY <1>1
  <2> QED BY <1>2, <2>1, IsMatch, Zenon
<1>4. DOMAIN A \subseteq Nat /\ DOMAIN A[i] \subseteq Nat /\ H # {}
  BY <1>1, <1>3
<1> HIDE DEF A
<1>5. PICK h \in H : Search(A, A[i]) = A[h[2]] /\ \A g \in H : Precedes(h, g)
  BY <1>4, SearchResult, Zenon
<1>6. h[1] \in DOMAIN A[i] /\ h[2] \in 1..19 /\ OccursAt(A[h[2]], A[i], h[1])
  BY <1>1, MatchIs
<1>7. h[1] = 1
  <2>1. Precedes(h, <<1, i>>) /\ h[1] \in Nat /\ h[1] >= 1
    BY <1>1, <1>3, <1>5, <1>6
  <2> QED BY <2>1 DEF Precedes
<1>8. h[2] = i
  BY <1>2, <1>6, <1>7, OneHere DEF A
<1> QED BY <1>5, <1>8 DEF A

LEMMA FirstAndLast ==
  ASSUME NEW n \in Nat, NEW I \in SUBSET (1..n), I # {}
  PROVE  \E lo, hi \in I : \A i \in I : lo <= i /\ i <= hi
<1>1. PICK lo \in I : \A i \in I : lo <= i
  <2>1. I \in SUBSET Nat
    OBVIOUS
  <2> QED BY <2>1, Smallest
<1>2. PICK d \in {n - i : i \in I} : \A e \in {n - i : i \in I} : d <= e
  <2>1. {n - i : i \in I} \in SUBSET Nat /\ {n - i : i \in I} # {}
    OBVIOUS
  <2> QED BY <2>1, Smallest
<1>3. PICK hi \in I : d = n - hi
  OBVIOUS
<1>4. \A i \in I : i <= hi
  <2>1. \A i \in I : d <= n - i
    BY <1>2
  <2> QED BY <1>3, <2>1
<1> QED BY <1>1, <1>4

\* What str.strip leaves: nothing of blanks, else all from the first to the last
\* fragment that is no blank.
LEMMA Stripped ==
  ASSUME NEW S, NEW t \in Seq(S)
  PROVE  \/ Strip(t) = <<>> /\ \A i \in 1..Len(t) : t[i] = Blank
         \/ \E lo, hi \in 1..Len(t) :
              /\ t[lo] # Blank /\ t[hi] # Blank
              /\ \A i \in 1..Len(t) : t[i] # Blank => lo <= i /\ i <= hi
              /\ Strip(t) = SubSeq(t, lo, hi)
<1> DEFINE ink == {i \in DOMAIN t : t[i] # Blank}
           Lo(i) == \A j \in ink : i <= j
           Hi(i) == \A j \in ink : j <= i
<1>1. Strip(t) = IF ink = {} THEN <<>>
                 ELSE SubSeq(t, CHOOSE i \in ink : Lo(i), CHOOSE i \in ink : Hi(i))
  BY Zenon DEF Strip, Blank
<1>2. DOMAIN t = 1..Len(t) /\ Len(t) \in Nat
  OBVIOUS
<1>3. \A i : i \in ink <=> i \in 1..Len(t) /\ t[i] # Blank
  BY <1>2
<1>4. ink \in SUBSET (1..Len(t))
  BY <1>3
<1> HIDE DEF ink
<1>5. CASE ink = {}
  BY <1>1, <1>3, <1>5
<1>6. CASE ink # {}
  <2>1. (\E i \in ink : Lo(i)) /\ (\E i \in ink : Hi(i))
    BY <1>2, <1>4, <1>6, FirstAndLast
  <2> DEFINE lo == CHOOSE i \in ink : Lo(i)
             hi == CHOOSE i \in ink : Hi(i)
  <2>2. lo \in ink /\ Lo(lo) /\ hi \in ink /\ Hi(hi)
    BY <2>1, Zenon
  <2>3. Strip(t) = SubSeq(t, lo, hi)
    BY <1>1, <1>6, Zenon
  <2> HIDE DEF lo, hi
  <2> QED BY <1>3, <2>2, <2>3
<1> QED BY <1>5, <1>6

LEMMA StripInSeq ==
  ASSUME NEW S, NEW t \in Seq(S)
  PROVE  Strip(t) \in Seq(S)
<1>1. CASE Strip(t) = <<>>
  BY <1>1
<1>2. ASSUME NEW lo \in 1..Len(t), NEW hi \in 1..Len(t), Strip(t) = SubSeq(t, lo, hi)
      PROVE  Strip(t) \in Seq(S)
  BY <1>2
<1> QED BY <1>1, <1>2, Stripped

LEMMA FirstOfOne ==
  ASSUME NEW S, NEW t \in Seq(S), Len(t) = 1
  PROVE  t[1] \in S
OBVIOUS

LEMMA OneWord == \E w : IndexError = <<w>>
BY Zenon DEF IndexError

LEMMA Prefixed ==
  ASSUME NEW w, NEW m, Spelled(m)
  PROVE  <<w>> \o m # IndexError
<1>1. PICK S : m \in Seq(S)
  BY DEF Spelled
<1>2. <<w>> \in Seq({w} \cup S) /\ m \in Seq({w} \cup S) /\ Len(m) \in 1..4
  BY <1>1 DEF Spelled
<1>3. Len(<<w>> \o m) = 1 + Len(m)
  BY <1>2
<1>4. Len(IndexError) = 1
  BY OneWord
<1> QED BY <1>2, <1>3, <1>4

LEMMA OccursThen ==
  ASSUME NEW p, Spelled(p), NEW t, NEW i \in Nat, OccursAt(p, t, i)
  PROVE  /\ \A j \in 1..Len(p) : t[i + j - 1] = p[j] /\ t[i + j - 1] # Blank
         /\ i + Len(p) <= Len(t) + 1 /\ Len(p) \in Nat /\ Len(p) >= 1
<1>1. \A j \in 1..Len(p) : t[i + j - 1] = p[j] /\ t[i + j - 1] # Blank
  BY Zenon DEF Spelled, OccursAt
<1>2. i + Len(p) <= Len(t) + 1
  BY Zenon DEF OccursAt
<1> QED BY <1>1, <1>2 DEF Spelled

LEMMA OccursIf ==
  ASSUME NEW p, Spelled(p), NEW t, NEW i \in Nat, i + Len(p) <= Len(t) + 1,
         \A j \in 1..Len(p) : t[i + j - 1] = p[j]
  PROVE  OccursAt(p, t, i)
BY Zenon DEF Spelled, OccursAt

\* What is stripped off holds no part of a category.
LEMMA StripOccurs ==
  ASSUME NEW S, NEW t \in Seq(S), NEW lo \in 1..Len(t), NEW hi \in 1..Len(t), lo <= hi,
         \A i \in 1..Len(t) : t[i] # Blank => lo <= i /\ i <= hi,
         NEW u, u = SubSeq(t, lo, hi), NEW p, Spelled(p)
  PROVE  /\ \A i \in 1..Len(u) : OccursAt(p, u, i) => OccursAt(p, t, i + lo - 1)
         /\ \A i \in 1..Len(t) : OccursAt(p, t, i) =>
              i - lo + 1 \in 1..Len(u) /\ OccursAt(p, u, i - lo + 1)
<1>1. Len(u) = hi - lo + 1 /\ \A i \in 1..(hi - lo + 1) : u[i] = t[lo + i - 1]
  OBVIOUS
<1>2. Len(t) \in Nat
  OBVIOUS
<1>3. ASSUME NEW i \in 1..Len(u), OccursAt(p, u, i) PROVE OccursAt(p, t, i + lo - 1)
  <2>0. i \in Nat
    BY <1>1, <1>3
  <2>1. /\ \A j \in 1..Len(p) : u[i + j - 1] = p[j] /\ u[i + j - 1] # Blank
        /\ i + Len(p) <= Len(u) + 1 /\ Len(p) \in Nat /\ Len(p) >= 1
    <3>1. \A j \in 1..Len(p) : u[i + j - 1] = p[j] /\ p[j] # Blank
      BY <1>3, Zenon DEF OccursAt, Spelled
    <3>2. i + Len(p) <= Len(u) + 1
      BY <1>3, Zenon DEF OccursAt
    <3>3. Len(p) \in Nat /\ Len(p) >= 1
      BY DEF Spelled
    <3> QED BY <3>1, <3>2, <3>3, Zenon
  <2>2. i + lo - 1 \in Nat /\ (i + lo - 1) + Len(p) <= Len(t) + 1
    BY <1>1, <1>2, <2>0, <2>1
  <2>3. ASSUME NEW j \in 1..Len(p) PROVE t[(i + lo - 1) + j - 1] = p[j]
    <3>1. i + j - 1 \in 1..(hi - lo + 1) /\ lo + (i + j - 1) - 1 = (i + lo - 1) + j - 1
      BY <1>1, <2>1
    <3>2. u[i + j - 1] = t[lo + (i + j - 1) - 1]
      BY <1>1, <3>1, Zenon
    <3> QED BY <2>1, <3>1, <3>2
  <2> QED BY <2>2, <2>3, OccursIf
<1>4. ASSUME NEW i \in 1..Len(t), OccursAt(p, t, i)
      PROVE  i - lo + 1 \in 1..Len(u) /\ OccursAt(p, u, i - lo + 1)
  <2>1. /\ \A j \in 1..Len(p) : t[i + j - 1] = p[j] /\ t[i + j - 1] # Blank
        /\ i + Len(p) <= Len(t) + 1 /\ Len(p) \in Nat /\ Len(p) >= 1
    BY <1>4, OccursThen
  <2>2. ASSUME NEW j \in 1..Len(p) PROVE lo <= i + j - 1 /\ i + j - 1 <= hi
    <3>1. i + j - 1 \in 1..Len(t)
      BY <1>2, <2>1
    <3> QED BY <2>1, <3>1, Zenon
  <2>3. lo <= i /\ i + Len(p) - 1 <= hi
    <3>1. 1 \in 1..Len(p) /\ Len(p) \in 1..Len(p)
      BY <2>1
    <3>2. lo <= i + 1 - 1 /\ i + Len(p) - 1 <= hi
      BY <2>2, <3>1, Zenon
    <3> QED BY <3>2
  <2>4. i - lo + 1 \in 1..Len(u) /\ i - lo + 1 \in Nat /\ (i - lo + 1) + Len(p) <= Len(u) + 1
    BY <1>1, <2>1, <2>3
  <2>5. ASSUME NEW j \in 1..Len(p) PROVE u[(i - lo + 1) + j - 1] = p[j]
    <3>1. (i - lo + 1) + j - 1 \in 1..(hi - lo + 1) /\ lo + ((i - lo + 1) + j - 1) - 1 = i + j - 1
      BY <1>1, <2>1, <2>2
    <3>2. u[(i - lo + 1) + j - 1] = t[lo + ((i - lo + 1) + j - 1) - 1]
      BY <1>1, <3>1, Zenon
    <3> QED BY <2>1, <3>1, <3>2
  <2> QED BY <2>4, <2>5, OccursIf
<1> QED BY <1>3, <1>4

\* The category that the first expression finds in an answer.
Found(a) == Search(POSSIBLE_CATEGORIES, Strip(a))

\* Stripping an answer does not change what is found in it.
LEMMA StripSearch ==
  ASSUME NEW S, NEW t \in Seq(S)
  PROVE  Found(t) = Search(POSSIBLE_CATEGORIES, t)
<1> DEFINE A == POSSIBLE_CATEGORIES
           H == Occurrences(A, t)
<1>1. /\ DOMAIN A \subseteq Nat /\ DOMAIN t \subseteq Nat /\ DOMAIN t = 1..Len(t) /\ Len(t) \in Nat
      /\ \A k \in DOMAIN A : Spelled(A[k])
  BY CategoryList, CategoriesSpelled
<1> HIDE DEF A
<1>2. CASE Strip(t) = <<>> /\ \A i \in 1..Len(t) : t[i] = Blank
  <2>1. H = {}
    <3> SUFFICES ASSUME NEW h \in H PROVE FALSE
      OBVIOUS
    <3>1. h[1] \in 1..Len(t) /\ Spelled(A[h[2]]) /\ OccursAt(A[h[2]], t, h[1])
      BY <1>1, MatchIs
    <3>2. t[h[1] + 1 - 1] # Blank
      BY <1>1, <3>1, OccursThen
    <3> QED BY <1>2, <3>1, <3>2
  <2>2. DOMAIN Strip(t) = {} /\ DOMAIN Strip(t) \subseteq Nat
    BY <1>2
  <2>3. Occurrences(A, Strip(t)) = {}
    BY <2>2, MatchIs
  <2>4. Search(A, t) = None /\ Search(A, Strip(t)) = None
    BY <1>1, <2>1, <2>2, <2>3, SearchResult
  <2> QED BY <2>4 DEF A, Found
<1>3. ASSUME NEW lo \in 1..Len(t), NEW hi \in 1..Len(t), t[lo] # Blank,
             \A i \in 1..Len(t) : t[i] # Blank => lo <= i /\ i <= hi,
             Strip(t) = SubSeq(t, lo, hi)
      PROVE  Found(t) = Search(POSSIBLE_CATEGORIES, t)
  <2> DEFINE u == SubSeq(t, lo, hi)
             G == Occurrences(A, u)
  <2>1. lo <= hi /\ u \in Seq(S)
    BY <1>3
  <2>2. DOMAIN u = 1..Len(u) /\ Len(u) \in Nat /\ DOMAIN u \subseteq Nat
    BY <2>1
  <2>3. ASSUME NEW k \in DOMAIN A
        PROVE  /\ \A i \in 1..Len(u) : OccursAt(A[k], u, i) => OccursAt(A[k], t, i + lo - 1)
               /\ \A i \in 1..Len(t) : OccursAt(A[k], t, i) =>
                    i - lo + 1 \in 1..Len(u) /\ OccursAt(A[k], u, i - lo + 1)
    BY <1>1, <1>3, <2>1, StripOccurs
  <2>4. ASSUME NEW g \in G PROVE <<g[1] + lo - 1, g[2]>> \in H
    <3>1. g[1] \in 1..Len(u) /\ g[2] \in DOMAIN A /\ OccursAt(A[g[2]], u, g[1])
      BY <2>2, MatchIs
    <3>2. g[1] + lo - 1 \in DOMAIN t
      BY <1>1, <2>1, <3>1
    <3> QED BY <2>3, <3>1, <3>2, IsMatch
  <2>5. ASSUME NEW h \in H PROVE <<h[1] - lo + 1, h[2]>> \in G
    <3>1. h[1] \in 1..Len(t) /\ h[2] \in DOMAIN A /\ OccursAt(A[h[2]], t, h[1])
      BY <1>1, MatchIs
    <3>2. h[1] - lo + 1 \in DOMAIN u /\ OccursAt(A[h[2]], u, h[1] - lo + 1)
      BY <2>2, <2>3, <3>1
    <3> QED BY <3>1, <3>2, IsMatch
  <2>6. \A g \in G : g[1] \in Nat /\ g[2] \in Nat
    BY <1>1, <2>2, MatchIs
  <2>7. \A h \in H : h[1] \in Nat /\ h[2] \in Nat
    BY <1>1, MatchIs
  <2>8. Found(t) = Search(A, u)
    BY <1>3 DEF Found, A
  <2> HIDE DEF u, G, H
  <2>9. CASE G = {}
    <3>1. H = {}
      BY <2>5, <2>9
    <3>2. Search(A, t) = None /\ Search(A, u) = None
      BY <1>1, <2>2, <2>9, <3>1, SearchResult DEF G, H
    <3> QED BY <2>8, <3>2 DEF A
  <2>10. CASE G # {}
    <3>1. PICK g \in G : Search(A, u) = A[g[2]] /\ \A x \in G : Precedes(g, x)
      BY <1>1, <2>2, <2>10, SearchResult DEF G
    <3>2. H # {}
      BY <2>4, <3>1
    <3>3. PICK h \in H : Search(A, t) = A[h[2]] /\ \A x \in H : Precedes(h, x)
      BY <1>1, <3>2, SearchResult DEF H
    <3>4. Precedes(g, <<h[1] - lo + 1, h[2]>>) /\ Precedes(h, <<g[1] + lo - 1, g[2]>>)
      BY <2>4, <2>5, <3>1, <3>3
    <3>5. g[1] \in Nat /\ g[2] \in Nat /\ h[1] \in Nat /\ h[2] \in Nat
      BY <2>6, <2>7
    <3>6. g[2] = h[2]
      <4>1. \/ g[1] < h[1] - lo + 1
            \/ g[1] = h[1] - lo + 1 /\ g[2] <= h[2]
        BY <3>4 DEF Precedes
      <4>2. \/ h[1] < g[1] + lo - 1
            \/ h[1] = g[1] + lo - 1 /\ h[2] <= g[2]
        BY <3>4 DEF Precedes
      <4>3. \A a, b, c, d \in Nat :
              (a < c - lo + 1 \/ (a = c - lo + 1 /\ b <= d)) =>
                ((c < a + lo - 1 \/ (c = a + lo - 1 /\ d <= b)) => b = d)
        OBVIOUS
      <4> QED BY <3>5, <4>1, <4>2, <4>3, Zenon
    <3> QED BY <2>8, <3>1, <3>3, <3>6 DEF A
  <2> QED BY <2>9, <2>10
<1> QED BY <1>2, <1>3, Stripped

LEMMA AppendOccurs ==
  ASSUME NEW n \in Nat, NEW t, NEW u, Len(t) = n, Len(u) = n + 1, \A i \in 1..n : u[i] = t[i],
         NEW p, Spelled(p), NEW i \in 1..(n + 1), i + Len(p) <= n + 1
  PROVE  i \in 1..n /\ (OccursAt(p, u, i) <=> OccursAt(p, t, i))
<1>1. i \in Nat /\ Len(p) \in Nat /\ Len(p) >= 1 /\ i + Len(p) <= Len(t) + 1 /\ i + Len(p) <= Len(u) + 1
  BY DEF Spelled
<1>2. \A j \in 1..Len(p) : i + j - 1 \in 1..n
  BY <1>1
<1>3. \A j \in 1..Len(p) : u[i + j - 1] = t[i + j - 1]
  BY <1>2
<1>4. ASSUME OccursAt(p, u, i) PROVE OccursAt(p, t, i)
  <2>1. \A j \in 1..Len(p) : u[i + j - 1] = p[j]
    BY <1>4, Zenon DEF OccursAt, Spelled
  <2> QED BY <1>1, <1>3, <2>1, OccursIf
<1>5. ASSUME OccursAt(p, t, i) PROVE OccursAt(p, u, i)
  <2>1. \A j \in 1..Len(p) : t[i + j - 1] = p[j]
    BY <1>5, Zenon DEF OccursAt, Spelled
  <2> QED BY <1>1, <1>3, <2>1, OccursIf
<1>6. i \in 1..n
  BY <1>1
<1> QED BY <1>4, <1>5, <1>6

\* The text u ends in a match of after that begins before all those of before.
Completes(u, after, t, before) ==
  LET start == Len(u) - Len(after) + 1
  IN  /\ OccursAt(after, u, start)
      /\ \A i \in DOMAIN t : OccursAt(before, t, i) => start < i

LEMMA Later ==
  ASSUME NEW S, NEW t \in Seq(S), NEW f \in S, NEW u, u = Append(t, f),
         NEW before, before = Search(POSSIBLE_CATEGORIES, t), before # None,
         NEW after, after = Search(POSSIBLE_CATEGORIES, u), after # before
  PROVE  Completes(u, after, t, before)
<1> DEFINE start == Len(u) - Len(after) + 1
<1>0. start = Len(u) - Len(after) + 1
  OBVIOUS
<1> HIDE DEF start
<1> DEFINE A == POSSIBLE_CATEGORIES
           H == Occurrences(A, t)
           G == Occurrences(A, u)
<1>1. /\ DOMAIN A = 1..19 /\ DOMAIN A \subseteq Nat /\ DOMAIN t \subseteq Nat /\ DOMAIN t = 1..Len(t)
      /\ Len(t) \in Nat /\ \A k \in DOMAIN A : Spelled(A[k])
  <2>1. DOMAIN A = 1..19
    BY CategoryList
  <2>2. \A k \in 1..19 : Spelled(A[k])
    BY CategoriesSpelled
  <2>3. DOMAIN t = 1..Len(t) /\ Len(t) \in Nat
    OBVIOUS
  <2>4. \A n \in Nat : 1..n \subseteq Nat
    OBVIOUS
  <2>5. DOMAIN A \subseteq Nat /\ DOMAIN t \subseteq Nat
    BY <2>1, <2>3, <2>4
  <2> QED BY <2>1, <2>2, <2>3, <2>5, Zenon
<1>2. /\ u \in Seq(S) /\ Len(u) = Len(t) + 1 /\ DOMAIN u = 1..Len(u) /\ DOMAIN u \subseteq Nat
      /\ \A i \in 1..Len(t) : u[i] = t[i]
  OBVIOUS
<1>3. ASSUME NEW k \in DOMAIN A, NEW i \in 1..Len(u), i + Len(A[k]) <= Len(t) + 1
      PROVE  i \in DOMAIN t /\ (OccursAt(A[k], u, i) <=> OccursAt(A[k], t, i))
  BY <1>1, <1>2, <1>3, AppendOccurs
<1>4. ASSUME NEW i \in DOMAIN t, NEW k \in DOMAIN A, OccursAt(A[k], t, i)
      PROVE  OccursAt(A[k], u, i) /\ i \in DOMAIN u /\ <<i, k>> \in G
  <2>0. i \in Nat /\ i \in 1..Len(u) /\ Spelled(A[k])
    <3>1. \A n \in Nat : \A j \in 1..n : j \in Nat /\ j \in 1..(n + 1)
      OBVIOUS
    <3> QED BY <1>1, <1>2, <1>4, <3>1, Zenon
  <2>1. i \in 1..Len(u) /\ i + Len(A[k]) <= Len(t) + 1
    BY <1>4, <2>0, OccursThen, Zenon
  <2>2. OccursAt(A[k], u, i)
    BY <1>3, <1>4, <2>1
  <2> QED BY <1>2, <2>1, <2>2, IsMatch
<1>5. PICK h \in H : before = A[h[2]] /\ \A x \in H : Precedes(h, x)
  BY <1>1, SearchResult
<1>6. /\ h[1] \in DOMAIN t /\ h[2] \in DOMAIN A /\ OccursAt(A[h[2]], t, h[1])
      /\ h[1] \in Nat /\ h[2] \in Nat
  BY <1>1, MatchIs
<1>7. <<h[1], h[2]>> \in G
  BY <1>4, <1>6
<1>8. PICK g \in G : after = A[g[2]] /\ \A x \in G : Precedes(g, x)
  BY <1>1, <1>2, <1>7, SearchResult
<1>9. /\ g[1] \in DOMAIN u /\ g[2] \in DOMAIN A /\ OccursAt(A[g[2]], u, g[1])
      /\ g[1] \in Nat /\ g[2] \in Nat
  BY <1>1, <1>2, MatchIs
<1>10. g[2] # h[2] /\ Spelled(after)
  BY <1>1, <1>5, <1>8, <1>9
<1> HIDE DEF A
<1>11. ~ (g[1] + Len(after) <= Len(t) + 1)
  <2> SUFFICES ASSUME g[1] + Len(after) <= Len(t) + 1 PROVE FALSE
    OBVIOUS
  <2>1. g[1] \in DOMAIN t /\ OccursAt(A[g[2]], t, g[1])
    BY <1>2, <1>3, <1>8, <1>9
  <2>2. <<g[1], g[2]>> \in H
    BY <1>9, <2>1, IsMatch
  <2>3. Precedes(h, <<g[1], g[2]>>) /\ Precedes(g, <<h[1], h[2]>>)
    BY <1>5, <1>7, <1>8, <2>2
  <2> QED BY <1>6, <1>9, <1>10, <2>3 DEF Precedes
<1>12. g[1] + Len(after) <= Len(u) + 1 /\ Len(after) \in Nat
  BY <1>8, <1>9, <1>10, OccursThen
<1>13. start = g[1]
  <2>1. \A n, x, y \in Nat : x + y <= (n + 1) + 1 /\ ~ (x + y <= n + 1) => (n + 1) - y + 1 = x
    OBVIOUS
  <2> QED BY <1>1, <1>2, <1>0, <1>9, <1>11, <1>12, <2>1, Zenon
<1>14. ASSUME NEW i \in DOMAIN t, OccursAt(before, t, i) PROVE start < i
  <2>1. OccursAt(A[h[2]], u, i) /\ <<i, h[2]>> \in G /\ i \in Nat
    BY <1>1, <1>4, <1>5, <1>6, <1>14
  <2>2. Precedes(g, <<i, h[2]>>)
    BY <1>8, <2>1
  <2>3. g[1] # i
    BY <1>1, <1>6, <1>9, <1>10, <2>1, OneHere DEF A
  <2> QED BY <1>9, <1>13, <2>1, <2>2, <2>3 DEF Precedes
<1>15. OccursAt(after, u, start)
  BY <1>8, <1>9, <1>13
<1> QED BY <1>14, <1>15, Zenon DEF Completes, start

-----------------------------------------------------------------------------
\* What the two versions of the question make of a text.
LEMMA VerdictIs ==
  ASSUME NEW a, NEW m, m = Search(POSSIBLE_CATEGORIES, Strip(a))
  PROVE  /\ Verdict(a) = IF m # None THEN <<"LLM ">> \o m
                         ELSE IF Search(SHA_SPELLINGS, Strip(a)) # None THEN IndexError ELSE Strip(a)
         /\ FromText(Strip(a)) = IF m # None THEN m
                                 ELSE IF Search(SHA_SPELLINGS, Strip(a)) # None THEN IndexError
                                 ELSE Strip(a)
BY Zenon DEF Verdict, FromText

\* What is made of an answer is never the exception.
LEMMA VerdictOf ==
  ASSUME NEW a \in Seq(Fragments)
  PROVE  \/ /\ Verdict(a) = <<"LLM ">> \o Found(a)
            /\ FromText(Strip(a)) = Found(a)
            /\ Found(a) # IndexError /\ <<"LLM ">> \o Found(a) # IndexError
            /\ \E k \in DOMAIN POSSIBLE_CATEGORIES : Found(a) = POSSIBLE_CATEGORIES[k]
         \/ /\ Verdict(a) = Strip(a)
            /\ FromText(Strip(a)) = Strip(a)
            /\ Found(a) = None /\ Strip(a) # IndexError
<1> DEFINE m == Found(a)
<1>0. m = Search(POSSIBLE_CATEGORIES, Strip(a))
  BY DEF Found
<1> HIDE DEF m
<1> DEFINE t == Strip(a)
<1>1. t \in Seq(Fragments)
  BY StripInSeq
<1>2. DOMAIN t \subseteq Nat /\ Len(t) \in Nat
  BY <1>1
<1> HIDE DEF t
<1>3. t # IndexError
  <2>1. t = IndexError => Len(t) = 1 /\ t = <<t[1]>>
    BY OneWord
  <2>2. Len(t) = 1 => t[1] \in Fragments
    BY <1>1, FirstOfOne
  <2> QED BY <2>1, <2>2, ToolCallsAssumption
<1>4. CASE m = None
  <2>1. Search(SHA_SPELLINGS, t) = None
    BY <1>0, <1>2, <1>4, MatchSpelled DEF t
  <2> QED BY <1>3, <1>4, <1>0, <2>1, VerdictIs DEF t, m
<1>5. CASE m # None
  <2>1. PICK k \in DOMAIN POSSIBLE_CATEGORIES : m = POSSIBLE_CATEGORIES[k]
    BY <1>0, <1>2, <1>5, MatchSpelled DEF t
  <2>2. Spelled(m)
    BY <2>1, CategoryList, CategoriesSpelled
  <2>3. m # IndexError /\ <<"LLM ">> \o m # IndexError
    BY <2>2, Prefixed DEF Spelled
  <2> QED BY <1>5, <2>1, <1>0, <2>3, VerdictIs DEF t, m
<1> QED BY <1>4, <1>5

\* While the model answers its text grows by fragments; what is returned is made of it.
Answering ==
  /\ message \in Seq(Fragments)
  /\ stage # "IndexError"
  /\ stage = "returned" /\ calls = <<>> => result = FromText(Strip(message))

LEMMA AnswerInvariance == AskSpec => []Answering
<1>1. AskInit => Answering
  BY DEF AskInit, Answering
<1>2. ASSUME Answering, [AskNext]_askVars PROVE Answering'
  <2>1. CASE Generate
    <3>1. message' \in Seq(Fragments)
      BY <1>2, <2>1 DEF Generate, Answering
    <3> QED BY <1>2, <2>1, <3>1 DEF Generate, Answering
  <2>2. CASE Respond
    BY <1>2, <2>2 DEF Respond, Answering
  <2>3. CASE RequestFails
    BY <1>2, <2>3 DEF RequestFails, Answering
  <2>4. CASE CallTool
    BY <1>2, <2>4 DEF CallTool, Answering
  <2>5. CASE CallFails
    BY <1>2, <2>5 DEF CallFails, Answering
  <2>6. CASE ParseContent
    <3>1. message \in Seq(Fragments) /\ message' = message
      BY <1>2, <2>6 DEF ParseContent, Answering
    <3>2. FromText(Strip(message)) # IndexError
      BY <3>1, VerdictOf
    <3> QED BY <1>2, <2>6, <3>1, <3>2 DEF ParseContent, Answering
  <2>7. CASE UNCHANGED askVars
    BY <1>2, <2>7 DEF askVars, Answering
  <2> QED BY <1>2, <2>1, <2>2, <2>3, <2>4, <2>5, <2>6, <2>7 DEF AskNext
<1> QED BY <1>1, <1>2, PTL DEF AskSpec

\* Whatever the model writes, group(1) of the expression without groups is never asked
\* for, an answer that is a category is reported as this one, and both versions of the
\* question make the same of a text; no answer is the stand-in for the exception.
THEOREM VerdictsRight == AskSpec => []TextVerdict
<1>1. ASSUME Answering PROVE TextVerdict
  <2> DEFINE t == Strip(message)
             m == Found(message)
             v == Verdict(message)
  <2>1. \/ /\ v = <<"LLM ">> \o m /\ FromText(Strip(message)) = m
           /\ <<"LLM ">> \o m # IndexError
           /\ \E k \in DOMAIN POSSIBLE_CATEGORIES : m = POSSIBLE_CATEGORIES[k]
        \/ /\ v = t /\ FromText(Strip(message)) = t
           /\ m = None /\ t # IndexError
    BY <1>1, VerdictOf, Zenon DEF Answering
  <2>2. v # IndexError
    BY <2>1
  <2>3. ASSUME NEW i \in DOMAIN POSSIBLE_CATEGORIES, t = POSSIBLE_CATEGORIES[i]
        PROVE  v = <<"LLM ">> \o POSSIBLE_CATEGORIES[i]
    <3>1. i \in 1..19 /\ POSSIBLE_CATEGORIES[i] # None
      BY CategoryList, CategoriesSpelled DEF Spelled
    <3>2. m = POSSIBLE_CATEGORIES[i]
      BY <2>3, <3>1, OwnName DEF Found
    <3> QED BY <2>1, <3>1, <3>2
  <2>4. ASSUME stage = "returned", calls = <<>>
        PROVE  \/ v = result
               \/ /\ v = <<"LLM ">> \o result
                  /\ \E i \in DOMAIN POSSIBLE_CATEGORIES : POSSIBLE_CATEGORIES[i] = result
    <3>1. result = FromText(Strip(message))
      BY <1>1, <2>4 DEF Answering
    <3> QED BY <2>1, <3>1
  <2>5. stage # "IndexError" /\ Strip(message) = t
    BY <1>1 DEF Answering
  <2> HIDE DEF t, m, v
  <2> QED BY <2>2, <2>3, <2>4, <2>5, Zenon DEF TextVerdict, v
<1> QED BY <1>1, AnswerInvariance, PTL

\* What follows the first category in an answer does not change the verdict
\* unless it completes a longer name that began earlier.
THEOREM LeftmostKept == AskSpec => LaterWordsIgnored
<1> DEFINE Text == message \in Seq(Fragments)
<1>1. ASSUME Text, [AskNext]_askVars
      PROVE  [LET before == Search(POSSIBLE_CATEGORIES, Strip(message))
                  after  == Search(POSSIBLE_CATEGORIES, Strip(message'))
                  start  == Len(message') - Len(after) + 1
              IN  before # None /\ after # before
                    => /\ OccursAt(after, message', start)
                       /\ \A i \in DOMAIN message :
                            OccursAt(before, message, i) => start < i]_message
  <2> SUFFICES ASSUME message' # message, Found(message) # None, Found(message') # Found(message)
               PROVE  Completes(message', Found(message'), message, Found(message))
    BY Zenon DEF Completes, Found
  <2>1. message \in Seq(Fragments)
    BY <1>1
  <2>2. PICK f \in Fragments : message' = Append(message, f)
    BY <1>1 DEF AskNext, askVars, Generate, Respond, RequestFails, CallTool, CallFails,
      ParseContent
  <2>3. message' \in Seq(Fragments)
    BY <2>1, <2>2
  <2>4. /\ Found(message) = Search(POSSIBLE_CATEGORIES, message)
        /\ Found(message') = Search(POSSIBLE_CATEGORIES, message')
    BY <2>1, <2>3, StripSearch
  <2> QED BY <2>1, <2>2, <2>4, Later
<1>2. AskInit => Text
  BY DEF AskInit
<1>3. Text /\ [AskNext]_askVars => Text'
  BY DEF AskNext, askVars, Generate, Respond, RequestFails,
    CallTool, CallFails, ParseContent
<1> HIDE DEF Text
<1> QED BY <1>1, <1>2, <1>3, PTL DEF AskSpec, LaterWordsIgnored

=============================================================================
