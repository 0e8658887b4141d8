-------------------------------- MODULE Scan --------------------------------
(***************************************************************************)
(* scan_folder of run.py: os.walk over a folder, classify_file and         *)
(* early_stop on each file, the language model when the neighbours         *)
(* disagree, and one yield per file.  Folders and files may change and     *)
(* samples may be ingested while it runs.                                  *)
(***************************************************************************)
EXTENDS FileTree, SampleStore, Labels

CONSTANTS
  Dist,          \* the distance of the embeddings of two texts
  NResults,      \* n_results of the query, 4 in classify_file
  Answers,       \* the answers the language model can give
  NoFile         \* no file is being classified

ASSUME ScanAssumption ==
  /\ IsFiniteSet(Documents)
  /\ Documents \subseteq Contents   \* the other contents do not decode
  /\ None \notin Categories         \* a category is a text
  /\ NResults \in Nat \ {0}
  /\ Dist \in [Documents -> [Documents -> Nat]]
  /\ \A d, e \in Documents : Dist[d][e] = 0 <=> d = e
  /\ NoFile \notin Files

VARIABLES
  phase,         \* where the generator is
  frontier,      \* folders listed by os.walk and not visited yet
  visited,       \* history: folders taken from the frontier
  unlisted,      \* history: those of them that existed and were not listed
  listing,       \* files of the current folder still to be classified
  file,          \* the file being classified
  text,          \* what classify_file read from it
  category,      \* the local variable of scan_folder
  reported       \* the pairs yielded so far

scanVars == <<phase, frontier, visited, unlisted, listing, file, text, category,
              reported>>
vars == <<treeVars, samples, scanVars>>

Busy == phase \in {"query", "ask", "llm", "yield"}

Init ==
  /\ InitTree
  /\ samples \in [Documents -> Categories \cup {Absent}]
  /\ phase = "walk"
  /\ frontier = {Root} /\ visited = {} /\ unlisted = {} /\ listing = {}
  /\ file = NoFile /\ text = None /\ category = None
  /\ reported = <<>>

-----------------------------------------------------------------------------
(* os.walk goes to a folder it has listed most recently, i.e. depth first; *)
(* the order of the names in a listing is up to the file system.           *)
NextFolder(d) ==
  /\ phase = "walk" /\ listing = {}
  /\ d \in frontier
  /\ \A e \in frontier : Cardinality(Above[e]) <= Cardinality(Above[d])
  /\ visited' = visited \cup {d}
  /\ UNCHANGED <<treeVars, samples, phase, file, text, category, reported>>

Subfolders(d) == {e \in (Dirs \ {Root}) \cap present : Parent[e] = d}
FilesIn(d) == {f \in Files \cap present : Parent[f] = d}

\* The recursive call is iterated instead of dropped.
VisitFolderAndRecurse(d) ==
  /\ NextFolder(d)
  /\ d \in present
  /\ listing' = UNION {FilesIn(e) : e \in Subfolders(d) \cup {d}}
  /\ frontier' = (frontier \ {d}) \cup Subfolders(d)
  /\ UNCHANGED unlisted

\* The subfolders are left to the recursive call.
VisitFolderOnly(d) ==
  /\ NextFolder(d)
  /\ d \in present
  /\ listing' = FilesIn(d)
  /\ frontier' = frontier \ {d}
  /\ UNCHANGED unlisted

(***************************************************************************)
(* os.walk lists a folder when the loop comes to it.  The call             *)
(* scan_folder(sub_folder) at the end of the loop body makes a generator   *)
(* that nobody iterates, so it changes nothing: the subfolders are visited *)
(* by os.walk alone.                                                       *)
(***************************************************************************)
VisitFolder(d) ==
  /\ NextFolder(d)
  /\ d \in present
  /\ listing' = FilesIn(d)
  /\ frontier' = (frontier \ {d}) \cup Subfolders(d)
  /\ UNCHANGED unlisted

(* scandir fails, and os.walk, which has no onerror, says nothing: the     *)
(* folder is gone by then, or it is there and cannot be read (permissions, *)
(* too many open files, an error of the disk).                             *)
SkipFolder(d) ==
  /\ NextFolder(d)
  /\ frontier' = frontier \ {d}
  /\ unlisted' = unlisted \cup ({d} \cap present)
  /\ UNCHANGED listing

Finish ==
  /\ phase = "walk" /\ listing = {} /\ frontier = {}
  /\ phase' = "done"
  /\ UNCHANGED <<treeVars, samples, frontier, visited, unlisted, listing,
                 file, text, category, reported>>

-----------------------------------------------------------------------------
(* open(file_path) and read(): the file still exists and decodes. *)
Readable(f) == f \in present /\ content[f] \in Documents

(* An exception nobody catches ends the generator and the program. *)
Raise ==
  /\ phase' = "raised"
  /\ UNCHANGED <<treeVars, samples, frontier, visited, unlisted, listing,
                 file, text, category, reported>>

(* classify_file reads the next file of the listing. *)
ReadFile(f) ==
  /\ phase = "walk" /\ f \in listing
  /\ Readable(f)
  /\ listing' = listing \ {f}
  /\ file' = f /\ text' = content[f]
  /\ phase' = "query"
  /\ UNCHANGED <<treeVars, samples, frontier, visited, unlisted,
                 category, reported>>

ReadFails ==
  /\ phase = "walk" /\ \E f \in listing : ~ Readable(f)
  /\ Raise

Smaller(m, n) == IF m <= n THEN m ELSE n

(* The neighbours collection.query can return: all samples if there are    *)
(* fewer than n_results, else n_results of them, none farther from the     *)
(* text than one left out.                                                 *)
Nearest ==
  {S \in SUBSET Stored :
     /\ Cardinality(S) = Smaller(NResults, Cardinality(Stored))
     /\ \A s \in S, t \in Stored \ S : Dist[text][s] <= Dist[text][t]}

\* A decision takes as many neighbours as were asked for.
QueryAllFour ==
  /\ phase = "query"
  /\ \E S \in Nearest :
       category' = IF Cardinality(S) < NResults THEN None
                   ELSE early_stop({samples[s] : s \in S})
  /\ phase' = IF category' = None THEN "ask" ELSE "yield"
  /\ UNCHANGED <<treeVars, samples, frontier, visited, unlisted, listing,
                 file, text, reported>>

(* collection.query embeds the text and returns its neighbours; early_stop *)
(* decides on their categories, or the model has to be asked.              *)
Query ==
  /\ phase = "query"
  /\ \E S \in Nearest : category' = early_stop({samples[s] : s \in S})
  /\ phase' = IF category' = None THEN "ask" ELSE "yield"
  /\ UNCHANGED <<treeVars, samples, frontier, visited, unlisted, listing,
                 file, text, reported>>

(* No connection to the embedding model, or no embedding in its response. *)
EmbeddingFails == phase = "query" /\ Raise

(* get_true_category_v2_codellama reads the file once more for its prompt. *)
Ask ==
  /\ phase = "ask"
  /\ Readable(file)
  /\ phase' = "llm"
  /\ UNCHANGED <<treeVars, samples, frontier, visited, unlisted, listing,
                 file, text, category, reported>>

AskFails == phase = "ask" /\ ~ Readable(file) /\ Raise

Reply(answer) ==
  /\ phase = "llm"
  /\ Verdict(answer) # IndexError
  /\ category' = Verdict(answer)
  /\ phase' = "yield"
  /\ UNCHANGED <<treeVars, samples, frontier, visited, unlisted, listing,
                 file, text, reported>>

\* A failed request is repeated, any number of times.
ReplyFailsRetrying ==
  /\ phase = "llm"
  /\ phase' = "ask"
  /\ UNCHANGED <<treeVars, samples, frontier, visited, unlisted, listing,
                 file, text, category, reported>>

(* No connection, an error response, or the IndexError of group(1). *)
ReplyFails == phase = "llm" /\ Raise

Yield ==
  /\ phase = "yield"
  /\ reported' = Append(reported, [file |-> file, label |-> Normalise(category)])
  /\ phase' = "walk"
  /\ file' = NoFile /\ text' = None /\ category' = None
  /\ UNCHANGED <<treeVars, samples, frontier, visited, unlisted, listing>>

-----------------------------------------------------------------------------
Walk == \/ \E d \in Dirs : VisitFolder(d) \/ SkipFolder(d)
        \/ Finish

Classify == \/ \E f \in Files : ReadFile(f)
            \/ ReadFails \/ Query \/ EmbeddingFails
            \/ Ask \/ AskFails \/ ReplyFails
            \/ \E a \in Answers : Reply(a)

(* Other programs: they change the tree and ingest samples. *)
Environment ==
  \/ ChangeTree /\ UNCHANGED <<samples, scanVars>>
  \/ StoreNext /\ UNCHANGED <<treeVars, scanVars>>

ScanStep == Walk \/ Classify \/ Yield

Next == ScanStep \/ Environment

Spec == Init /\ [][Next]_vars

-----------------------------------------------------------------------------
ReportedFiles == {reported[i].file : i \in DOMAIN reported}

(* What scan_folder's variable category can hold once it is decided. *)
Outcomes == Categories \cup {Verdict(a) : a \in Answers}

TypeOK ==
  /\ TreeTypeOK /\ StoreTypeOK
  /\ phase \in {"walk", "query", "ask", "llm", "yield", "done", "raised"}
  /\ frontier \in SUBSET Dirs
  /\ visited \in SUBSET Dirs /\ unlisted \in SUBSET Dirs
  /\ listing \in SUBSET Files
  /\ Busy => file \in Files /\ text \in Documents
  /\ phase = "yield" => category \in Outcomes
  /\ reported \in Seq([file : Files, label : Outcomes \cup {<<"ElipticCurves">>}])

(* How os.walk and the loop over a listing share out the files: a folder   *)
(* is reached through its parent and once; a file waiting in the listing   *)
(* or being classified is in a visited folder and has not been yielded.    *)
WalkDiscipline ==
  /\ frontier \cap visited = {}
  /\ \A d \in (frontier \cup visited) \ {Root} : Parent[d] \in visited
  /\ \A f \in listing \cup ReportedFiles : Parent[f] \in visited
  /\ listing \cap ReportedFiles = {}
  /\ Busy => Parent[file] \in visited /\ file \notin listing \cup ReportedFiles

(* The file is below a folder that os.walk found and could not list. *)
Unlistable(f) == Above[f] \cap unlisted # {}

(* Until the scan ends, a file that existed all along has been yielded, is *)
(* in work, or is below a folder that os.walk has still to visit: nothing  *)
(* that other programs do to the tree takes it out of the walk's reach.    *)
(* What does, and without a word, is a folder above it that is there and   *)
(* cannot be listed.                                                       *)
NothingOverlooked ==
  phase # "raised"
    => \A f \in steady \cap Files :
         \/ f \in ReportedFiles \cup listing
         \/ Busy /\ f = file
         \/ Above[f] \cap frontier # {}
         \/ Unlistable(f)

(* No file is yielded twice, however the tree changes during the walk: the *)
(* generator that scan_folder makes for each subfolder adds nothing.       *)
ReportedOnce ==
  \A i, j \in DOMAIN reported : reported[i].file = reported[j].file => i = j

(* A scan that ends normally has yielded every file that existed all along *)
(* even if other files and folders came and went around it, save those     *)
(* below a folder that could not be listed.                                *)
CompleteScan ==
  phase = "done"
    => \A f \in steady \cap Files : f \in ReportedFiles \/ Unlistable(f)

(* The model is asked only if there is no sample at all or two samples of  *)
(* different categories: a store of fewer than n_results samples that      *)
(* agree still decides alone.                                              *)
ModelAskedOnDissent ==
  [][phase = "query" /\ phase' = "ask"
       => Stored = {} \/ \E s, t \in Stored : samples[s] # samples[t]]_vars

(* A file whose text is itself a stored sample is never labelled by        *)
(* early_stop with another category than that sample's, since the sample   *)
(* is its own nearest neighbour and a single dissent calls the model.      *)
ExactSampleKeepsCategory ==
  [][phase = "query" /\ phase' = "yield" /\ text \in Stored
       => category' = samples[text]]_vars

=============================================================================
