------------------------------ MODULE FileTree ------------------------------
(***************************************************************************)
(* The folder a scan walks and the files samples are taken from, as other  *)
(* programs change them: an editor, a checkout, a build.  A node is a path *)
(* below the scanned folder; a renamed file is a removal and a creation.   *)
(* The file system is external to the program, which only lists folders    *)
(* and reads files.                                                        *)
(***************************************************************************)
EXTENDS Naturals, FiniteSets

CONSTANTS
  Dirs, Files,   \* the paths that can exist, folders and files
  Root,          \* the folder given to the scan
  Parent,        \* the folder a path is in
  Above,         \* all the folders a path is below
  Contents       \* what a file can contain

Nodes == Dirs \cup Files

(* Above is the chain of folders that Parent describes. *)
ASSUME TreeAssumption ==
  /\ Root \in Dirs /\ Dirs \cap Files = {} /\ IsFiniteSet(Dirs)
  /\ Parent \in [Nodes \ {Root} -> Dirs]
  /\ Above \in [Nodes -> SUBSET Dirs]
  /\ Above[Root] = {}
  /\ \A n \in Nodes \ {Root} : Root \in Above[n] /\ Parent[n] \in Above[n]
  /\ \A n \in Nodes : \A d \in Above[n] :
       /\ Above[d] \subseteq Above[n] /\ d \notin Above[d]
       /\ d = Parent[n] \/ \E e \in Above[n] \ {Root} : Parent[e] = d

VARIABLES
  present,       \* the paths that exist
  content,       \* what each file contains
  steady         \* history: the paths that have existed all along

treeVars == <<present, content, steady>>

Closed(P) == \A n \in P : Above[n] \subseteq P

TreeTypeOK ==
  /\ present \in SUBSET Nodes
  /\ content \in [Files -> Contents]
  /\ steady \in SUBSET Nodes

InitTree ==
  /\ present \in {P \in SUBSET Nodes : Closed(P)}
  /\ content \in [Files -> Contents]
  /\ steady = present

Create(n) ==
  /\ n \notin present /\ Above[n] \subseteq present
  /\ present' = present \cup {n}
  /\ UNCHANGED <<content, steady>>

(* A file, or a folder with all that is below it. *)
Subtree(n) == {m \in Nodes : m = n \/ n \in Above[m]}

Remove(n) ==
  /\ n \in present
  /\ present' = present \ Subtree(n)
  /\ steady' = steady \ Subtree(n)
  /\ UNCHANGED content

Edit(f, c) ==
  /\ f \in present
  /\ content' = [content EXCEPT ![f] = c]
  /\ UNCHANGED <<present, steady>>

ChangeTree ==
  \/ \E n \in Nodes : Create(n) \/ Remove(n)
  \/ \E f \in Files, c \in Contents : Edit(f, c)

=============================================================================
