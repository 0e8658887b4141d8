------------------------------ MODULE Evaluate ------------------------------
(***************************************************************************)
(* evaluate.py: it iterates scan_folder over the examples, compares each   *)
(* label with the name of the folder the file is in, and prints a          *)
(* confusion matrix and the accuracy once the scan has ended.              *)
(***************************************************************************)
EXTENDS Scan, Functions

CONSTANT DirName       \* the last component of each folder's path, a text

ASSUME DirNameAssumption == \A d \in Dirs : DirName[d] \in Seq(STRING)

VARIABLES
  total, correct,      \* counters
  rights, wrongs,      \* the files labelled right and wrong, in order
  matrix,              \* the confusion matrix
  outcome              \* "running", "printed" or the exception at the end

evalVars == <<total, correct, rights, wrongs, matrix, outcome>>
allVars == <<vars, evalVars>>

EvalInit ==
  /\ Init
  /\ total = 0 /\ correct = 0
  /\ rights = <<>> /\ wrongs = <<>>
  /\ matrix = <<>> /\ outcome = "running"

(* split('.')[0] of the folder's name: what stands before the first dot. *)
BeforeDot(name) ==
  LET dots == {i \in DOMAIN name : name[i] = "."}
  IN  IF dots = {} THEN name
      ELSE SubSeq(name, 1, (CHOOSE i \in dots : \A j \in dots : i <= j) - 1)

get_right_category_from_file_name(f) == BeforeDot(DirName[Parent[f]])

-----------------------------------------------------------------------------
SameLabel(label, actual) == label = actual

\* A wrong label is only collected when the file has none on record yet.
CountUnlessSeen(f, label) ==
  LET actual == get_right_category_from_file_name(f)
  IN  \/ /\ SameLabel(label, actual)
         /\ total' = total + 1 /\ correct' = correct + 1
         /\ rights' = Append(rights, [file |-> f, label |-> label])
         /\ UNCHANGED wrongs
      \/ /\ ~ SameLabel(label, actual)
         /\ total' = total + 1
         /\ wrongs' = IF wrongs # <<>> THEN wrongs
                      ELSE <<[file |-> f, label |-> label, actual |-> actual]>>
         /\ UNCHANGED <<correct, rights>>

(* The body of the loop for one pair yielded by scan_folder. *)
Count(f, label) ==
  LET actual == get_right_category_from_file_name(f)
  IN  \/ /\ SameLabel(label, actual)
         /\ total' = total + 1 /\ correct' = correct + 1
         /\ rights' = Append(rights, [file |-> f, label |-> label])
         /\ UNCHANGED wrongs
      \/ /\ ~ SameLabel(label, actual)
         /\ total' = total + 1
         /\ wrongs' = Append(wrongs, [file |-> f, label |-> label, actual |-> actual])
         /\ UNCHANGED <<correct, rights>>

(* The generator yields and the loop body runs before it is resumed. *)
Iterate ==
  /\ Yield
  /\ Count(file, Normalise(category))
  /\ UNCHANGED <<matrix, outcome>>

(* One row per label of a right file, one column per folder of a wrong     *)
(* file; an entry counts the pairs of a right and a wrong that are the     *)
(* same file.                                                              *)
ConfusionMatrix(rs, ws) ==
  [p \in {x.label : x \in Range(rs)} |->
     [a \in {w.actual : w \in Range(ws)} |->
        Cardinality({h \in (DOMAIN rs) \X (DOMAIN ws) :
                       /\ rs[h[1]].label = p /\ ws[h[2]].actual = a
                       /\ rs[h[1]].file = ws[h[2]].file})]]

(* correct/total after the matrix has been printed. *)
PrintReport ==
  /\ phase = "done" /\ outcome = "running"
  /\ matrix' = ConfusionMatrix(rights, wrongs)
  /\ outcome' = IF total = 0 THEN "ZeroDivisionError" ELSE "printed"
  /\ UNCHANGED <<vars, total, correct, rights, wrongs>>

EvalNext ==
  \/ (Walk \/ Classify \/ Environment) /\ UNCHANGED evalVars
  \/ Iterate
  \/ PrintReport

EvalSpec == EvalInit /\ [][EvalNext]_allVars

(* The program runs until it ends, and every request to a model server is  *)
(* answered or fails; nothing is assumed of the environment.               *)
EvalFairSpec ==
  /\ EvalSpec
  /\ WF_allVars((Walk \/ Classify) /\ UNCHANGED evalVars)
  /\ WF_allVars(Iterate \/ PrintReport)

-----------------------------------------------------------------------------
Counted == {x.file : x \in Range(rights)} \cup {w.file : w \in Range(wrongs)}

(* The accuracy that is printed is over the files of the folder: each one  *)
(* that existed all along is in it, save those below a folder that could   *)
(* not be listed, and none weighs more than once.  So the division by      *)
(* total fails only if no file stayed in a folder that could be listed.    *)
AccuracyOverWholeFolder ==
  outcome # "running"
    => /\ \A f \in steady \cap Files : f \in Counted \/ Unlistable(f)
       /\ total = Cardinality(Counted)
       /\ correct = Len(rights) /\ total = Len(rights) + Len(wrongs)

(* What the comment announces, a confusion matrix for the categories: once *)
(* it is printed, and has a row because some label was right, a file with  *)
(* a wrong label shows in it, as an entry that is not zero in the column   *)
(* of the folder the file is in.                                           *)
MatrixShowsWrongs ==
  outcome = "printed" /\ rights # <<>>
    => \A w \in Range(wrongs) :
         \E p \in DOMAIN matrix : /\ w.actual \in DOMAIN matrix[p]
                                  /\ matrix[p][w.actual] > 0

(* The evaluation ends, by its report or by an exception, whatever other   *)
(* programs do to the folder and to the store meanwhile: no failed request *)
(* is repeated for ever, and a finite set of paths is walked once.         *)
EvaluationEnds == <>(phase = "raised" \/ outcome # "running")

=============================================================================
