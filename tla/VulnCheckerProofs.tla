-------------------------- MODULE VulnCheckerProofs --------------------------
(***************************************************************************)
(* Proofs about vuln_checker.py for every working set and every database   *)
(* that changes in any way: what is printed was confirmed by the model,    *)
(* and a check that ends normally has skipped nothing.                     *)
(***************************************************************************)
EXTENDS VulnChecker, TLAPS

Current == phase \in {"vuln", "ask", "report"}

(* A vulnerability that stays listed for a package is asked about already  *)
(* or still ahead: its package is, or the package is being queried, or the *)
(* vulnerability is left of the package, or it is the one in work.         *)
NothingForgotten ==
  phase # "raised"
    => \A p \in Packages, v \in Vulns : <<"PyPI", p, v>> \in steady
         => \/ p \in todo \/ <<p, v>> \in asked
            \/ p = pkg /\ phase = "query"
            \/ p = pkg /\ Current /\ v \in vulns
            \/ p = pkg /\ phase = "ask" /\ v = vuln

(* The program ends after the last package. *)
EndOfCheck == phase = "done" => todo = {}

(* What the generator has yielded is what the model was shown. *)
YieldConfirmed == phase = "report" => <<pkg, vuln, details>> \in confirmed

Inv ==
  /\ TypeOK /\ EndOfCheck /\ NothingForgotten
  /\ YieldConfirmed /\ ReportedAsConfirmed

-----------------------------------------------------------------------------
(* Every package is ahead at the start. *)
LEMMA InitInv == Init => Inv
BY DEF Init, Inv, TypeOK, EndOfCheck, NothingForgotten, YieldConfirmed,
       ReportedAsConfirmed

(* Every step keeps the variables in their types. *)
LEMMA StepTypeOK == TypeOK /\ [Next]_vars => TypeOK'
<1> SUFFICES ASSUME TypeOK, [Next]_vars PROVE TypeOK'
  OBVIOUS
<1> USE DEF TypeOK, osv
<1>1. CASE \E p \in Packages : NextPackage(p)
  BY <1>1 DEF NextPackage
<1>2. CASE \E v \in Vulns : FetchDetails(v)
  BY <1>2 DEF FetchDetails
<1>3. CASE \E a \in Answers : Answer(a)
  BY <1>3 DEF Answer
<1>4. CASE FetchVulns
  BY <1>4 DEF FetchVulns
<1>5. CASE Raise
  BY <1>5 DEF Raise
<1>6. CASE EndPackage
  BY <1>6 DEF EndPackage
<1>7. CASE Report
  <2>1. reports' \in SUBSET [package : Packages, vuln : Vulns, details : Affected]
    BY <1>7 DEF Report, PrintAffected
  <2> QED
    BY <1>7, <2>1 DEF Report
<1>8. CASE Finish
  BY <1>8 DEF Finish
<1>9. CASE Database
  BY <1>9 DEF Database, Publish, Withdraw, Revise
<1>10. CASE UNCHANGED vars
  BY <1>10 DEF vars
<1> QED
  BY <1>1, <1>2, <1>3, <1>4, <1>5, <1>6, <1>7, <1>8, <1>9, <1>10
     DEF Next, Check, FetchFails, AskFails

(* Each vulnerability that stays is handed from the working set to the     *)
(* query, from the query to the list and from there to the model.          *)
LEMMA StepNothingForgotten == Inv /\ [Next]_vars => NothingForgotten'
<1> SUFFICES ASSUME Inv, [Next]_vars, phase' # "raised",
                    NEW p \in Packages, NEW v \in Vulns,
                    <<"PyPI", p, v>> \in steady'
             PROVE  \/ p \in todo' \/ <<p, v>> \in asked'
                    \/ p = pkg' /\ phase' = "query"
                    \/ p = pkg' /\ Current' /\ v \in vulns'
                    \/ p = pkg' /\ phase' = "ask" /\ v = vuln'
  BY DEF NothingForgotten
<1> USE DEF Inv, TypeOK, NothingForgotten, Current, osv
<1>1. CASE \E q \in Packages : NextPackage(q)
  BY <1>1 DEF NextPackage
<1>2. CASE \E w \in Vulns : FetchDetails(w)
  BY <1>2 DEF FetchDetails
<1>3. CASE \E a \in Answers : Answer(a)
  BY <1>3 DEF Answer
<1>4. CASE FetchVulns
  <2>1. <<"PyPI", p, v>> \in listed /\ steady' = steady
    BY <1>4 DEF FetchVulns
  <2>2. p = pkg => v \in vulns'
    BY <1>4, <2>1 DEF FetchVulns, ecosystem_for_language
  <2> QED
    BY <1>4, <2>1, <2>2 DEF FetchVulns
<1>5. CASE EndPackage
  BY <1>5 DEF EndPackage
<1>6. CASE Report
  BY <1>6 DEF Report
<1>7. CASE Finish
  BY <1>7 DEF Finish
<1>8. CASE Database
  BY <1>8 DEF Database, Publish, Withdraw, Revise
<1>9. CASE UNCHANGED vars
  BY <1>9 DEF vars
<1> QED
  BY <1>1, <1>2, <1>3, <1>4, <1>5, <1>6, <1>7, <1>8, <1>9
     DEF Next, Check, FetchFails, AskFails, Raise

(* The record is printed as it was when the model said yes. *)
LEMMA StepConfirmed ==
  Inv /\ [Next]_vars => YieldConfirmed' /\ ReportedAsConfirmed'
<1> SUFFICES ASSUME Inv, [Next]_vars
             PROVE  YieldConfirmed' /\ ReportedAsConfirmed'
  OBVIOUS
<1> USE DEF Inv, YieldConfirmed, ReportedAsConfirmed
<1>1. CASE \E a \in Answers : Answer(a)
  BY <1>1 DEF Answer
<1>2. CASE Report
  BY <1>2 DEF Report, PrintAffected
<1>3. CASE ~ (\E a \in Answers : Answer(a)) /\ ~ Report
  <2>1. /\ UNCHANGED <<confirmed, reports>>
        /\ phase' = "report"
             => phase = "report" /\ UNCHANGED <<pkg, vuln, details>>
    BY <1>3 DEF Next, Check, NextPackage, FetchDetails, FetchVulns, FetchFails,
       EndPackage, AskFails, Finish, Raise, Database, vars
  <2> QED
    BY <2>1
<1> QED
  BY <1>1, <1>2, <1>3

-----------------------------------------------------------------------------
(* The inductive invariant of the check. *)
THEOREM Invariance == Spec => []Inv
<1>1. Inv /\ [Next]_vars => EndOfCheck'
  BY DEF Inv, EndOfCheck, Next, Check, NextPackage, FetchDetails, Answer,
         FetchVulns, FetchFails, EndPackage, AskFails, Report, Finish, Raise,
         Database, vars
<1>2. Inv /\ [Next]_vars => Inv'
  BY <1>1, StepTypeOK, StepNothingForgotten, StepConfirmed DEF Inv
<1> QED
  BY InitInv, <1>2, PTL DEF Spec

(* Every variable of the check keeps its type. *)
THEOREM TypeCorrect == Spec => []TypeOK
BY Invariance, PTL DEF Inv

(* Nothing is printed that the model has not said yes to, in the version   *)
(* of the record it was shown.                                             *)
THEOREM Confirmed == Spec => []ReportedAsConfirmed
BY Invariance, PTL DEF Inv

(* A check that ends normally has asked about every vulnerability that was *)
(* listed throughout for an installed package.                             *)
THEOREM Completeness == Spec => []NoneSkipped
<1>1. Inv => NoneSkipped
  BY DEF Inv, EndOfCheck, NothingForgotten, NoneSkipped, Current
<1> QED
  BY <1>1, Invariance, PTL

=============================================================================
