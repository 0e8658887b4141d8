----------------------------- MODULE VulnChecker -----------------------------
(***************************************************************************)
(* vuln_checker.py: for each installed package it asks the OSV database    *)
(* for vulnerabilities, fetches each one, asks the language model whether  *)
(* it concerns the algorithm RSA, and if so compares the versions.  The    *)
(* database changes meanwhile, and any request may fail.                   *)
(*                                                                         *)
(* The module uses the names requests, Client and options and binds none   *)
(* of them.  globals says which of them are bound where it runs: none in   *)
(* the file as it stands.                                                  *)
(***************************************************************************)
EXTENDS Labels

CONSTANTS
  Packages, Installed,   \* the working set, and the version of each package
  Vulns,                 \* identifiers in the database
  Affected,              \* the values a vulnerability's "affected" can have
  NoVersions,            \* an affected package without the key "versions"
  Listable,              \* the <<ecosystem, package, vulnerability>> possible
  Answers,               \* the answers of the model
  NoPackage, NoVuln      \* nothing is being checked

Names == {"requests", "Client", "options"}

VARIABLES
  listed, affected,      \* the database: what it lists, and its records
  steady,                \* history: what it has listed all along
  globals,               \* the names that are bound
  phase,                 \* where the program is
  todo, pkg,             \* packages to check, and the one being checked
  vulns, vuln,           \* vulnerabilities left of it, and the current one
  details,               \* what was fetched of the current one
  asked, confirmed,      \* history: questions, and those answered yes
  reports                \* what was printed

osv == <<listed, affected, steady>>
vars == <<osv, globals, phase, todo, pkg, vulns, vuln, details, asked,
          confirmed, reports>>

Init ==
  /\ listed \in SUBSET Listable
  /\ affected \in [Vulns -> Affected]
  /\ steady = listed
  /\ globals \in SUBSET Names
  /\ phase = "package"
  /\ todo = Packages /\ pkg = NoPackage
  /\ vulns = {} /\ vuln = NoVuln /\ details = <<>>
  /\ asked = {} /\ confirmed = {} /\ reports = {}

-----------------------------------------------------------------------------
ecosystem_for_language(language) ==
  IF language = "python" THEN "PyPI"
  ELSE IF language = "java" THEN "maven" ELSE "npm"

(* The loop over the working set comes to a package. *)
NextPackage(p) ==
  /\ phase = "package" /\ p \in todo
  /\ todo' = todo \ {p} /\ pkg' = p
  /\ phase' = "query"
  /\ UNCHANGED <<osv, globals, vulns, vuln, details, asked, confirmed, reports>>

Finish ==
  /\ phase = "package" /\ todo = {}
  /\ phase' = "done"
  /\ UNCHANGED <<osv, globals, todo, pkg, vulns, vuln, details, asked,
                 confirmed, reports>>

(* An exception that nobody catches ends the program. *)
Raise ==
  /\ phase' = "raised"
  /\ UNCHANGED <<osv, globals, todo, pkg, vulns, vuln, details, asked,
                 confirmed, reports>>

(* VulnerabilityChecker(name, "python") posts its query. *)
FetchVulns ==
  /\ phase = "query" /\ "requests" \in globals
  /\ vulns' = {v \in Vulns :
                 <<ecosystem_for_language("python"), pkg, v>> \in listed}
  /\ phase' = "vuln"
  /\ UNCHANGED <<osv, globals, todo, pkg, vuln, details, asked, confirmed,
                 reports>>

\* The vulnerability stays among those to fetch.
FetchDetailsKeeping(v) ==
  /\ phase = "vuln" /\ v \in vulns /\ "requests" \in globals
  /\ vuln' = v
  /\ details' = affected[v]
  /\ phase' = "ask"
  /\ UNCHANGED <<osv, globals, todo, pkg, vulns, asked, confirmed, reports>>

(* vulns_for_algorithm fetches the next vulnerability. *)
FetchDetails(v) ==
  /\ phase = "vuln" /\ v \in vulns /\ "requests" \in globals
  /\ vulns' = vulns \ {v} /\ vuln' = v
  /\ details' = affected[v]
  /\ phase' = "ask"
  /\ UNCHANGED <<osv, globals, todo, pkg, asked, confirmed, reports>>

(* No connection, a status other than 200, or the name is not bound. *)
FetchFails ==
  /\ phase = "query" \/ (phase = "vuln" /\ vulns # {})
  /\ Raise

EndPackage ==
  /\ phase = "vuln" /\ vulns = {}
  /\ phase' = "package" /\ pkg' = NoPackage
  /\ UNCHANGED <<osv, globals, todo, vulns, vuln, details, asked, confirmed,
                 reports>>

(* str.lower on the fragments an answer is made of. *)
Lower(text) ==
  [i \in DOMAIN text |-> IF text[i] \in {"Yes", "YES"} THEN "yes" ELSE text[i]]

Bound == {"Client", "options"} \subseteq globals

\* The package is given up at the first vulnerability that does not matter.
AnswerGivingUp(a) ==
  /\ phase = "ask" /\ Bound
  /\ asked' = asked \cup {<<pkg, vuln>>}
  /\ \/ /\ Strip(Lower(a)) = <<"yes">>
        /\ confirmed' = confirmed \cup {<<pkg, vuln, details>>}
        /\ phase' = "report" /\ UNCHANGED vulns
     \/ /\ Strip(Lower(a)) # <<"yes">>
        /\ phase' = "vuln" /\ vulns' = {} /\ UNCHANGED confirmed
  /\ UNCHANGED <<osv, globals, todo, pkg, vuln, details, reports>>

(* The model answers; only "yes" alone makes the generator yield. *)
Answer(a) ==
  /\ phase = "ask" /\ Bound
  /\ asked' = asked \cup {<<pkg, vuln>>}
  /\ \/ /\ Strip(Lower(a)) = <<"yes">>
        /\ confirmed' = confirmed \cup {<<pkg, vuln, details>>}
        /\ phase' = "report"
     \/ /\ Strip(Lower(a)) # <<"yes">>
        /\ phase' = "vuln" /\ UNCHANGED confirmed
  /\ UNCHANGED <<osv, globals, todo, pkg, vulns, vuln, details, reports>>

(* No connection, an error of the server, or a name that is not bound. *)
AskFails == phase = "ask" /\ Raise

-----------------------------------------------------------------------------
(* The loop over the affected packages gets as far as the first without    *)
(* versions, where the test for membership raises TypeError.               *)
Compared(entries) ==
  {i \in DOMAIN entries : \A j \in 1 .. i : entries[j].versions # NoVersions}

PrintAffected(entries) ==
  reports' = reports \cup
    {[package |-> pkg, vuln |-> vuln, details |-> entries] :
       i \in {j \in Compared(entries) : Installed[pkg] \in entries[j].versions}}

\* The versions are compared with the database's record of the moment.
ReportRefetched ==
  /\ phase = "report"
  /\ PrintAffected(affected[vuln])
  /\ phase' = IF Compared(affected[vuln]) = DOMAIN affected[vuln]
              THEN "vuln" ELSE "raised"
  /\ UNCHANGED <<osv, globals, todo, pkg, vulns, vuln, details, asked, confirmed>>

(* The body of the main loop for a vulnerability that was yielded. *)
Report ==
  /\ phase = "report"
  /\ PrintAffected(details)
  /\ phase' = IF Compared(details) = DOMAIN details THEN "vuln" ELSE "raised"
  /\ UNCHANGED <<osv, globals, todo, pkg, vulns, vuln, details, asked, confirmed>>

(* The database is maintained by others. *)
Publish(l) ==
  /\ l \notin listed
  /\ listed' = listed \cup {l} /\ UNCHANGED <<affected, steady>>

Withdraw(l) ==
  /\ l \in listed
  /\ listed' = listed \ {l} /\ steady' = steady \ {l} /\ UNCHANGED affected

Revise(v, e) ==
  /\ affected' = [affected EXCEPT ![v] = e] /\ UNCHANGED <<listed, steady>>

Database ==
  /\ \/ \E l \in Listable : Publish(l) \/ Withdraw(l)
     \/ \E v \in Vulns, e \in Affected : Revise(v, e)
  /\ UNCHANGED <<globals, phase, todo, pkg, vulns, vuln, details, asked,
                 confirmed, reports>>

Check ==
  \/ \E p \in Packages : NextPackage(p)
  \/ \E v \in Vulns : FetchDetails(v)
  \/ \E a \in Answers : Answer(a)
  \/ FetchVulns \/ FetchFails \/ EndPackage \/ AskFails \/ Report \/ Finish

Next == Check \/ Database

Spec == Init /\ [][Next]_vars

(* The program runs on, and every request is answered or fails. *)
FairSpec == Spec /\ WF_vars(Check)

-----------------------------------------------------------------------------
TypeOK ==
  /\ listed \in SUBSET Listable /\ steady \in SUBSET listed
  /\ affected \in [Vulns -> Affected]
  /\ globals \in SUBSET Names
  /\ phase \in {"package", "query", "vuln", "ask", "report", "done", "raised"}
  /\ todo \in SUBSET Packages
  /\ phase \in {"query", "vuln", "ask", "report"} => pkg \in Packages \ todo
  /\ vulns \in SUBSET Vulns
  /\ phase \in {"ask", "report"} => vuln \in Vulns \ vulns /\ details \in Affected
  /\ asked \in SUBSET (Packages \X Vulns)
  /\ confirmed \in SUBSET (Packages \X Vulns \X Affected)
  /\ reports \in SUBSET [package : Packages, vuln : Vulns, details : Affected]

(* What is printed is of the record that the model was shown and said yes  *)
(* to, although the database may have revised it since.                    *)
ReportedAsConfirmed ==
  \A r \in reports : <<r.package, r.vuln, r.details>> \in confirmed

(* A check that ends normally has asked the model about each vulnerability *)
(* that the database listed all along for each package, whatever is        *)
(* published, withdrawn or revised: a failure never goes unnoticed.        *)
NoneSkipped ==
  phase = "done"
    => \A p \in Packages, v \in Vulns :
         <<"PyPI", p, v>> \in steady => <<p, v>> \in asked

(* The check ends, normally or with an exception, while the database keeps *)
(* changing: what is published later is not looked at.                     *)
CheckEnds == <>(phase \in {"done", "raised"})

=============================================================================
