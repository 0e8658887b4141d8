----------------------------- MODULE MCClassify ------------------------------
(* The two ways a file gets its label, which share nothing but the names   *)
(* of the categories.  By its neighbours: one file that can hold any of    *)
(* five texts, a store that can hold each of them under either of two      *)
(* categories, and the query's own n_results.  By the model, asked before  *)
(* the scan of an empty store has begun: up to two tool calls, with        *)
(* arguments missing, renamed or foreign, beside a fragment of text; or up *)
(* to four fragments, which combine into category names, into longer names *)
(* that contain them, into the spellings of SHA and into prose.            *)
EXTENDS Scan, ToolCalls, TLC

CONSTANTS r, f, d1, d2, d3, d4, d5

MCParent == f :> r
MCAbove == r :> {} @@ f :> {r}
Position == d1 :> 0 @@ d2 :> 1 @@ d3 :> 3 @@ d4 :> 4 @@ d5 :> 8
Gap(m, n) == IF m < n THEN n - m ELSE m - n
MCDist == [d \in Documents |-> [e \in Documents |-> Gap(Position[d], Position[e])]]
MCCategories == {<<"RSA">>, <<"ELLIPTIC_CURVES">>}
MCAnswers == {<<" ", "AES", " ">>, <<"ELLIPTIC_CURVES">>}

Needed == {"code", "algorithm_name"}
MCArgSets == {{"algorithm_name"}, Needed, Needed \cup {"explanation"},
              Needed \cup {"description"},
              Needed \cup {"description", "explanation"},
              Needed \cup {"language"}}
MCFragments == {"USES_", "AES", "PASSWORD_", "PBKDF2_", "SHA", "256", "-256",
                "prose", " "}
MCAlgorithms == {<<"RSA">>, <<"NO_CRYPTO">>}

NotBegun ==
  frontier = {Root} /\ steady = Nodes /\ Stored = {} /\ content[f] = d1

ClassifyInit == Init /\ AskInit

ClassifyNext == \/ AskInit /\ Next /\ UNCHANGED askVars
                \/ NotBegun /\ AskNext /\ UNCHANGED vars

ClassifySpec == ClassifyInit /\ [][ClassifyNext]_<<vars, askVars>>
=============================================================================
