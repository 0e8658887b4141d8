----------------------------- MODULE MCEvaluate ------------------------------
(* A folder with two folders in it, one of which has a folder too, and a   *)
(* file in each folder without folders; a content that decodes and one     *)
(* that does not; a store that can be empty, or be right about the file in *)
(* RSA.py and wrong about the one in AES; a model with one answer.         *)
EXTENDS Evaluate, TLC

CONSTANTS r, ra, aes, rsa, faes, frsa, src, bin

MCDirs == {r, ra, aes, rsa}
MCFiles == {faes, frsa}
MCParent == ra :> r @@ rsa :> r @@ aes :> ra
            @@ faes :> aes @@ frsa :> rsa
MCAbove == r :> {} @@ ra :> {r} @@ rsa :> {r} @@ aes :> {r, ra}
           @@ faes :> {r, ra, aes} @@ frsa :> {r, rsa}
MCDirName == r :> <<"examples">> @@ ra :> <<"symmetric">> @@ aes :> <<"AES">>
             @@ rsa :> <<"RSA", ".", "py">>
MCDist == [d \in {src} |-> [e \in {src} |-> 0]]
MCCategories == {<<"RSA">>}
MCAnswers == {<<"AES">>}
=============================================================================
