---------------------------- MODULE MCCodeSamples ----------------------------
(* Two runs on one file that can be edited between two texts, and two      *)
(* categories to disagree on.                                              *)
EXTENDS CodeSamples, TLC

CONSTANTS d1, d2, h1, h2, v1, v2

MCSha256 == d1 :> h1 @@ d2 :> h2
MCEmbedding == d1 :> v1 @@ d2 :> v2
=============================================================================
