------------------------------- MODULE MCRcu --------------------------------
(* A reader that nests, and three writers of a lock made for two, so that  *)
(* one may have to wait for a quiescent point; ids wrap at the smallest    *)
(* modulus that keeps the outstanding ones apart.                          *)
EXTENDS Rcu
=============================================================================
