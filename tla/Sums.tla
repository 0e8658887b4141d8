------------------------------- MODULE Sums --------------------------------
(* Sums of a family of numbers, taken one after the other.                 *)
EXTENDS Integers

\* The sums of f[1], ..., f[i] for each i up to n.
PartialSums(f, n) ==
  LET sum[i \in 0..n] == IF i = 0 THEN 0 ELSE sum[i - 1] + f[i] IN sum

=============================================================================
