-------------------------------- MODULE Sums --------------------------------
(***************************************************************************)
(* Sums of a function over a finite set, for the components that keep      *)
(* money.  SumTheorems proves what the models' steps do to them.           *)
(***************************************************************************)
EXTENDS Integers, FiniteSets, FiniteSetsExt

\* The sum of what f is on S.
SumOf(f, S) == MapThenSumSet(LAMBDA x : f[x], S)
=============================================================================
