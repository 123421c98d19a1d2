----------------------------- MODULE MCFailover -----------------------------
(* TLC instances of Failover: the constants are given in the .cfg files.   *)
EXTENDS Failover, TLC

\* Goroutines are interchangeable.
Symmetry == Permutations(Queries)
=============================================================================
