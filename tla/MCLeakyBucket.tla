---------------------------- MODULE MCLeakyBucket ------------------------------
(***************************************************************************)
(* A bounded instance of LeakyBucket for TLC: two callers, batches that    *)
(* fit, that need the slack of the capacity, and that exceed it.           *)
(***************************************************************************)
EXTENDS LeakyBucket, TLC

Symmetry == Permutations(Procs)
================================================================================
