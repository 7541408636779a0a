------------------------ MODULE MCLockFreeTokenBucket --------------------------
(***************************************************************************)
(* A bounded instance of LockFreeTokenBucket for TLC.  Each caller holds   *)
(* at most two snapshots, so 2 * |Procs| + 1 addresses never run out.      *)
(***************************************************************************)
EXTENDS LockFreeTokenBucket, TLC

Symmetry == Permutations(Procs) \cup Permutations(Addr)
================================================================================
