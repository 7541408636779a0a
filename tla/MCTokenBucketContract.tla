------------------------ MODULE MCTokenBucketContract --------------------------
(***************************************************************************)
(* A bounded instance of the token-bucket contract for TLC: a slack of one *)
(* quantum per token of the batch.                                         *)
(***************************************************************************)
EXTENDS TokenBucketContract, TLC

MCBatches == {-1, 0, 1, 2, 3}
MCSlack   == [n \in MCBatches |-> n]
Symmetry  == Permutations(Procs)
================================================================================
