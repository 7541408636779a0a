---------------------------- MODULE MCTokenBucket ------------------------------
(***************************************************************************)
(* A bounded instance of TokenBucket for TLC: two callers, batches that    *)
(* fit, that need the slack, and that exceed the capacity.                 *)
(***************************************************************************)
EXTENDS TokenBucket

MCBatches == {0, 1, 2, 3}
================================================================================
