------------------------- MODULE MCAtomicTokenBucket ---------------------------
(***************************************************************************)
(* A bounded instance of AtomicTokenBucket for TLC: a word of five bits.   *)
(* The batch of 6 costs more than the word holds.                          *)
(***************************************************************************)
EXTENDS AtomicTokenBucket
================================================================================
