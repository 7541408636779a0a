---------------------------- MODULE MCBenchRunner ------------------------------
(***************************************************************************)
(* A bounded instance of BenchRunner for TLC: two workers, three calls     *)
(* between them, latencies in each of four buckets.                        *)
(***************************************************************************)
EXTENDS BenchRunner
================================================================================
