--------------------------- MODULE MCSlidingWindow -----------------------------
(***************************************************************************)
(* Bounded instances of SlidingWindow for TLC: the horizon reaches into    *)
(* the third window, so that a call can find none, one or two passed.      *)
(***************************************************************************)
EXTENDS SlidingWindow, TLC

Symmetry == Permutations(Procs)
================================================================================
