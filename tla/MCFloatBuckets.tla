---------------------------- MODULE MCFloatBuckets -----------------------------
(***************************************************************************)
(* A bounded instance of FloatBuckets for TLC: one capacity where an ULP   *)
(* is far below the slack of one unit, one where the slack of one unit is  *)
(* below half an ULP.  Rates are in quarters: 3 is 0.75 units a second,    *)
(* 122 is 30.5 and 124 is 31.                                              *)
(***************************************************************************)
EXTENDS FloatBuckets

Config(k, c, r, b) == [kind |-> k, capacity |-> c, rate |-> r, batches |-> b]

FiniteConfigs ==
    { Config("spend", 2, 3, {1, 2}), Config("spend", 2, 4, {1, 2}),
      Config("spend", 64, 122, {1, 63}),
      Config("fill", 2, 3, {1, 2}), Config("fill", 64, 122, {1, 3, 61}),
      Config("fill", 64, 124, {1, 63}),
      Config("fill", 2, Inf, {1, 2}), Config("fill", 2, -3, {1, 2}),
      Config("slide", 5, 0, {1, 2}), Config("slide", 60, 0, {12, 60}) }

InfiniteRate == { Config("spend", 2, Inf, {1}) }

MCScale == 2 ^ 19
MCEpsilonRel == 2 ^ 8
================================================================================
