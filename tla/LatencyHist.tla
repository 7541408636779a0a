------------------------------ MODULE LatencyHist ------------------------------
(***************************************************************************)
(* The log2 histogram of call latencies (cmd/bench/report.go): samples are *)
(* counted by the bit length of their nanoseconds, and a quantile is       *)
(* reported as the upper end of its bucket.                                *)
(***************************************************************************)
EXTENDS Integers, FiniteSetsExt, Functions

CONSTANT Buckets  \* how many counters there are; 64 in the code

ASSUME HistAssumption == Buckets \in Nat \ {0}

Indices == 0 .. Buckets - 1
Hist    == [Indices -> Nat]
Empty   == [i \in Indices |-> 0]

(* Mutant: a power of two falls into the bucket below its own.             *)
IndexShifted(ns) == Min({i \in Indices : ns <= 2^i} \cup {Buckets - 1})

(* The bit length of the sample, clamped to the last bucket; 0 below 1ns.  *)
Index(ns) ==
    IF ns <= 0 THEN 0
               ELSE Min({i \in Indices : ns < 2^i} \cup {Buckets - 1})

observe(h, ns) == [h EXCEPT ![Index(ns)] = @ + 1]

(* Histograms folded into one, counter by counter                          *)
merge(hists) == [i \in Indices |-> SumFunction([w \in DOMAIN hists |-> hists[w][i]])]

(* The largest sample that bucket i stands for                             *)
bucketUpper(i) == IF i <= 0 THEN 0 ELSE 2^i - 1

Count(h, upTo) == SumFunctionOnSet(h, 0..upTo)

(* The rank of quantile q = <<numerator, denominator>> among total samples *)
Rank(q, total) ==
    LET ceiling == (q[1] * total + q[2] - 1) \div q[2]
    IN  Max({1, Min({ceiling, total})})

(* The upper end of the first bucket at which the rank is reached          *)
quantile(h, q) ==
    LET total == Count(h, Buckets - 1)
    IN  IF total = 0 THEN 0
        ELSE bucketUpper(Min({i \in Indices : Count(h, i) >= Rank(q, total)}))
================================================================================
