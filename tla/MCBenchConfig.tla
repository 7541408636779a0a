---------------------------- MODULE MCBenchConfig ------------------------------
(***************************************************************************)
(* A bounded instance of BenchConfig for TLC: a word of six bits, a second *)
(* of 12 ns, and rates on both sides of every boundary: negative, below    *)
(* one, too small for the span and for the word, one token per nanosecond, *)
(* two of them (the fastest that rounds to 1 ns), and just beyond; the     *)
(* largest word, its float neighbour, infinity and NaN.  A conversion may  *)
(* yield the ends of the two ranges of words that are no period.           *)
(***************************************************************************)
EXTENDS BenchConfig

MCTinyRates == {1, 2, 3}
MCRates == {-8, 0} \cup MCTinyRates
             \cup {4, 7, 8, 9, 12, 16, 24, 40, 96, 100, 191, 192, 193, 200,
                   248, 255, 256, 257, Inf, NaN}
MCOutOfRange == {-32, -1, 17, 31}
MCCapacities == {-1, 0, 1, 2, 3, 4, 5, 8, 15, 16, 17}
================================================================================
