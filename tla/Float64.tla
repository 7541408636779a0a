-------------------------------- MODULE Float64 --------------------------------
(***************************************************************************)
(* float64 in the small: the arithmetic of the limiters that count in      *)
(* floating point, with a few bits of precision instead of 53.             *)
(*                                                                         *)
(* A finite value is an integer number of quanta, Scale of them to one.    *)
(* Every operation rounds its exact result to the nearest value of         *)
(* Precision significant bits, ties to even.  The quantum is fine enough   *)
(* that no value the limiters compute is subnormal, and products are not   *)
(* fused with sums (the Go compiler does not fuse them on amd64).          *)
(***************************************************************************)
EXTENDS Integers

CONSTANTS
    Precision,       \* significant bits
    MaxExponent,     \* values are below 2^(Precision + MaxExponent) quanta
    Scale,           \* quanta to one, a power of two
    TicksPerSecond,  \* clock readings are whole ticks
    Inf,             \* positive infinity
    NaN              \* not a number

(* The last conjunct keeps a tick, in seconds, above the subnormals.       *)
ASSUME FloatAssumption ==
    /\ Precision \in Nat /\ Precision >= 10
    /\ MaxExponent \in Nat
    /\ \E k \in 0..Precision + MaxExponent : Scale = 2^k
    /\ TicksPerSecond \in Nat \ {0}
    /\ Inf # NaN /\ {Inf, NaN} \cap Int = {}
    /\ 2 * Scale >= 2^Precision * TicksPerSecond

Magnitude(x) == IF x < 0 THEN -x ELSE x

(* Values of magnitude 2^(Precision + k - 1) and more, and below twice     *)
(* that, are 2^k quanta apart; at k = 0, so are all that are smaller.      *)
Exponent(x) ==
    CHOOSE k \in 0..MaxExponent :
        /\ Magnitude(x) < 2^(Precision + k)
        /\ k > 0 => Magnitude(x) >= 2^(Precision + k - 1)

(* The distance between neighbouring values around x: one unit in the last *)
(* place.                                                                  *)
Ulp(x) == 2^Exponent(x)

(* The value nearest to num / den quanta, ties to even                     *)
Nearest(num, den) ==
    LET unit == den * Ulp(num \div den)
        down == num \div unit
        rest == 2 * (num % unit)
        up   == rest > unit \/ (rest = unit /\ down % 2 = 1)
    IN  (IF up THEN down + 1 ELSE down) * (unit \div den)

Finite(x) == x \notin {Inf, NaN}

Representable(x) == Finite(x) => Nearest(x, 1) = x

(* float64(n) of an integer n                                              *)
Float(n) == Nearest(n * Scale, 1)

(* x + y; no negative infinity is ever added                               *)
Plus(x, y) ==
    CASE NaN \in {x, y} -> NaN
      [] NaN \notin {x, y} /\ Inf \in {x, y} -> Inf
      [] OTHER -> Nearest(x + y, 1)

(* (n / den) * x of a finite or infinite factor, which is n dens, and a     *)
(* finite x >= 0; rounding does not depend on the sign                     *)
Times(n, den, x) ==
    CASE n = Inf /\ x = 0 -> NaN
      [] n = Inf /\ x # 0 -> Inf
      [] n # Inf /\ n < 0 -> -Nearest(-(n * x), den)
      [] OTHER -> Nearest(n * x, den)

(* x >= y: false when either is NaN                                        *)
AtLeast(x, y) ==
    /\ NaN \notin {x, y}
    /\ x = Inf \/ (y # Inf /\ x >= y)

(* min(x, y) of Go, which hands NaN on                                     *)
Least(x, y) ==
    CASE NaN \in {x, y} -> NaN
      [] NaN \notin {x, y} /\ AtLeast(x, y) -> y
      [] OTHER -> x

(* Duration.Seconds(): the whole seconds plus the fraction, each rounded   *)
Seconds(d) ==
    Plus(Float(d \div TicksPerSecond),
         Nearest((d % TicksPerSecond) * Scale, TicksPerSecond))
================================================================================
