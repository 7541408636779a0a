-------------------------- MODULE FloatBucketsProofs --------------------------
(***************************************************************************)
(* Rounding, for every precision and number of calls, and every capacity   *)
(* and rate, whole or not, that FloatBucketsAssumption admits: the state   *)
(* holds float64 values, and no verdict of a limiter that counts in them   *)
(* departs from exact arithmetic while the roundings of its calls are      *)
(* worth less than the slack.                                              *)
(*                                                                         *)
(* All of it rests on one fact about an operation: its result is off by    *)
(* one part in 2^Precision at most (Rounding, Quotients).  Everything after*)
(* that is linear in the errors.                                           *)
(***************************************************************************)
EXTENDS FloatBuckets, FiniteSetTheorems, WellFoundedInduction, TLAPS

--------------------------------------------------------------------------------
(* Powers of two.                                                          *)
(* A set of parts of a finite set has a part that is minimal in it.        *)
LEMMA Minimal ==
    ASSUME NEW S, IsFiniteSet(S), NEW T, T \subseteq SUBSET S, T # {}
    PROVE  \E x \in T : \A y \in T : ~(y \subseteq x /\ y # x)
  <1>1. FiniteSubsetsOf(S) = SUBSET S
    BY FS_FiniteSubsetsOfFinite
  <1>2. IsWellFoundedOn(StrictSubsetOrdering(S), SUBSET S)
    BY <1>1, FS_StrictSubsetOrderingWellFounded
  <1>3. \E x \in T : \A y \in T : ~(<<y, x>> \in StrictSubsetOrdering(S))
    BY <1>2, WFMin
  <1> QED
    BY <1>3 DEF StrictSubsetOrdering

(* A set of naturals has a least element.                                  *)
LEMMA LeastNumber ==
    ASSUME NEW T \in SUBSET Nat, T # {}
    PROVE  \E k \in T : \A y \in T : k <= y
  <1> PICK n \in T : TRUE
    OBVIOUS
  <1> DEFINE Upto == {0 .. k : k \in T \cap (0 .. n)}
  <1>1. IsFiniteSet(0 .. n)
    BY FS_Interval
  <1>2. Upto \subseteq SUBSET (0 .. n) /\ Upto # {}
    <2>1. (0 .. n) \in Upto
      OBVIOUS
    <2> QED
      BY <2>1
  <1>3. PICK x \in Upto : \A y \in Upto : ~(y \subseteq x /\ y # x)
    <2> DEFINE S == 0 .. n
    <2>1. IsFiniteSet(S) /\ Upto \subseteq SUBSET S /\ Upto # {}
      BY <1>1, <1>2
    <2> HIDE DEF Upto, S
    <2> QED
      BY <2>1, Minimal
  <1>4. PICK k \in T \cap (0 .. n) : x = 0 .. k
    BY <1>3
  <1>5. ASSUME NEW y \in T, y < k PROVE FALSE
    <2>1. 0 .. y \in Upto
      BY <1>4, <1>5
    <2>2. 0 .. y \subseteq x /\ k \in x /\ k \notin 0 .. y
      BY <1>4, <1>5
    <2> QED
      BY <1>3, <2>1, <2>2
  <1>6. k \in T /\ \A y \in T : k <= y
    BY <1>4, <1>5
  <1> HIDE DEF Upto
  <1> QED
    BY <1>6

(* Powers of two count the parts of a set (FS_SUBSET), and one more        *)
(* element doubles them: each part with it and without it.                 *)
LEMMA Powers ==
    ASSUME NEW n \in Nat
    PROVE  2^n \in Nat /\ 2^n >= 1 /\ 2^(n + 1) = 2 * 2^n
  <1> DEFINE S == 1 .. n
             T == 1 .. n + 1
             With == {s \cup {n + 1} : s \in SUBSET S}
  <1>1. /\ IsFiniteSet(S) /\ Cardinality(S) = n
        /\ IsFiniteSet(T) /\ Cardinality(T) = n + 1
    BY FS_Interval
  <1>2. /\ IsFiniteSet(SUBSET S) /\ Cardinality(SUBSET S) = 2^n
        /\ IsFiniteSet(SUBSET T) /\ Cardinality(SUBSET T) = 2^(n + 1)
    BY <1>1, FS_SUBSET
  <1>3. T = S \cup {n + 1} /\ n + 1 \notin S
    OBVIOUS
  <1> HIDE DEF S, T
  <1>4. SUBSET T = (SUBSET S) \cup With
    <2>1. ASSUME NEW t \in SUBSET T PROVE t \in (SUBSET S) \cup With
      <3>1. CASE n + 1 \in t
        <4>1. t \ {n + 1} \in SUBSET S /\ t = (t \ {n + 1}) \cup {n + 1}
          BY <1>3, <3>1
        <4> QED
          BY <4>1
      <3>2. CASE n + 1 \notin t
        BY <1>3, <3>2
      <3> QED
        BY <3>1, <3>2
    <2>2. ASSUME NEW t \in (SUBSET S) \cup With PROVE t \in SUBSET T
      BY <1>3
    <2> QED
      BY <2>1, <2>2
  <1>5. (SUBSET S) \cap With = {}
    BY <1>3
  <1>6. IsFiniteSet(With) /\ Cardinality(With) = Cardinality(SUBSET S)
    <2> DEFINE f == [s \in SUBSET S |-> s \cup {n + 1}]
    <2>1. f \in [SUBSET S -> With]
      OBVIOUS
    <2>2. \A a, b \in SUBSET S : f[a] = f[b] => a = b
      BY <1>3
    <2>3. \A t \in With : \E s \in SUBSET S : f[s] = t
      OBVIOUS
    <2> HIDE DEF f, With
    <2>4. f \in Bijection(SUBSET S, With)
      BY <2>1, <2>2, <2>3 DEF Bijection, Injection, Surjection, IsInjective
    <2>5. ExistsBijection(SUBSET S, With)
      BY <2>4 DEF ExistsBijection
    <2> QED
      BY <1>2, <2>5, FS_Bijection
  <1>7. Cardinality(SUBSET T) = Cardinality(SUBSET S) + Cardinality(With)
    <2>1. /\ Cardinality((SUBSET S) \cup With)
                = Cardinality(SUBSET S) + Cardinality(With) - Cardinality((SUBSET S) \cap With)
          /\ Cardinality(SUBSET S) \in Nat /\ Cardinality(With) \in Nat
      BY <1>2, <1>6, FS_Union, FS_CardinalityType
    <2>2. Cardinality((SUBSET S) \cap With) = 0
      BY <1>5, FS_EmptySet
    <2>3. Cardinality(SUBSET T) = Cardinality((SUBSET S) \cup With)
      BY <1>4
    <2> QED
      BY <2>1, <2>2, <2>3
  <1>8. Cardinality(SUBSET S) \in Nat /\ Cardinality(SUBSET S) # 0
    <2>1. {} \in SUBSET S
      OBVIOUS
    <2> QED
      BY <1>2, <2>1, FS_CardinalityType, FS_EmptySet
  <1> QED
    BY <1>2, <1>6, <1>7, <1>8

LEMMA PowerOfZero == 2^0 = 1
  <1>1. IsFiniteSet({}) /\ Cardinality({}) = 0
    BY FS_EmptySet
  <1>2. Cardinality(SUBSET {}) = 2^0
    BY <1>1, FS_SUBSET
  <1>3. SUBSET {} = {{}}
    OBVIOUS
  <1> QED
    BY <1>2, <1>3, FS_Singleton


(* Sums of exponents are products of powers.                               *)
LEMMA PowerOfSum ==
    ASSUME NEW a \in Nat, NEW b \in Nat
    PROVE  2^(a + b) = 2^a * 2^b
  <1> DEFINE Bad == {k \in Nat : 2^(a + k) # 2^a * 2^k}
  <1>1. SUFFICES ASSUME Bad # {} PROVE FALSE
    OBVIOUS
  <1>2. PICK k \in Bad : \A y \in Bad : k <= y
    BY <1>1, LeastNumber
  <1>3. k \in Nat /\ 2^(a + k) # 2^a * 2^k
    BY <1>2
  <1>4. 2^a \in Nat /\ 2^k \in Nat
    BY <1>3, Powers
  <1>5. k # 0
    <2>1. a + 0 = a
      OBVIOUS
    <2>2. 2^a * 2^0 = 2^a
      BY <1>4, PowerOfZero
    <2> QED
      BY <1>3, <2>1, <2>2
  <1>6. k - 1 \in Nat /\ k - 1 \notin Bad
    BY <1>2, <1>3, <1>5
  <1>7. 2^(a + (k - 1)) = 2^a * 2^(k - 1)
    BY <1>6
  <1>8. 2^(k - 1) \in Nat /\ 2^((k - 1) + 1) = 2 * 2^(k - 1)
        /\ 2^((a + (k - 1)) + 1) = 2 * 2^(a + (k - 1))
    BY <1>6, Powers
  <1>9. (k - 1) + 1 = k /\ (a + (k - 1)) + 1 = a + k
    BY <1>3
  <1> QED
    BY <1>3, <1>4, <1>7, <1>8, <1>9

(* A power divides those above it.                                         *)
LEMMA PowerDivides ==
    ASSUME NEW j \in Nat, NEW k \in Nat, j <= k
    PROVE  \E m \in Nat : m >= 1 /\ 2^k = m * 2^j
  <1>1. k - j \in Nat /\ j + (k - j) = k
    OBVIOUS
  <1>2. 2^k = 2^j * 2^(k - j) /\ 2^(k - j) \in Nat /\ 2^(k - j) >= 1 /\ 2^j \in Nat
    BY <1>1, PowerOfSum, Powers
  <1>3. 2^k = 2^(k - j) * 2^j
    BY <1>2
  <1> QED
    BY <1>2, <1>3

--------------------------------------------------------------------------------
(* Rounding.                                                               *)
H == 2^Precision

InRange(x) == Magnitude(x) < 2^(Precision + MaxExponent)

LEMMA Monotone ==
    ASSUME NEW a \in Int, NEW b \in Int, a <= b, NEW h \in Nat
    PROVE  h * a <= h * b
  <1>1. h * (b - a) >= 0
    OBVIOUS
  <1>2. h * (b - a) = h * b - h * a
    OBVIOUS
  <1> QED
    BY <1>1, <1>2

LEMMA Sizes ==
    /\ Precision \in Nat /\ MaxExponent \in Nat
    /\ H \in Nat /\ H >= 1024 /\ \E h \in Nat : H = 2 * h
    /\ Scale \in Nat /\ Scale >= 1 /\ \E k \in Nat : Scale = 2^k
    /\ TicksPerSecond \in Nat /\ TicksPerSecond >= 1
    /\ 2 * Scale >= H * TicksPerSecond
    /\ RateScale \in Nat /\ RateScale >= 1
    /\ Parts \in Nat /\ Parts >= 1 /\ Parts = TicksPerSecond * RateScale
    /\ Inf \notin Int /\ NaN \notin Int /\ Inf # NaN
  <1>1. /\ Precision \in Nat /\ MaxExponent \in Nat /\ Precision - 10 \in Nat
        /\ Precision - 1 \in Nat
    BY FloatAssumption
  <1>2. 2^10 = 1024
    <2>1. 2^(0 + 1) = 2 /\ 2^(1 + 1) = 4 /\ 2^(2 + 1) = 8 /\ 2^(3 + 1) = 16 /\ 2^(4 + 1) = 32
      BY Powers, PowerOfZero
    <2>2. 2^5 = 32
      BY <2>1
    <2>3. 2^(5 + 5) = 32 * 32
      BY <2>2, PowerOfSum
    <2> QED
      BY <2>3
  <1>3. H = 1024 * 2^(Precision - 10) /\ 2^(Precision - 10) \in Nat /\ 2^(Precision - 10) >= 1
    <2>1. 2^(10 + (Precision - 10)) = 2^10 * 2^(Precision - 10)
      BY <1>1, PowerOfSum
    <2>2. 10 + (Precision - 10) = Precision
      BY <1>1
    <2> QED
      BY <1>1, <1>2, <2>1, <2>2, Powers DEF H
  <1>4. H = 2 * (512 * 2^(Precision - 10)) /\ 512 * 2^(Precision - 10) \in Nat
    BY <1>3
  <1>5. PICK k \in 0 .. Precision + MaxExponent : Scale = 2^k
    BY FloatAssumption
  <1>6. k \in Nat /\ 2^k \in Nat /\ 2^k >= 1
    BY <1>1, <1>5, Powers
  <1>7. H \in Nat /\ H >= 1024
    BY <1>3
  <1>8. Inf \notin Int /\ NaN \notin Int /\ Inf # NaN
    BY FloatAssumption
  <1>9. TicksPerSecond \in Nat /\ TicksPerSecond >= 1 /\ 2 * Scale >= H * TicksPerSecond
    BY FloatAssumption DEF H
  <1>10. \E h \in Nat : H = 2 * h
    BY <1>4
  <1>11. \E i \in Nat : Scale = 2^i
    BY <1>5, <1>6
  <1>12. Scale \in Nat /\ Scale >= 1
    BY <1>5, <1>6
  <1>13. RateScale \in Nat /\ RateScale >= 1
    BY FloatBucketsAssumption
  <1>14. Parts \in Nat /\ Parts >= 1 /\ Parts = TicksPerSecond * RateScale
    <2>1. TicksPerSecond * RateScale \in Nat /\ TicksPerSecond * RateScale >= 1
      BY <1>9, <1>13
    <2> QED
      BY <2>1 DEF Parts
  <1> QED
    BY <1>1, <1>7, <1>8, <1>9, <1>10, <1>11, <1>12, <1>13, <1>14

(* What Exponent chooses is there to choose.                               *)
LEMMA UlpIs ==
    ASSUME NEW x \in Int, InRange(x)
    PROVE  \E k \in 0 .. MaxExponent :
              /\ Ulp(x) = 2^k
              /\ Magnitude(x) < H * 2^k
              /\ k > 0 => H * 2^k <= 2 * Magnitude(x)
  <1>1. Precision \in Nat /\ MaxExponent \in Nat /\ Magnitude(x) \in Nat
    BY Sizes DEF Magnitude
  <1> DEFINE Above == {k \in 0 .. MaxExponent : Magnitude(x) < 2^(Precision + k)}
             Fit(k) == /\ Magnitude(x) < 2^(Precision + k)
                       /\ k > 0 => Magnitude(x) >= 2^(Precision + k - 1)
  <1>2. MaxExponent \in Above
    BY <1>1 DEF InRange
  <1>3. PICK k \in Above : \A y \in Above : k <= y
    <2>1. Above \in SUBSET Nat /\ Above # {}
      BY <1>1, <1>2
    <2> HIDE DEF Above
    <2> QED
      BY <2>1, LeastNumber
  <1>4. k \in 0 .. MaxExponent /\ Fit(k)
    <2>1. k \in 0 .. MaxExponent /\ Magnitude(x) < 2^(Precision + k)
      BY <1>3
    <2>2. ASSUME k > 0 PROVE Magnitude(x) >= 2^(Precision + k - 1)
      <3>1. k - 1 \in 0 .. MaxExponent /\ k - 1 \notin Above
        BY <1>1, <1>3, <2>1, <2>2
      <3>2. ~(Magnitude(x) < 2^(Precision + (k - 1)))
        BY <3>1
      <3>3. Precision + (k - 1) = Precision + k - 1 /\ Precision + (k - 1) \in Nat
        BY <1>1, <2>1, <2>2
      <3>4. 2^(Precision + (k - 1)) \in Nat
        BY <3>3, Powers
      <3> QED
        BY <1>1, <3>2, <3>3, <3>4
    <2> QED
      BY <2>1, <2>2
  <1> DEFINE e == CHOOSE j \in 0 .. MaxExponent : Fit(j)
  <1>5. e \in 0 .. MaxExponent /\ Fit(e)
    <2> HIDE DEF Fit
    <2> QED
      BY <1>4
  <1>6. Ulp(x) = 2^e
    BY DEF Ulp, Exponent
  <1> HIDE DEF e
  <1>7. e \in Nat /\ 2^(Precision + e) = H * 2^e /\ 2^e \in Nat /\ H \in Nat
    <2>1. e \in Nat
      BY <1>1, <1>5
    <2>2. 2^(Precision + e) = 2^Precision * 2^e
      BY <1>1, <2>1, PowerOfSum
    <2>3. 2^e \in Nat
      BY <2>1, Powers
    <2> QED
      BY <2>1, <2>2, <2>3, Sizes DEF H
  <1>8. ASSUME e > 0 PROVE H * 2^e <= 2 * Magnitude(x)
    <2>1. Precision + e - 1 \in Nat /\ (Precision + e - 1) + 1 = Precision + e
      BY <1>1, <1>7, <1>8
    <2>2. 2^((Precision + e - 1) + 1) = 2 * 2^(Precision + e - 1)
          /\ 2^(Precision + e - 1) \in Nat
      BY <2>1, Powers
    <2>3. Magnitude(x) >= 2^(Precision + e - 1)
      BY <1>5, <1>8
    <2>4. H * 2^e = 2 * 2^(Precision + e - 1)
      BY <1>7, <2>1, <2>2
    <2> QED
      BY <1>1, <2>2, <2>3, <2>4
  <1>9. Magnitude(x) < H * 2^e
    BY <1>5, <1>7
  <1> QED
    BY <1>5, <1>6, <1>8, <1>9

(* A quotient is rounded to a multiple of an ulp, and by half an ulp.      *)
LEMMA NearestIs ==
    ASSUME NEW num \in Int, NEW den \in Nat, den >= 1, InRange(num \div den)
    PROVE  \E k \in 0 .. MaxExponent, m \in Int :
              /\ Nearest(num, den) = m * 2^k
              /\ 2 * (m * (den * 2^k) - num) <= den * 2^k
              /\ 2 * (num - m * (den * 2^k)) <= den * 2^k
              /\ Magnitude(num \div den) < H * 2^k
              /\ k > 0 => H * 2^k <= 2 * Magnitude(num \div den)
  <1>1. num \div den \in Int
    OBVIOUS
  <1>2. PICK k \in 0 .. MaxExponent :
              /\ Ulp(num \div den) = 2^k
              /\ Magnitude(num \div den) < H * 2^k
              /\ k > 0 => H * 2^k <= 2 * Magnitude(num \div den)
    BY <1>1, UlpIs
  <1> DEFINE u == 2^k
             unit == den * u
             down == num \div unit
             rem  == num % unit
             up   == 2 * rem > unit \/ (2 * rem = unit /\ down % 2 = 1)
             m    == IF up THEN down + 1 ELSE down
  <1>3. u \in Nat /\ u >= 1
    BY <1>2, Sizes, Powers
  <1>4. unit \in Nat /\ unit >= 1
    <2> HIDE DEF u
    <2>1. den * u >= 1 * u
      BY <1>3, Monotone
    <2> QED
      BY <1>3, <2>1
  <1>5. unit \div den = u
    <2> HIDE DEF u
    <2> QED
      BY <1>3
  <1>6. Nearest(num, den) = m * u
    BY <1>2, <1>5 DEF Nearest
  <1>7. down \in Int /\ rem \in Int /\ 0 <= rem /\ rem < unit /\ num = unit * down + rem
    <2> HIDE DEF unit
    <2> QED
      BY <1>4
  <1>8. m \in Int
    <2> HIDE DEF unit, down, rem
    <2> QED
      BY <1>7
  <1>9. 2 * (m * unit - num) <= unit /\ 2 * (num - m * unit) <= unit
    <2> HIDE DEF unit, down, rem
    <2>1. CASE up
      <3>1. m * unit = unit * down + unit /\ 2 * rem >= unit
        BY <1>4, <1>7, <2>1
      <3> HIDE DEF m, up
      <3> DEFINE a == m * unit
                 b == unit * down
      <3>2. a = b + unit /\ num = b + rem /\ b \in Int
        BY <1>4, <1>7, <3>1
      <3> HIDE DEF a, b
      <3>3. 2 * (a - num) <= unit /\ 2 * (num - a) <= unit
        BY <1>4, <1>7, <3>1, <3>2
      <3> QED
        BY <3>3 DEF a
    <2>2. CASE ~up
      <3>1. m * unit = unit * down /\ 2 * rem <= unit
        BY <1>4, <1>7, <2>2
      <3> HIDE DEF m, up
      <3> DEFINE a == m * unit
      <3>2. num = a + rem /\ a \in Int
        BY <1>4, <1>7, <3>1
      <3> HIDE DEF a
      <3>3. 2 * (a - num) <= unit /\ 2 * (num - a) <= unit
        BY <1>4, <1>7, <3>1, <3>2
      <3> QED
        BY <3>3 DEF a
    <2> QED
      BY <2>1, <2>2
  <1> HIDE DEF m
  <1> QED
    BY <1>2, <1>6, <1>8, <1>9

--------------------------------------------------------------------------------
(* Errors.                                                                 *)
(* a and b are within one part in 2^Precision of e.                        *)
Off(a, b, e) == H * a <= H * b + e /\ H * b <= H * a + e

LEMMA OffTriangle ==
    ASSUME NEW a \in Int, NEW b \in Int, NEW c \in Int, NEW d \in Int, NEW e \in Int,
           Off(a, b, d), Off(b, c, e)
    PROVE  Off(a, c, d + e)
  <1> DEFINE ha == H * a
             hb == H * b
             hc == H * c
  <1>1. ha \in Int /\ hb \in Int /\ hc \in Int
    BY Sizes
  <1>2. ha <= hb + d /\ hb <= ha + d /\ hb <= hc + e /\ hc <= hb + e
    BY DEF Off
  <1> HIDE DEF ha, hb, hc
  <1>3. ha <= hc + (d + e) /\ hc <= ha + (d + e)
    BY <1>1, <1>2
  <1> QED
    BY <1>3 DEF Off, ha, hc

LEMMA OffWeaken ==
    ASSUME NEW a \in Int, NEW b \in Int, NEW d \in Int, NEW e \in Int, d <= e, Off(a, b, d)
    PROVE  Off(a, b, e)
  <1> DEFINE ha == H * a
             hb == H * b
  <1>1. ha \in Int /\ hb \in Int
    BY Sizes
  <1>2. ha <= hb + d /\ hb <= ha + d
    BY DEF Off
  <1> HIDE DEF ha, hb
  <1>3. ha <= hb + e /\ hb <= ha + e
    BY <1>1, <1>2
  <1> QED
    BY <1>3 DEF Off, ha, hb

LEMMA OffScale ==
    ASSUME NEW a \in Int, NEW b \in Int, NEW d \in Int, NEW h \in Nat, Off(a, b, d)
    PROVE  Off(h * a, h * b, h * d)
  <1>1. H * a \in Int /\ H * b \in Int /\ H \in Int
    BY Sizes
  <1>2. h * (H * a) <= h * (H * b + d) /\ h * (H * b) <= h * (H * a + d)
    BY <1>1, Monotone DEF Off
  <1>3. /\ h * (H * a) = H * (h * a) /\ h * (H * b) = H * (h * b)
        /\ h * (H * b + d) = h * (H * b) + h * d
        /\ h * (H * a + d) = h * (H * a) + h * d
    BY <1>1
  <1> QED
    BY <1>2, <1>3 DEF Off

(* A bound that does without 2^Precision.                                  *)
LEMMA OffMeans ==
    ASSUME NEW a \in Int, NEW b \in Int, NEW e \in Nat, Off(a, b, e)
    PROVE  1024 * (a - b) <= e /\ 1024 * (b - a) <= e
  <1>1. H \in Nat /\ H - 1024 \in Nat
    BY Sizes
  <1>2. H * (a - b) <= e /\ H * (b - a) <= e
    BY <1>1 DEF Off
  <1>3. ASSUME NEW x \in Int, H * x <= e PROVE 1024 * x <= e
    <2>1. CASE x <= 0
      BY <2>1
    <2>2. CASE x > 0
      <3>1. (H - 1024) * x >= 0
        BY <1>1, <2>2
      <3>2. (H - 1024) * x = H * x - 1024 * x
        BY <1>1
      <3> QED
        BY <1>1, <1>3, <3>1, <3>2
    <2> QED
      BY <2>1, <2>2
  <1> QED
    BY <1>2, <1>3

--------------------------------------------------------------------------------
(* Operations.                                                             *)
(* An integer rounds to a multiple of its ulp.                             *)
LEMMA RoundsTo ==
    ASSUME NEW z \in Int, InRange(z)
    PROVE  \E k \in 0 .. MaxExponent, m \in Int :
              /\ Nearest(z, 1) = m * 2^k
              /\ 2 * (Nearest(z, 1) - z) <= 2^k
              /\ 2 * (z - Nearest(z, 1)) <= 2^k
              /\ Magnitude(z) < H * 2^k
              /\ k > 0 => H * 2^k <= 2 * Magnitude(z)
  <1>1. z \div 1 = z
    OBVIOUS
  <1>2. PICK k \in 0 .. MaxExponent, m \in Int :
              /\ Nearest(z, 1) = m * 2^k
              /\ 2 * (m * (1 * 2^k) - z) <= 1 * 2^k
              /\ 2 * (z - m * (1 * 2^k)) <= 1 * 2^k
              /\ Magnitude(z) < H * 2^k
              /\ k > 0 => H * 2^k <= 2 * Magnitude(z)
    <2>1. 1 \in Nat /\ 1 >= 1 /\ InRange(z \div 1)
      BY <1>1
    <2> HIDE DEF InRange
    <2> QED
      BY <1>1, <2>1, NearestIs, Zenon
  <1>3. 1 * 2^k = 2^k
    BY <1>2, Sizes, Powers
  <1> QED
    BY <1>2, <1>3

(* An integer rounds to one that is off by its own magnitude.              *)
LEMMA Rounding ==
    ASSUME NEW z \in Int, InRange(z)
    PROVE  Nearest(z, 1) \in Int /\ Off(Nearest(z, 1), z, Magnitude(z))
  <1>1. PICK k \in 0 .. MaxExponent, m \in Int :
              /\ Nearest(z, 1) = m * 2^k
              /\ 2 * (Nearest(z, 1) - z) <= 2^k
              /\ 2 * (z - Nearest(z, 1)) <= 2^k
              /\ k > 0 => H * 2^k <= 2 * Magnitude(z)
    BY RoundsTo
  <1> DEFINE u == 2^k
             N == m * u
             M == Magnitude(z)
  <1>3. k \in Nat /\ u \in Nat /\ M \in Nat /\ H \in Nat
    BY <1>1, Sizes, Powers DEF Magnitude
  <1>4. /\ N \in Int /\ Nearest(z, 1) = N
        /\ 2 * (N - z) <= u /\ 2 * (z - N) <= u
        /\ k > 0 => H * u <= 2 * M
    BY <1>1, <1>3
  <1>5. k = 0 => u = 1
    BY PowerOfZero
  <1> HIDE DEF u, N, M
  <1>6. CASE k = 0
    <2>1. N = z
      BY <1>4, <1>5, <1>6
    <2> QED
      BY <1>3, <1>4, <2>1 DEF Off, M
  <1>7. CASE k > 0
    <2>1. H * (2 * (N - z)) <= H * u /\ H * (2 * (z - N)) <= H * u
      BY <1>3, <1>4, Monotone
    <2>2. H * (2 * (N - z)) = 2 * (H * N) - 2 * (H * z)
          /\ H * (2 * (z - N)) = 2 * (H * z) - 2 * (H * N)
      BY <1>3, <1>4
    <2> DEFINE hn == H * N
               hz == H * z
               hu == H * u
    <2>3. hn \in Int /\ hz \in Int /\ hu \in Int /\ hu <= 2 * M
          /\ 2 * hn - 2 * hz <= hu /\ 2 * hz - 2 * hn <= hu
      BY <1>3, <1>4, <1>7, <2>1, <2>2
    <2> HIDE DEF hn, hz, hu
    <2>4. hn <= hz + M /\ hz <= hn + M
      BY <1>3, <2>3
    <2> QED
      BY <1>4, <2>4 DEF Off, hn, hz, M
  <1> QED
    BY <1>3, <1>6, <1>7

(* A value never rounds across zero.                                       *)
LEMMA RoundingKeepsSign ==
    ASSUME NEW z \in Int, InRange(z)
    PROVE  /\ z >= 0 => Nearest(z, 1) >= 0
           /\ z <= 0 => Nearest(z, 1) <= 0
           /\ z > 0 => Nearest(z, 1) > 0
           /\ z = 0 => Nearest(z, 1) = 0
  <1> DEFINE N == Nearest(z, 1)
  <1>1. N \in Int /\ Off(N, z, Magnitude(z)) /\ Magnitude(z) \in Nat
    BY Rounding DEF Magnitude
  <1> HIDE DEF N
  <1>2. 1024 * (N - z) <= Magnitude(z) /\ 1024 * (z - N) <= Magnitude(z)
    BY <1>1, OffMeans
  <1>3. (z >= 0 => N >= 0) /\ (z <= 0 => N <= 0) /\ (z > 0 => N > 0) /\ (z = 0 => N = 0)
    BY <1>1, <1>2 DEF Magnitude
  <1> QED
    BY <1>3 DEF N

(* So does a quotient that is not subnormal.                               *)
LEMMA Quotients ==
    ASSUME NEW num \in Nat, NEW den \in Nat, den >= 1, InRange(num \div den),
           num = 0 \/ 2 * num >= H * den
    PROVE  Nearest(num, den) \in Nat /\ Off(Nearest(num, den) * den, num, num)
  <1>1. PICK k \in 0 .. MaxExponent, m \in Int :
              /\ Nearest(num, den) = m * 2^k
              /\ 2 * (m * (den * 2^k) - num) <= den * 2^k
              /\ 2 * (num - m * (den * 2^k)) <= den * 2^k
              /\ Magnitude(num \div den) < H * 2^k
              /\ k > 0 => H * 2^k <= 2 * Magnitude(num \div den)
    <2>1. num \in Int
      OBVIOUS
    <2> QED
      BY <2>1, NearestIs, Zenon
  <1> DEFINE u == 2^k
             q == num \div den
             N == m * u
  <1>2. k \in Nat /\ u \in Nat /\ H \in Nat
    BY <1>1, Sizes, Powers
  <1>3. q \in Nat /\ q * den <= num /\ Magnitude(q) = q
    BY DEF Magnitude
  <1>4. m * (den * u) = N * den /\ N \in Int
    BY <1>2
  <1>5. k = 0 => u = 1
    BY PowerOfZero
  <1>6. /\ 2 * (N * den - num) <= den * u
        /\ 2 * (num - N * den) <= den * u
        /\ k > 0 => H * u <= 2 * q
        /\ Nearest(num, den) = N
    BY <1>1, <1>3, <1>4
  <1> HIDE DEF u, q, N
  <1>7. num = 0 => k = 0
    <2>1. num = 0 => q * den <= 0
      BY <1>3
    <2>2. num = 0 => q = 0
      BY <1>3, <2>1
    <2>3. u >= 1 /\ H * u >= 1
      <3>1. u >= 1
        BY <1>2, Powers DEF u
      <3> QED
        BY <1>2, <3>1, Sizes
    <2> QED
      BY <1>2, <1>6, <2>2, <2>3
  <1> DEFINE D == N * den
             V == den * u
  <1>8. D \in Int /\ V \in Nat /\ 2 * (D - num) <= V /\ 2 * (num - D) <= V
    BY <1>2, <1>4, <1>6
  <1>9. CASE num = 0
    <2>1. V = den
      BY <1>5, <1>7, <1>9
    <2>2. 2 * (N * den) <= den /\ 2 * (0 - N * den) <= den
      BY <1>8, <1>9, <2>1
    <2>3. ~(N >= 1) /\ ~(N <= -1)
      <3>1. N >= 1 => N * den >= den
        BY <1>4
      <3>2. N <= -1 => N * den <= -den
        BY <1>4
      <3> DEFINE d == N * den
      <3>3. d \in Int
        BY <1>4
      <3> HIDE DEF d
      <3>4. (N >= 1 => d >= den) /\ (N <= -1 => d <= -den) /\ 2 * d <= den /\ 2 * (0 - d) <= den
        BY <2>2, <3>1, <3>2 DEF d
      <3> QED
        BY <3>3, <3>4
    <2>4. N = 0
      BY <1>4, <2>3
    <2> QED
      BY <1>2, <1>6, <1>9, <2>4 DEF Off
  <1>10. CASE num # 0
    <2>1. H * V <= 2 * num
      <3>1. CASE k = 0
        <4>1. V = den
          BY <1>5, <3>1
        <4> QED
          BY <1>10, <4>1
      <3>2. CASE k > 0
        <4>1. den * (H * u) <= den * (2 * q)
          BY <1>2, <1>3, <1>6, <3>2, Monotone
        <4>2. den * (H * u) = H * V /\ den * (2 * q) = 2 * (q * den)
          BY <1>2, <1>3
        <4> HIDE DEF V
        <4> QED
          BY <1>2, <1>3, <1>8, <4>1, <4>2
      <3> QED
        BY <1>2, <3>1, <3>2
    <2> HIDE DEF D, V
    <2>2. H * (2 * (D - num)) <= H * V /\ H * (2 * (num - D)) <= H * V
      BY <1>2, <1>8, Monotone
    <2>3. H * (2 * (D - num)) = 2 * (H * D) - 2 * (H * num)
          /\ H * (2 * (num - D)) = 2 * (H * num) - 2 * (H * D)
      BY <1>2, <1>8
    <2> DEFINE hd == H * D
               hn == H * num
               hv == H * V
    <2>4. hd \in Int /\ hn \in Int /\ hv \in Int /\ hv <= 2 * num
          /\ 2 * hd - 2 * hn <= hv /\ 2 * hn - 2 * hd <= hv
      BY <1>2, <1>8, <2>1, <2>2, <2>3
    <2> HIDE DEF hd, hn, hv
    <2>5. hd <= hn + num /\ hn <= hd + num
      BY <2>4
    <2>6. Off(D, num, num)
      BY <2>5 DEF Off, hd, hn
    <2>7. 1024 * (num - D) <= num
      BY <1>8, <2>6, OffMeans
    <2>8. D > 0
      BY <1>8, <1>10, <2>7
    <2>9. N >= 0
      <3>1. N < 0 => N * den < 0
        BY <1>4
      <3> QED
        BY <1>4, <2>8, <3>1 DEF D
    <2> QED
      BY <1>4, <1>6, <2>6, <2>9 DEF D
  <1> QED
    BY <1>9, <1>10

--------------------------------------------------------------------------------
(* Values.                                                                 *)
(* Multiples of u less than u apart are equal.                             *)
LEMMA OnGrid ==
    ASSUME NEW u \in Nat, u >= 1, NEW p \in Int, NEW q \in Int,
           2 * (p * u - q * u) <= u, 2 * (q * u - p * u) <= u
    PROVE  p = q
  <1>1. p >= q + 1 => (p - q) * u >= u
    OBVIOUS
  <1>2. q >= p + 1 => (q - p) * u >= u
    OBVIOUS
  <1>3. (p - q) * u = p * u - q * u /\ (q - p) * u = q * u - p * u
    OBVIOUS
  <1> DEFINE a == p * u
             b == q * u
  <1>4. a \in Int /\ b \in Int
    OBVIOUS
  <1>5. (p >= q + 1 => a - b >= u) /\ (q >= p + 1 => b - a >= u)
        /\ 2 * (a - b) <= u /\ 2 * (b - a) <= u
    BY <1>1, <1>2, <1>3
  <1> HIDE DEF a, b
  <1>6. ~(p >= q + 1) /\ ~(q >= p + 1)
    BY <1>4, <1>5
  <1> QED
    BY <1>6

(* A number of few significant bits is a value.                            *)
LEMMA FewBits ==
    ASSUME NEW m \in Int, NEW k \in Nat, Magnitude(m) <= H, InRange(m * 2^k)
    PROVE  Nearest(m * 2^k, 1) = m * 2^k
  <1> DEFINE u == 2^k
             x == m * u
             A == Magnitude(m)
  <1>1. u \in Nat /\ u >= 1 /\ x \in Int /\ A \in Nat /\ H \in Nat /\ H >= 1
    BY Powers, Sizes DEF Magnitude
  <1>2. PICK j \in 0 .. MaxExponent, p \in Int :
              /\ Nearest(x, 1) = p * 2^j
              /\ 2 * (Nearest(x, 1) - x) <= 2^j
              /\ 2 * (x - Nearest(x, 1)) <= 2^j
              /\ j > 0 => H * 2^j <= 2 * Magnitude(x)
    BY <1>1, RoundsTo
  <1>3. j \in Nat /\ 2^j \in Nat /\ 2^j >= 1
    BY <1>2, Sizes, Powers
  <1>4. SUFFICES \E q \in Int : x = q * 2^j
    <2>1. PICK q \in Int : x = q * 2^j
      BY <1>4
    <2>2. p = q
      BY <1>2, <1>3, <2>1, OnGrid
    <2> QED
      BY <1>2, <2>1, <2>2
  <1>5. CASE j <= k
    <2>1. PICK c \in Nat : u = c * 2^j
      BY <1>3, <1>5, PowerDivides
    <2>2. x = (m * c) * 2^j
      BY <1>3, <2>1
    <2>3. m * c \in Int
      BY <2>1
    <2> QED
      BY <2>2, <2>3
  <1>6. CASE j >= k + 1
    <2>1. PICK c \in Nat : c >= 1 /\ 2^j = c * 2^(k + 1)
      <3>1. k + 1 \in Nat /\ k + 1 <= j
        BY <1>6
      <3> QED
        BY <1>3, <3>1, PowerDivides, Zenon
    <2>2. 2^(k + 1) = 2 * u
      BY Powers
    <2>3. Magnitude(x) = A * u
      BY <1>1 DEF Magnitude
    <2>4. H * (c * (2 * u)) <= 2 * (A * u)
      <3>1. j > 0
        BY <1>3, <1>6
      <3>2. H * 2^j <= 2 * (A * u)
        BY <1>2, <2>3, <3>1
      <3>3. 2^j = c * (2 * u)
        BY <2>1, <2>2
      <3> QED
        BY <3>2, <3>3
    <2> HIDE DEF u, x, A
    <2>5. (H * c) * u <= A * u
      BY <1>1, <2>4
    <2>6. H * c <= A
      <3>1. H * c >= A + 1 => (H * c - A) * u >= u
        BY <1>1
      <3>2. (H * c - A) * u = (H * c) * u - A * u
        BY <1>1
      <3>3. (H * c) * u \in Int /\ A * u \in Int /\ H * c \in Int
        BY <1>1
      <3> QED
        BY <1>1, <2>5, <3>1, <3>2, <3>3
    <2>7. A <= H
      BY DEF A
    <2>8. c = 1
      <3>1. c >= 2 => H * c >= H * 2
        BY <1>1, Monotone
      <3> QED
        BY <1>1, <2>1, <2>6, <2>7, <3>1
    <2>9. A = H
      BY <1>1, <2>6, <2>7, <2>8
    <2>10. PICK h \in Nat : H = 2 * h
      BY Sizes
    <2>11. m = 2 * h \/ m = 2 * (-h)
      BY <2>9, <2>10 DEF A, Magnitude
    <2>12. 2^j = 2 * u
      BY <1>1, <2>1, <2>2, <2>8
    <2>13. x = h * 2^j \/ x = (-h) * 2^j
      BY <1>1, <2>11, <2>12 DEF x
    <2>14. h \in Int /\ -h \in Int
      BY <2>10
    <2> QED
      BY <2>13, <2>14
  <1> QED
    BY <1>3, <1>5, <1>6

(* A rounded value is a value, and rounds to itself.                       *)
LEMMA Represents ==
    ASSUME NEW z \in Int, 2 * Magnitude(z) < 2^(Precision + MaxExponent)
    PROVE  InRange(Nearest(z, 1)) /\ Representable(Nearest(z, 1))
  <1> DEFINE N == Nearest(z, 1)
             M == Magnitude(z)
             L == 2^(Precision + MaxExponent)
  <1>1. L \in Nat /\ M \in Nat /\ H \in Nat
    BY Sizes, Powers DEF Magnitude
  <1>2. InRange(z) /\ 2 * M < L
    BY <1>1 DEF InRange
  <1>3. PICK k \in 0 .. MaxExponent, m \in Int :
              /\ N = m * 2^k
              /\ 2 * (N - z) <= 2^k
              /\ 2 * (z - N) <= 2^k
              /\ M < H * 2^k
    BY <1>2, RoundsTo
  <1>4. N \in Int /\ Off(N, z, M)
    BY <1>2, Rounding
  <1> DEFINE u == 2^k
  <1>5. k \in Nat /\ u \in Nat /\ u >= 1
    BY <1>3, Sizes, Powers
  <1>6. InRange(N)
    <2> HIDE DEF N, M, L
    <2>1. 1024 * (N - z) <= M /\ 1024 * (z - N) <= M
      BY <1>1, <1>4, OffMeans
    <2>2. z <= M /\ -z <= M
      BY DEF M, Magnitude
    <2>3. N < L /\ -N < L
      BY <1>1, <1>2, <1>4, <2>1, <2>2
    <2>4. Magnitude(N) < L
      BY <1>4, <2>3 DEF Magnitude
    <2> QED
      BY <2>4 DEF InRange, L
  <1>7. Magnitude(m) <= H
    <2> DEFINE A == Magnitude(m)
               a == A * u
               b == H * u
    <2>1. A \in Nat /\ Magnitude(N) = a
      BY <1>3, <1>5 DEF Magnitude
    <2>2. a \in Nat /\ b \in Nat
      BY <1>1, <1>5, <2>1
    <2>3. 2 * (N - z) <= u /\ 2 * (z - N) <= u /\ M < b
      BY <1>3
    <2>4. A >= H + 1 => a >= b + u
      <3>1. A >= H + 1 => (A - H) * u >= u
        BY <1>1, <1>5, <2>1
      <3>2. (A - H) * u = a - b
        BY <1>1, <1>5, <2>1
      <3> QED
        BY <1>5, <2>2, <3>1, <3>2
    <2> HIDE DEF A, a, b, u, N
    <2>5. a = N \/ a = -N
      BY <2>1 DEF Magnitude
    <2>6. z <= M /\ -z <= M
      BY DEF M, Magnitude
    <2> HIDE DEF M
    <2>7. a < b + u
      BY <1>1, <1>4, <1>5, <2>2, <2>3, <2>5, <2>6
    <2> QED
      BY <1>1, <1>5, <2>1, <2>2, <2>4, <2>7 DEF A
  <1>8. Nearest(m * 2^k, 1) = m * 2^k
    BY <1>3, <1>5, <1>6, <1>7, FewBits
  <1> QED
    BY <1>3, <1>6, <1>8 DEF Representable

(* Rounding does not pass a value that is larger, in magnitude.            *)
LEMMA RoundingKeepsOrder ==
    ASSUME NEW x \in Int, NEW z \in Int, Magnitude(z) <= Magnitude(x),
           InRange(x), Nearest(x, 1) = x
    PROVE  /\ z <= x => Nearest(z, 1) <= x
           /\ x <= z => x <= Nearest(z, 1)
  <1> DEFINE X == Magnitude(x)
             Z == Magnitude(z)
  <1>1. X \in Nat /\ Z \in Nat /\ InRange(z)
    <2>1. X \in Nat /\ Z \in Nat /\ 2^(Precision + MaxExponent) \in Nat
      BY Sizes, Powers DEF Magnitude
    <2> HIDE DEF X, Z
    <2>2. Z < 2^(Precision + MaxExponent)
      BY <2>1 DEF InRange, X, Z
    <2> QED
      BY <2>1, <2>2 DEF InRange, Z
  <1>2. PICK j \in 0 .. MaxExponent, q \in Int : x = q * 2^j /\ X < H * 2^j
    BY RoundsTo
  <1>3. PICK k \in 0 .. MaxExponent, m \in Int :
              /\ Nearest(z, 1) = m * 2^k
              /\ 2 * (Nearest(z, 1) - z) <= 2^k
              /\ 2 * (z - Nearest(z, 1)) <= 2^k
              /\ k > 0 => H * 2^k <= 2 * Z
    BY <1>1, RoundsTo
  <1>4. /\ j \in Nat /\ 2^j \in Nat /\ 2^j >= 1
        /\ k \in Nat /\ 2^k \in Nat /\ 2^k >= 1
        /\ H \in Nat /\ Z <= X
    BY <1>2, <1>3, Sizes, Powers
  <1> HIDE DEF X, Z
  <1>5. k <= j
    <2>1. SUFFICES ASSUME k >= j + 1 PROVE FALSE
      BY <1>4
    <2>2. PICK c \in Nat : c >= 1 /\ 2^k = c * 2^(j + 1)
      <3>1. j + 1 \in Nat /\ j + 1 <= k
        BY <1>4, <2>1
      <3> QED
        BY <1>4, <3>1, PowerDivides, Zenon
    <2>3. 2^(j + 1) = 2 * 2^j
      BY <1>4, Powers
    <2>4. 2^k >= 2 * 2^j
      BY <1>4, <2>2, <2>3
    <2>5. H * 2^k >= H * (2 * 2^j)
      BY <1>4, <2>4, Monotone
    <2> DEFINE a == H * 2^k
               b == H * 2^j
    <2>6. a \in Nat /\ b \in Nat /\ a >= 2 * b /\ X < b /\ a <= 2 * Z
      BY <1>2, <1>3, <1>4, <2>1, <2>5
    <2> HIDE DEF a, b
    <2> QED
      BY <1>1, <1>4, <2>6
  <1>6. PICK c \in Nat : 2^j = c * 2^k
    BY <1>4, <1>5, PowerDivides
  <1> DEFINE u == 2^k
             N == Nearest(z, 1)
             a == q * c
  <1>7. x = a * u /\ a \in Int
    BY <1>2, <1>4, <1>6
  <1>8. N = m * u /\ N \in Int /\ u \in Nat /\ u >= 1 /\ 2 * (N - z) <= u /\ 2 * (z - N) <= u
    BY <1>1, <1>3, <1>4, Rounding
  <1> HIDE DEF N, u, a
  <1>9. (m <= a => m * u <= a * u) /\ (m >= a => m * u >= a * u)
    BY <1>7, <1>8
  <1>10. (m >= a + 1 => m * u >= a * u + u) /\ (m <= a - 1 => m * u <= a * u - u)
    <2>1. (m >= a + 1 => (m - a - 1) * u >= 0) /\ (m <= a - 1 => (a - 1 - m) * u >= 0)
      BY <1>7, <1>8
    <2>2. (m - a - 1) * u = m * u - a * u - u /\ (a - 1 - m) * u = a * u - u - m * u
      BY <1>7, <1>8
    <2>3. m * u \in Int /\ a * u \in Int
      BY <1>7, <1>8
    <2> QED
      BY <1>8, <2>1, <2>2, <2>3
  <1> DEFINE mu == m * u
             au == a * u
  <1>11. /\ mu \in Int /\ au \in Int /\ x = au /\ N = mu
         /\ (m <= a => mu <= au) /\ (m >= a => mu >= au)
         /\ (m >= a + 1 => mu >= au + u) /\ (m <= a - 1 => mu <= au - u)
    BY <1>7, <1>8, <1>9, <1>10
  <1> HIDE DEF mu, au
  <1>12. (z <= x => N <= x) /\ (x <= z => x <= N)
    BY <1>7, <1>8, <1>11
  <1> QED
    BY <1>12 DEF N

--------------------------------------------------------------------------------
(* Time and capacity as values.                                            *)
Limit == 2^(Precision + MaxExponent)

LEMMA Bounds == Limit \in Nat /\ \A x \in Int : InRange(x) <=> (x < Limit /\ -x < Limit)
  <1>1. Limit \in Nat
    BY Sizes, Powers DEF Limit
  <1> QED
    BY <1>1 DEF InRange, Limit, Magnitude

LEMMA Integers ==
    /\ \A x, y \in Int : Plus(x, y) = Nearest(x + y, 1)
    /\ \A n \in Nat, x \in Int : Times(n, 1, x) = Nearest(n * x, 1)
    /\ \A x, y \in Int : AtLeast(x, y) <=> x >= y
    /\ \A x, y \in Int : Least(x, y) = IF x >= y THEN y ELSE x
  <1>1. Inf \notin Int /\ NaN \notin Int
    BY Sizes
  <1>2. \A x, y \in Int : NaN \notin {x, y} /\ Inf \notin {x, y}
    BY <1>1
  <1>3. \A x, y \in Int : AtLeast(x, y) <=> x >= y
    BY <1>1, <1>2 DEF AtLeast
  <1>4. \A x, y \in Int : Plus(x, y) = Nearest(x + y, 1)
    BY <1>2 DEF Plus
  <1>5. \A n \in Nat, x \in Int : Times(n, 1, x) = Nearest(n * x, 1)
    BY <1>1 DEF Times
  <1>6. \A x, y \in Int : Least(x, y) = IF x >= y THEN y ELSE x
    BY <1>2, <1>3 DEF Least
  <1> QED
    BY <1>3, <1>4, <1>5, <1>6

(* A count of at most 2^Precision is a value.                              *)
LEMMA Counts ==
    ASSUME NEW n \in Nat, n <= H, n * Scale < Limit
    PROVE  Float(n) = n * Scale /\ Representable(Float(n))
  <1>1. PICK k \in Nat : Scale = 2^k
    BY Sizes
  <1>2. Scale \in Nat /\ n * Scale \in Nat /\ Magnitude(n) = n /\ n \in Int
    BY Sizes DEF Magnitude
  <1>3. InRange(n * Scale)
    BY <1>2 DEF InRange, Magnitude, Limit
  <1>4. Magnitude(n) <= H
    BY <1>2
  <1>5. Nearest(n * 2^k, 1) = n * 2^k
    BY <1>1, <1>2, <1>3, <1>4, FewBits, Zenon
  <1> QED
    BY <1>1, <1>5 DEF Float, Representable

LEMMA Division ==
    ASSUME NEW a \in Nat, NEW n \in Nat, n >= 1
    PROVE  /\ a \div n \in Nat /\ a % n \in Nat /\ a % n < n
           /\ a = (a \div n) * n + (a % n)
  <1> DEFINE q == a \div n
             m == a % n
  <1>1. q \in Int /\ m \in Int /\ 0 <= m /\ m < n /\ a = n * q + m
    OBVIOUS
  <1> HIDE DEF q, m
  <1>2. q <= -1 => n * q <= -n
    BY <1>1
  <1>3. n * q \in Int /\ n * q = q * n
    BY <1>1
  <1>4. ~(q <= -1)
    BY <1>1, <1>2, <1>3
  <1>5. q \in Nat /\ m \in Nat /\ m < n /\ a = q * n + m
    BY <1>1, <1>3, <1>4
  <1> QED
    BY <1>5 DEF q, m

LEMMA DivisionMonotone ==
    ASSUME NEW a \in Nat, NEW b \in Nat, NEW n \in Nat, n >= 1, a <= b
    PROVE  a \div n <= b \div n
  <1> DEFINE p == a \div n
             q == b \div n
  <1>1. p \in Nat /\ q \in Nat /\ p * n <= a /\ b < q * n + n
    BY Division
  <1> HIDE DEF p, q
  <1>2. p >= q + 1 => p * n >= q * n + n
    <2>1. p >= q + 1 => (p - q - 1) * n >= 0
      BY <1>1
    <2>2. (p - q - 1) * n = p * n - q * n - n
      BY <1>1
    <2>3. p * n \in Int /\ q * n \in Int
      BY <1>1
    <2> QED
      BY <2>1, <2>2, <2>3
  <1>3. p * n \in Int /\ q * n \in Int
    BY <1>1
  <1>4. ~(p >= q + 1)
    BY <1>1, <1>2, <1>3
  <1>5. p <= q
    BY <1>1, <1>4
  <1> QED
    BY <1>5 DEF p, q

(* Products and quotients keep the sign and, nearly, the size.             *)
LEMMA Elapsed ==
    ASSUME NEW d \in Nat, d \div TicksPerSecond < H,
           2 * ((d \div TicksPerSecond + 1) * Scale) < Limit
    PROVE  /\ Seconds(d) \in Nat
           /\ Off(Seconds(d) * TicksPerSecond, d * Scale, 3 * (d * Scale))
           /\ Seconds(d) = 0 <=> d = 0
  <1> DEFINE w == d \div TicksPerSecond
             r == d % TicksPerSecond
             T == TicksPerSecond
             S == Scale
             f == Nearest(r * S, T)
             z == w * S + f
  <1>1. /\ T \in Nat /\ T >= 1 /\ S \in Nat /\ S >= 1 /\ H \in Nat /\ Limit \in Nat
        /\ 2 * S >= H * T
    BY Sizes, Bounds
  <1>2. w \in Nat /\ r \in Nat /\ r < T /\ d = w * T + r
    BY <1>1, Division
  <1>3. w < H /\ 2 * ((w + 1) * S) < Limit
    OBVIOUS
  <1> HIDE DEF w, r
  <1>4. w * S \in Nat /\ (w + 1) * S = w * S + S /\ w * S < Limit
    BY <1>1, <1>2, <1>3
  <1>5. Float(w) = w * S
    <2>1. w <= H /\ w * Scale < Limit
      BY <1>1, <1>2, <1>3, <1>4
    <2> QED
      BY <1>2, <2>1, Counts
  <1>6. r * S \in Nat /\ (r # 0 => r * S >= S)
    BY <1>1, <1>2
  <1>7. r * S = 0 \/ 2 * (r * S) >= H * T
    <2>1. CASE r = 0
      BY <1>1, <2>1
    <2>2. CASE r # 0
      <3>1. H * T \in Nat
        BY <1>1
      <3> HIDE DEF T, S
      <3> QED
        BY <1>1, <1>6, <2>2, <3>1
    <2> QED
      BY <2>1, <2>2
  <1>8. InRange((r * S) \div T)
    <2>1. r * S <= S * T
      BY <1>1, <1>2, <1>6
    <2>2. (S * T) \div T = S
      BY <1>1
    <2>3. S * T \in Nat
      BY <1>1
    <2>4. (r * S) \div T <= S /\ (r * S) \div T \in Nat
      <3> DEFINE a == r * S
                 b == S * T
      <3>1. a \in Nat /\ b \in Nat /\ a <= b /\ b \div T = S
        BY <1>6, <2>1, <2>2, <2>3
      <3> HIDE DEF a, b, S, T
      <3>2. a \div T <= b \div T /\ a \div T \in Nat
        BY <1>1, <3>1, Division, DivisionMonotone
      <3> QED
        BY <3>1, <3>2 DEF a
    <2> DEFINE q == (r * S) \div T
    <2>5. q \in Nat /\ q <= S
      BY <2>4
    <2> HIDE DEF q, S
    <2>6. q < Limit /\ -q < Limit
      BY <1>1, <1>3, <1>4, <2>5
    <2> QED
      BY <2>5, <2>6, Bounds DEF q, S
  <1>9. f \in Nat /\ Off(f * T, r * S, r * S)
    <2> HIDE DEF T, S
    <2> QED
      BY <1>1, <1>6, <1>7, <1>8, Quotients
  <1>10. Seconds(d) = Nearest(z, 1)
    BY <1>4, <1>5, <1>9, Integers DEF Seconds, w, r
  <1> HIDE DEF f
  <1> DEFINE a == f * T
             b == r * S
             k == w * T
             g == w * S
  <1>11. a \in Nat /\ b \in Nat /\ 1024 * (a - b) <= b /\ 1024 * (b - a) <= b
    BY <1>1, <1>6, <1>9, OffMeans
  <1>12. f <= 2 * S
    <2>1. b <= S * T
      BY <1>1, <1>2
    <2>2. f >= 2 * S + 1 => a >= 2 * (S * T) + T
      <3>1. f >= 2 * S + 1 => (f - 2 * S - 1) * T >= 0
        BY <1>1, <1>9
      <3>2. (f - 2 * S - 1) * T = a - 2 * (S * T) - T
        BY <1>1, <1>9
      <3>3. S * T \in Nat
        BY <1>1
      <3> QED
        BY <1>1, <1>11, <3>1, <3>2, <3>3
    <2> DEFINE e == S * T
    <2>3. e \in Nat /\ T >= 1 /\ T \in Nat
      BY <1>1
    <2> HIDE DEF a, b, e, S, T
    <2>4. b <= e /\ (f >= 2 * S + 1 => a >= 2 * e + T)
      BY <2>1, <2>2 DEF e
    <2>5. ~(f >= 2 * S + 1)
      BY <1>11, <2>3, <2>4
    <2> QED
      BY <1>1, <1>9, <2>5 DEF S
  <1>13. z \in Nat /\ InRange(z)
    <2>1. g \in Nat /\ 2 * (g + S) < Limit /\ z = g + f
      BY <1>3, <1>4
    <2> HIDE DEF g, z, S
    <2>2. z \in Nat /\ z < Limit /\ -z < Limit
      BY <1>1, <1>9, <1>12, <2>1 DEF S
    <2> QED
      BY <2>2, Bounds
  <1> DEFINE s == Nearest(z, 1)
             E == d * S
             x == z * T
  <1>14. s \in Nat /\ Off(s, z, z) /\ (z = 0 <=> s = 0)
    <2>1. Magnitude(z) = z
      BY <1>13 DEF Magnitude
    <2>2. s \in Int /\ Off(s, z, z)
      BY <1>13, <2>1, Rounding
    <2>3. s >= 0 /\ (z > 0 => s > 0) /\ (z = 0 => s = 0)
      BY <1>13, RoundingKeepsSign
    <2> HIDE DEF s, z
    <2> QED
      BY <1>13, <2>2, <2>3
  <1> HIDE DEF s
  <1>15. Off(s * T, x, x)
    <2>1. Off(T * s, T * z, T * z)
      BY <1>1, <1>13, <1>14, OffScale
    <2>2. T * s = s * T /\ T * z = z * T
      BY <1>1, <1>13, <1>14
    <2> QED
      BY <2>1, <2>2
  <1>16. Off(x, E, b)
    <2>1. x = k * S + a /\ E = k * S + b
      BY <1>1, <1>2, <1>9
    <2> DEFINE y == k * S
    <2>2. y \in Nat
      BY <1>1, <1>2
    <2>3. H * (y + a) = H * y + H * a /\ H * (y + b) = H * y + H * b
      BY <1>1, <1>11, <2>2
    <2> HIDE DEF y, a, b
    <2>4. H * y \in Nat /\ H * a \in Nat /\ H * b \in Nat
      BY <1>1, <1>11, <2>2
    <2>5. H * a <= H * b + b /\ H * b <= H * a + b
      BY <1>9 DEF Off, a, b
    <2>6. H * (y + a) <= H * (y + b) + b /\ H * (y + b) <= H * (y + a) + b
      BY <1>11, <2>3, <2>4, <2>5
    <2>7. x = y + a /\ E = y + b
      BY <2>1 DEF y
    <2> QED
      BY <2>6, <2>7 DEF Off
  <1>17. E \in Nat /\ x \in Nat /\ b <= E /\ s * T \in Int
    <2>1. E = k * S + b /\ k * S \in Nat
      BY <1>1, <1>2
    <2> QED
      BY <1>1, <1>11, <1>13, <1>14, <2>1
  <1>18. Off(s * T, E, x + b)
    BY <1>11, <1>15, <1>16, <1>17, OffTriangle
  <1>19. x + b <= 3 * E
    <2>1. 1024 * (x - E) <= b
      BY <1>11, <1>16, <1>17, OffMeans
    <2> HIDE DEF x, b, E
    <2> QED
      BY <1>11, <1>17, <2>1
  <1>20. Off(s * T, E, 3 * E)
    <2> DEFINE y == s * T
    <2>1. y \in Int /\ E \in Int /\ x + b \in Int /\ 3 * E \in Int
      BY <1>11, <1>17
    <2> HIDE DEF x, b, E, y
    <2> QED
      BY <1>18, <1>19, <2>1, OffWeaken DEF y
  <1>21. s = 0 <=> d = 0
    <2>1. d = 0 => z = 0
      <3>1. ASSUME d = 0 PROVE f = 0
        <4>1. r = 0 /\ w = 0
          <5>1. w * T \in Nat /\ w * T = 0 /\ r = 0
            BY <1>1, <1>2, <3>1
          <5>2. w >= 1 => w * T >= 1
            BY <1>1, <1>2
          <5> QED
            BY <1>2, <5>1, <5>2
        <4>2. b = 0
          BY <1>1, <4>1
        <4>3. f * T <= 0
          BY <1>11, <4>2
        <4>4. f >= 1 => f * T >= 1
          BY <1>1, <1>9
        <4> QED
          <5>1. f * T \in Int
            BY <1>1, <1>9
          <5> HIDE DEF T
          <5>2. ~(f >= 1)
            BY <4>3, <4>4, <5>1
          <5> QED
            BY <1>9, <5>2
      <3>2. d = 0 => w = 0
        <4>1. w >= 1 => w * T >= 1
          BY <1>1, <1>2
        <4> QED
          BY <1>1, <1>2, <4>1
      <3> QED
        BY <1>1, <3>1, <3>2
    <2>2. z = 0 => d = 0
      <3>1. z = 0 => x = 0
        BY <1>1
      <3>2. x = 0 => E = 0
        <4>1. 1024 * (E - x) <= b
          BY <1>11, <1>16, <1>17, OffMeans
        <4> HIDE DEF x, b, E
        <4> QED
          BY <1>11, <1>17, <4>1
      <3>3. E = 0 => d = 0
        <4>1. d >= 1 => d * S >= S
          BY <1>1
        <4> QED
          BY <1>1, <4>1
      <3> QED
        BY <3>1, <3>2, <3>3
    <2> QED
      BY <1>14, <2>1, <2>2
  <1> QED
    BY <1>10, <1>14, <1>20, <1>21 DEF s

(* Of a quantity that is rounded twice and multiplied once: what a rate    *)
(* adds in d ticks is off by five parts in 2^Precision.  B bounds it.      *)
LEMMA Accrual ==
    ASSUME NEW r \in Int, NEW d \in Nat, d \div TicksPerSecond < H,
           2 * ((d \div TicksPerSecond + 1) * Scale) < Limit,
           r = 0 \/ Magnitude(r) * Scale >= H * Parts,
           NEW B \in Nat, 2 * B < Limit,
           Magnitude(r) * ((d \div TicksPerSecond + 1) * Scale) <= RateScale * B
    PROVE  LET x == Times(r, RateScale, Seconds(d))
           IN  /\ x \in Int
               /\ r <= 0 => x <= 0
               /\ r >= 0 =>
                    /\ x >= 0 /\ x <= 2 * B
                    /\ Off(x * Parts, r * d * Scale, 5 * (r * d * Scale))
  <1> DEFINE w == d \div TicksPerSecond
             T == TicksPerSecond
             R == RateScale
             S == Scale
             V == (w + 1) * S
             M == Magnitude(r)
             s == Seconds(d)
             E == d * S
             p == M * s
             N == Nearest(p, R)
  <1>1. /\ T \in Nat /\ T >= 1 /\ S \in Nat /\ S >= 1 /\ Limit \in Nat /\ H \in Nat
        /\ R \in Nat /\ R >= 1 /\ Parts = T * R
        /\ w \in Nat /\ d <= (w + 1) * T /\ M \in Nat
    <2>1. T \in Nat /\ T >= 1 /\ S \in Nat /\ S >= 1 /\ Limit \in Nat /\ H \in Nat
          /\ R \in Nat /\ R >= 1 /\ Parts = T * R
      BY Sizes, Bounds
    <2>2. w \in Nat /\ (d % T) \in Nat /\ (d % T) < T /\ d = w * T + (d % T)
      BY <2>1, Division
    <2>3. (w + 1) * T = w * T + T /\ w * T \in Nat
      BY <2>1, <2>2
    <2> QED
      BY <2>1, <2>2, <2>3 DEF Magnitude
  <1>2. s \in Nat /\ Off(s * T, E, 3 * E) /\ (s = 0 <=> d = 0)
    BY Elapsed
  <1>3. 2 * B < Limit /\ M * V <= R * B
    OBVIOUS
  <1>4. r = 0 \/ M * S >= H * (T * R)
    BY <1>1
  <1>5. /\ r >= 0 => M = r
        /\ r < 0 => M = -r
        /\ M = 0 => r = 0
    BY DEF Magnitude
  <1> HIDE DEF w, s, M
  <1>6. V \in Nat /\ E \in Nat /\ E <= V * T
    <2>1. V \in Nat /\ E \in Nat
      BY <1>1
    <2>2. S * d <= S * ((w + 1) * T)
      BY <1>1, Monotone
    <2>3. S * d = E /\ S * ((w + 1) * T) = V * T
      BY <1>1
    <2> QED
      BY <2>1, <2>2, <2>3
  <1>7. 1024 * (s * T - E) <= 3 * E /\ 1024 * (E - s * T) <= 3 * E
    <2>1. s * T \in Int /\ 3 * E \in Nat
      BY <1>1, <1>2, <1>6
    <2> QED
      BY <1>2, <1>6, <2>1, OffMeans
  <1>8. 1024 * s <= 1027 * V
    <2> DEFINE a == s * T
               b == V * T
               e == (1024 * s - 1027 * V) * T
    <2>1. a \in Nat /\ b \in Nat
      BY <1>1, <1>2, <1>6
    <2>2. 1024 * a <= 1027 * b
      <3> HIDE DEF a, b, E
      <3> QED
        BY <1>6, <1>7, <2>1 DEF a, b
    <2>3. 1024 * s >= 1027 * V + 1 => e >= T
      BY <1>1, <1>2, <1>6
    <2>4. e = 1024 * a - 1027 * b
      BY <1>1, <1>2, <1>6
    <2> HIDE DEF a, b, e, V, T
    <2> QED
      BY <1>1, <1>2, <1>6, <2>1, <2>2, <2>3, <2>4 DEF V, T
  <1> HIDE DEF V
  <1>9. p \in Nat /\ 1024 * p <= 1027 * (R * B)
    <2>1. p \in Nat /\ M * V \in Nat /\ R * B \in Nat
      BY <1>1, <1>2, <1>6
    <2>2. M * (1024 * s) <= M * (1027 * V)
      BY <1>1, <1>2, <1>6, <1>8, Monotone
    <2>3. M * (1024 * s) = 1024 * p /\ M * (1027 * V) = 1027 * (M * V)
      BY <1>1, <1>2, <1>6
    <2> DEFINE m == M * V
               k == R * B
    <2>4. m \in Nat /\ k \in Nat /\ m <= k /\ 1024 * p <= 1027 * m
      BY <1>3, <2>1, <2>2, <2>3
    <2> HIDE DEF m, k, p
    <2>5. 1024 * p <= 1027 * k
      BY <2>1, <2>4
    <2> QED
      BY <2>1, <2>5 DEF k
  <1>10. InRange(p \div R)
    <2> DEFINE q == p \div R
    <2>1. q \in Nat /\ q * R <= p
      <3>1. q \in Nat /\ (p % R) \in Nat /\ p = q * R + (p % R) /\ q * R \in Nat
        <4> HIDE DEF p
        <4> QED
          BY <1>1, <1>9, Division
      <3> HIDE DEF p, q
      <3> QED
        BY <3>1
    <2> HIDE DEF q, p
    <2>2. q >= 2 * B + 1 => R * q >= R * (2 * B + 1)
      BY <1>1, <2>1, Monotone
    <2>3. R * (2 * B + 1) = 2 * (R * B) + R /\ R * q = q * R /\ q * R \in Nat /\ R * B \in Nat
      BY <1>1, <2>1
    <2>4. ~(q >= 2 * B + 1)
      BY <1>1, <1>9, <2>1, <2>2, <2>3
    <2>5. q < Limit /\ -q < Limit
      BY <1>1, <1>3, <2>1, <2>4
    <2> QED
      BY <2>1, <2>5, Bounds DEF q
  <1>11. p = 0 \/ 2 * p >= H * R
    <2>1. CASE r = 0 \/ d = 0
      <3>1. M = 0 \/ s = 0
        BY <1>2, <1>5, <2>1
      <3>2. p = 0
        BY <1>1, <1>2, <3>1
      <3> QED
        BY <3>2
    <2>2. CASE r # 0 /\ d # 0
      <3> DEFINE m == M * S
                 h == H * R
                 y == p * T
      <3>1. S <= E
        BY <1>1, <2>2
      <3>2. 1021 * S <= 1024 * (s * T)
        <4> DEFINE a == s * T
        <4>1. a \in Nat
          BY <1>1, <1>2
        <4> HIDE DEF a, E
        <4> QED
          BY <1>1, <1>6, <1>7, <3>1, <4>1 DEF a
      <3>3. 1021 * m <= 1024 * y
        <4>1. M * (1021 * S) <= M * (1024 * (s * T))
          <5> DEFINE a == 1021 * S
                     b == 1024 * (s * T)
          <5>1. a \in Int /\ b \in Int /\ a <= b
            BY <1>1, <1>2, <3>2
          <5> HIDE DEF a, b
          <5>2. M * a <= M * b
            BY <1>1, <5>1, Monotone
          <5> QED
            BY <5>2 DEF a, b
        <4>2. M * (1021 * S) = 1021 * m /\ M * (1024 * (s * T)) = 1024 * y
          BY <1>1, <1>2
        <4> QED
          BY <4>1, <4>2
      <3>4. m >= h * T /\ m \in Nat /\ h \in Nat /\ h * T \in Nat /\ y \in Nat
        <4>1. H * (T * R) = h * T
          BY <1>1
        <4> QED
          BY <1>1, <1>4, <1>9, <2>2, <4>1
      <3>5. 2 * y >= h * T
        <4> DEFINE b == h * T
        <4> HIDE DEF b, m, h, y
        <4> QED
          BY <3>3, <3>4 DEF b
      <3> HIDE DEF h, p
      <3>6. 2 * p <= h - 1 => T * (2 * p) <= T * (h - 1)
        BY <1>1, <1>9, <3>4, Monotone
      <3>7. T * (2 * p) = 2 * y /\ T * (h - 1) = h * T - T
        BY <1>1, <1>9, <3>4
      <3> HIDE DEF y
      <3>8. 2 * p >= h
        BY <1>1, <1>9, <3>4, <3>5, <3>6, <3>7
      <3> QED
        BY <3>8 DEF h
    <2> QED
      BY <2>1, <2>2
  <1> HIDE DEF p, E
  <1>12. N \in Nat /\ Off(N * R, p, p)
    BY <1>1, <1>9, <1>10, <1>11, Quotients
  <1> DEFINE x == Times(r, R, s)
  <1>13. x = IF r >= 0 THEN N ELSE -N
    <2>1. r # Inf /\ r \in Int
      BY Sizes
    <2>2. CASE r >= 0
      <3>1. r * s = p
        BY <1>5, <2>2 DEF p
      <3> QED
        BY <2>1, <2>2, <3>1 DEF Times
    <2>3. CASE r < 0
      <3>1. -(r * s) = p
        BY <1>2, <1>5, <2>3 DEF p
      <3> QED
        BY <2>1, <2>3, <3>1 DEF Times
    <2> QED
      BY <2>1, <2>2, <2>3
  <1> HIDE DEF N, x
  <1>14. N <= 2 * B
    <2>1. 1024 * (N * R - p) <= p
      <3>1. N * R \in Int
        BY <1>1, <1>12
      <3> QED
        BY <1>9, <1>12, <3>1, OffMeans
    <2>2. N >= 2 * B + 1 => R * N >= R * (2 * B + 1)
      BY <1>1, <1>12, Monotone
    <2>3. R * (2 * B + 1) = 2 * (R * B) + R /\ R * N = N * R /\ N * R \in Nat /\ R * B \in Nat
      BY <1>1, <1>12
    <2> DEFINE n == N * R
               k == R * B
    <2>4. /\ n \in Nat /\ k \in Nat /\ 1024 * (n - p) <= p /\ 1024 * p <= 1027 * k
          /\ N >= 2 * B + 1 => n >= 2 * k + R
      BY <1>9, <2>1, <2>2, <2>3
    <2> HIDE DEF n, k
    <2>5. ~(N >= 2 * B + 1)
      BY <1>1, <1>9, <2>4
    <2> QED
      BY <1>12, <2>5
  <1>15. ASSUME r >= 0
         PROVE  Off(N * Parts, r * d * S, 5 * (r * d * S))
    <2> DEFINE y == p * T
               G == r * d * S
               X == N * Parts
    <2>1. r \in Nat /\ p = r * s
      BY <1>5, <1>15 DEF p
    <2>2. X \in Int /\ y \in Nat /\ G \in Nat
      <3>1. d * S \in Nat /\ r * d * S = r * (d * S)
        BY <1>1, <2>1
      <3>2. G \in Nat
        BY <2>1, <3>1
      <3> QED
        BY <1>1, <1>9, <1>12, <3>2
    <2>3. Off(X, y, y)
      <3>1. Off(T * (N * R), T * p, T * p)
        <4>1. N * R \in Int /\ p \in Int
          BY <1>1, <1>9, <1>12
        <4> QED
          BY <1>1, <1>12, <4>1, OffScale, Zenon
      <3>2. T * (N * R) = X /\ T * p = y
        BY <1>1, <1>9, <1>12
      <3> QED
        BY <3>1, <3>2
    <2>4. Off(y, G, 3 * G)
      <3>1. Off(r * (s * T), r * E, r * (3 * E))
        <4>1. s * T \in Int /\ 3 * E \in Int /\ E \in Int
          BY <1>1, <1>2, <1>6
        <4> QED
          BY <1>2, <2>1, <4>1, OffScale, Zenon
      <3>2. r * (s * T) = y
        BY <1>1, <1>2, <2>1
      <3>3. r * E = G /\ r * (3 * E) = 3 * (r * E)
        BY <1>1, <1>6 DEF E
      <3> QED
        BY <3>1, <3>2, <3>3
    <2> HIDE DEF y, G, X
    <2>5. Off(X, G, y + 3 * G)
      BY <2>2, <2>3, <2>4, OffTriangle
    <2>6. 1024 * (y - G) <= 3 * G
      <3>1. 3 * G \in Nat
        BY <2>2
      <3> QED
        BY <2>2, <2>4, <3>1, OffMeans
    <2>7. y + 3 * G <= 5 * G
      BY <2>2, <2>6
    <2>8. Off(X, G, 5 * G)
      <3>1. y + 3 * G \in Int /\ 5 * G \in Int
        BY <2>2
      <3> QED
        BY <2>2, <2>5, <2>7, <3>1, OffWeaken
    <2> QED
      BY <2>8 DEF G, X
  <1>16. /\ x \in Int
         /\ r <= 0 => x <= 0
         /\ r >= 0 => x = N
    <2>1. r = 0 => N = 0
      <3>1. r = 0 => p = 0
        BY <1>2, <1>5 DEF p
      <3>2. p = 0 => 1024 * (N * R) <= 0
        <4>1. N * R \in Int
          BY <1>1, <1>12
        <4>2. 1024 * (N * R - p) <= p
          BY <1>9, <1>12, <4>1, OffMeans
        <4> QED
          BY <4>1, <4>2
      <3>3. N >= 1 => R * N >= R * 1
        BY <1>1, <1>12, Monotone
      <3>4. R * N = N * R /\ N * R \in Nat
        BY <1>1, <1>12
      <3> QED
        BY <1>1, <1>12, <3>1, <3>2, <3>3, <3>4
    <2> QED
      BY <1>12, <1>13, <2>1
  <1> QED
    BY <1>12, <1>14, <1>15, <1>16 DEF x, s

(* What the assumptions say of a configuration.                            *)
LEMMA Configured ==
    ASSUME config \in Configs
    PROVE  /\ config.kind \in {"spend", "fill", "slide"}
           /\ config.capacity \in Nat /\ config.capacity >= 1 /\ 2 * config.capacity <= H
           /\ config.rate \in Int \cup {Inf}
           /\ config.rate \in Int =>
                config.rate = 0 \/ Magnitude(config.rate) * Scale >= H * Parts
           /\ config.kind = "spend" => config.rate = Inf \/ config.rate >= 0
           /\ Influx(config) \in Nat /\ Ticks \in Nat /\ Ticks \div TicksPerSecond \in Nat
           /\ Ticks \div TicksPerSecond < H
           /\ MaxCalls \in Nat /\ MaxGap \in Nat /\ EpsilonRel \in Nat /\ 512 * EpsilonRel <= Scale
           /\ Window \in Nat /\ Window >= 1 /\ 2 * Scale >= H * Window
           /\ config.batches # {}
           /\ \A n \in config.batches :
                /\ n \in Nat /\ n >= 1 /\ n <= H
                /\ 4 * (config.capacity * Scale) + 2 * (n * Scale) + 2 * (Influx(config) * Scale)
                     + 2 * ((Ticks \div TicksPerSecond + 1) * Scale) < Limit
  <1>1. /\ MaxCalls \in Nat /\ MaxGap \in Nat /\ EpsilonRel \in Nat /\ 512 * EpsilonRel <= Scale
        /\ Window \in Nat /\ Window >= 1 /\ 2 * Scale >= H * Window
        /\ Ticks \div TicksPerSecond < H
    BY FloatBucketsAssumption DEF H
  <1>2. /\ config.kind \in {"spend", "fill", "slide"}
        /\ config.capacity \in Nat /\ config.capacity >= 1 /\ 2 * config.capacity <= H
        /\ config.rate \in Int \cup {Inf}
        /\ config.rate \in {0, Inf} \/ Magnitude(config.rate) * Scale >= H * Parts
        /\ config.kind = "spend" => config.rate = Inf \/ config.rate >= 0
        /\ config.batches \subseteq 1 .. H /\ config.batches # {}
    BY FloatBucketsAssumption DEF H
  <1>3. Ticks \in Nat
    BY <1>1 DEF Ticks
  <1>4. TicksPerSecond \in Nat /\ TicksPerSecond >= 1 /\ Scale \in Nat /\ H \in Nat
    BY Sizes
  <1>5. Ticks \div TicksPerSecond \in Nat
    BY <1>3, <1>4, Division
  <1>6. Influx(config) \in Nat
    <2>1. CASE config.rate = Inf
      BY <2>1 DEF Influx
    <2>2. CASE config.rate # Inf
      <3> DEFINE a == Magnitude(config.rate) * (Ticks \div TicksPerSecond + 1)
      <3>1. Magnitude(config.rate) \in Nat
        BY <1>2, <2>2 DEF Magnitude
      <3>2. a \in Nat
        BY <1>5, <3>1
      <3> HIDE DEF a
      <3>3. a \div RateScale \in Nat
        BY <3>2, Sizes, Division
      <3> QED
        BY <2>2, <3>3 DEF Influx, a
    <2> QED
      BY <2>1, <2>2
  <1>7. ASSUME NEW n \in config.batches
        PROVE  /\ n \in Nat /\ n >= 1 /\ n <= H
               /\ 4 * (config.capacity * Scale) + 2 * (n * Scale) + 2 * (Influx(config) * Scale)
                    + 2 * ((Ticks \div TicksPerSecond + 1) * Scale) < Limit
    <2> DEFINE c == config.capacity
               i == Influx(config)
               t == Ticks \div TicksPerSecond
    <2>1. n \in Nat /\ n >= 1 /\ n <= H
      BY <1>2, <1>4
    <2>2. 2 * (2 * c + n + i + t + 1) * Scale < Limit
      BY FloatBucketsAssumption DEF Limit
    <2>3. c \in Nat /\ i \in Nat /\ t \in Nat
      BY <1>2, <1>5, <1>6
    <2> HIDE DEF c, i, t
    <2>4. 2 * (2 * c + n + i + t + 1) * Scale
            = 4 * (c * Scale) + 2 * (n * Scale) + 2 * (i * Scale) + 2 * ((t + 1) * Scale)
      BY <1>4, <2>1, <2>3
    <2> QED
      BY <2>1, <2>2, <2>4 DEF c, i, t
  <1>8. config.rate \in Int =>
          config.rate = 0 \/ Magnitude(config.rate) * Scale >= H * Parts
    BY <1>2, Sizes
  <1> QED
    BY <1>1, <1>2, <1>3, <1>5, <1>6, <1>7, <1>8

(* No stretch of a run is too long for a value.                            *)
LEMMA Passing ==
    ASSUME config \in Configs, NEW d \in 0 .. Ticks
    PROVE  /\ d \div TicksPerSecond < H
           /\ 2 * ((d \div TicksPerSecond + 1) * Scale) < Limit
           /\ 4 * (config.capacity * Scale) + 2 * (Influx(config) * Scale) < Limit
           /\ config.rate \in Int =>
                Magnitude(config.rate) * ((d \div TicksPerSecond + 1) * Scale)
                  <= RateScale * (Influx(config) * Scale)
  <1> DEFINE T == Ticks \div TicksPerSecond
             w == d \div TicksPerSecond
             i == Influx(config)
             c == config.capacity * Scale
             V == (w + 1) * Scale
  <1>1. /\ T \in Nat /\ T < H /\ i \in Nat /\ Ticks \in Nat /\ c \in Nat
        /\ Scale \in Nat /\ TicksPerSecond \in Nat /\ TicksPerSecond >= 1 /\ H \in Nat
        /\ Limit \in Nat
    BY Configured, Sizes, Bounds
  <1>2. w \in Nat /\ w <= T
    BY <1>1, Division, DivisionMonotone
  <1>3. PICK n \in config.batches : n \in Nat /\ 4 * c + 2 * (n * Scale) + 2 * (i * Scale)
                                                  + 2 * ((T + 1) * Scale) < Limit
    BY Configured
  <1> HIDE DEF w, T, c
  <1>4. V \in Nat /\ V <= (T + 1) * Scale /\ (T + 1) * Scale \in Nat
        /\ i * Scale \in Nat /\ n * Scale \in Nat
    <2>1. Scale * (w + 1) <= Scale * (T + 1)
      BY <1>1, <1>2, Monotone
    <2> QED
      BY <1>1, <1>2, <1>3, <2>1
  <1>5. ASSUME config.rate \in Int
        PROVE  Magnitude(config.rate) * V <= RateScale * (i * Scale)
    <2> DEFINE M == Magnitude(config.rate)
               R == RateScale
               a == M * (T + 1)
    <2>1. M \in Nat /\ R \in Nat /\ R >= 1 /\ a \in Nat
      BY <1>1, <1>5, Sizes DEF Magnitude
    <2>2. a <= R * i
      <3>1. i = a \div R + 1
        BY <1>5, Sizes DEF Influx, T
      <3> HIDE DEF a
      <3>2. /\ a \div R \in Nat /\ a % R < R /\ a % R \in Nat
            /\ a = (a \div R) * R + (a % R)
        BY <2>1, Division
      <3> DEFINE q == a \div R
      <3>3. R * (q + 1) = q * R + R /\ q * R \in Nat
        BY <2>1, <3>2
      <3> QED
        BY <2>1, <3>1, <3>2, <3>3
    <2>3. M * V <= M * ((T + 1) * Scale)
      BY <1>4, <2>1, Monotone
    <2>4. M * ((T + 1) * Scale) = Scale * a
      BY <1>1, <2>1
    <2>5. Scale * a <= Scale * (R * i)
      BY <1>1, <2>1, <2>2, Monotone
    <2>6. Scale * (R * i) = R * (i * Scale)
      BY <1>1, <2>1
    <2>7. M * V \in Nat /\ Scale * a \in Nat /\ Scale * (R * i) \in Nat
      BY <1>1, <1>4, <2>1
    <2> QED
      BY <2>3, <2>4, <2>5, <2>6, <2>7
  <1> DEFINE t1 == (T + 1) * Scale
             i1 == i * Scale
             n1 == n * Scale
  <1>6. /\ t1 \in Nat /\ i1 \in Nat /\ n1 \in Nat /\ V <= t1
        /\ 4 * c + 2 * n1 + 2 * i1 + 2 * t1 < Limit
    BY <1>3, <1>4
  <1> HIDE DEF t1, i1, n1, V
  <1>7. w < H /\ 2 * V < Limit /\ 4 * c + 2 * i1 < Limit
    BY <1>1, <1>2, <1>4, <1>6
  <1> QED
    BY <1>5, <1>7 DEF w, V, i1, c

LEMMA CapacityIs ==
    ASSUME config \in Configs
    PROVE  /\ Capacity = config.capacity * Scale /\ Capacity \in Nat /\ Capacity >= Scale
           /\ Capacity >= 1
           /\ 4 * Capacity < Limit
           /\ Representable(Capacity) /\ Nearest(Capacity, 1) = Capacity /\ InRange(Capacity)
  <1> DEFINE c == config.capacity * Scale
  <1>1. c \in Nat /\ c >= Scale /\ Scale \in Nat /\ Scale >= 1 /\ Limit \in Nat
        /\ config.capacity \in Nat /\ config.capacity <= H
    BY Configured, Sizes, Bounds
  <1>2. 4 * c < Limit
    <2>1. PICK n \in config.batches : n \in Nat /\ 4 * c + 2 * (n * Scale) + 2 * (Influx(config) * Scale)
              + 2 * ((Ticks \div TicksPerSecond + 1) * Scale) < Limit
      BY Configured
    <2>2. /\ n * Scale \in Nat /\ Influx(config) * Scale \in Nat
          /\ (Ticks \div TicksPerSecond + 1) * Scale \in Nat
      BY <1>1, <2>1, Configured
    <2> HIDE DEF c
    <2> QED
      BY <1>1, <2>1, <2>2
  <1>3. c < Limit
    BY <1>1, <1>2
  <1>4. Capacity = c /\ Representable(Capacity)
    BY <1>1, <1>3, Counts DEF Capacity
  <1>5. c # Inf /\ c # NaN
    BY <1>1, Sizes
  <1>6. Nearest(c, 1) = c
    BY <1>4, <1>5 DEF Representable, Finite
  <1>7. InRange(c)
    BY <1>1, <1>3 DEF InRange, Magnitude, Limit
  <1> QED
    BY <1>1, <1>2, <1>4, <1>6, <1>7

(* What a finite rate adds in a stretch of a run, next to a bound M on it. *)
LEMMA AccruedIs ==
    ASSUME config \in Configs, config.rate \in Int, NEW d \in 0 .. Ticks
    PROVE  \E M \in Nat :
              /\ 4 * Capacity + 2 * M < Limit
              /\ Accrued(d) \in Int
              /\ config.rate <= 0 => Accrued(d) <= 0
              /\ config.rate >= 0 =>
                   /\ Accrued(d) >= 0 /\ Accrued(d) <= 2 * M
                   /\ Off(Accrued(d) * Parts, config.rate * d * Scale,
                          5 * (config.rate * d * Scale))
  <1> DEFINE r == config.rate
             M == Influx(config) * Scale
             V == (d \div TicksPerSecond + 1) * Scale
  <1>1. /\ r \in Int /\ (r = 0 \/ Magnitude(r) * Scale >= H * Parts)
        /\ M \in Nat /\ d \in Nat /\ Limit \in Nat /\ Capacity \in Nat
        /\ Capacity = config.capacity * Scale
    BY Configured, Sizes, Bounds, CapacityIs
  <1>2. /\ d \div TicksPerSecond < H /\ 2 * V < Limit /\ 4 * Capacity + 2 * M < Limit
        /\ Magnitude(r) * V <= RateScale * M
    BY <1>1, Passing
  <1> HIDE DEF M, r
  <1>3. 2 * M < Limit
    BY <1>1, <1>2
  <1> DEFINE x == Times(r, RateScale, Seconds(d))
  <1>4. /\ x \in Int
        /\ r <= 0 => x <= 0
        /\ r >= 0 =>
             /\ x >= 0 /\ x <= 2 * M
             /\ Off(x * Parts, r * d * Scale, 5 * (r * d * Scale))
    BY <1>1, <1>2, <1>3, Accrual
  <1>5. Accrued(d) = x
    BY DEF Accrued, r
  <1> HIDE DEF x
  <1> QED
    BY <1>1, <1>2, <1>4, <1>5 DEF r

(* The slack of n is off by one part of itself, and is less than a 256th.  *)
LEMMA SlackIs ==
    ASSUME config \in Configs, NEW n \in Nat, n >= 1, n * Scale < Limit
    PROVE  /\ AdmitEpsilon(n) \in Nat
           /\ Off(AdmitEpsilon(n), n * EpsilonRel, n * EpsilonRel)
           /\ 512 * (n * EpsilonRel) <= n * Scale
  <1> DEFINE z == n * EpsilonRel
             y == n * Scale
  <1>1. EpsilonRel \in Nat /\ 512 * EpsilonRel <= Scale /\ Scale \in Nat /\ Limit \in Nat
    BY Configured, Sizes, Bounds
  <1>2. z \in Nat /\ y \in Nat /\ 512 * z <= y
    <2>1. n * (512 * EpsilonRel) <= n * Scale
      BY <1>1, Monotone
    <2>2. n * (512 * EpsilonRel) = 512 * z
      BY <1>1
    <2> QED
      BY <1>1, <2>1, <2>2
  <1>3. y < Limit
    OBVIOUS
  <1>4. AdmitEpsilon(n) = Nearest(z, 1)
    BY <1>1, Integers DEF AdmitEpsilon
  <1> HIDE DEF z, y
  <1>5. InRange(z) /\ Magnitude(z) = z
    BY <1>1, <1>2, <1>3, Bounds DEF Magnitude
  <1>6. Nearest(z, 1) \in Int /\ Off(Nearest(z, 1), z, z) /\ Nearest(z, 1) >= 0
    BY <1>2, <1>5, Rounding, RoundingKeepsSign
  <1> QED
    BY <1>2, <1>4, <1>6 DEF z, y

--------------------------------------------------------------------------------
(* Sums and minima of quantities with errors.                              *)
Lesser(a, b) == IF a >= b THEN b ELSE a

LEMMA Cancel ==
    ASSUME NEW a \in Int, NEW b \in Int, H * a <= H * b
    PROVE  a <= b
  <1>1. H \in Nat /\ H >= 1
    BY Sizes
  <1>2. a >= b + 1 => H * (a - b) >= H * 1
    BY <1>1, Monotone
  <1>3. H * (a - b) = H * a - H * b /\ H * a \in Int /\ H * b \in Int
    BY <1>1
  <1> QED
    BY <1>1, <1>2, <1>3

LEMMA OffSum ==
    ASSUME NEW a \in Int, NEW b \in Int, NEW c \in Int, NEW d \in Int, NEW e \in Int, NEW f \in Int,
           Off(a, b, e), Off(c, d, f)
    PROVE  Off(a + c, b + d, e + f)
  <1> DEFINE ha == H * a
             hb == H * b
             hc == H * c
             hd == H * d
  <1>1. /\ ha \in Int /\ hb \in Int /\ hc \in Int /\ hd \in Int
        /\ H * (a + c) = ha + hc /\ H * (b + d) = hb + hd
    BY Sizes
  <1>2. ha <= hb + e /\ hb <= ha + e /\ hc <= hd + f /\ hd <= hc + f
    BY DEF Off
  <1> HIDE DEF ha, hb, hc, hd
  <1>3. ha + hc <= (hb + hd) + (e + f) /\ hb + hd <= (ha + hc) + (e + f)
    BY <1>1, <1>2
  <1> QED
    BY <1>1, <1>3 DEF Off

LEMMA OffMinus ==
    ASSUME NEW a \in Int, NEW b \in Int, NEW c \in Int, NEW d \in Int, NEW e \in Int, NEW f \in Int,
           Off(a, b, e), Off(c, d, f)
    PROVE  Off(a - c, b - d, e + f)
  <1> DEFINE ha == H * a
             hb == H * b
             hc == H * c
             hd == H * d
  <1>1. /\ ha \in Int /\ hb \in Int /\ hc \in Int /\ hd \in Int
        /\ H * (a - c) = ha - hc /\ H * (b - d) = hb - hd
    BY Sizes
  <1>2. ha <= hb + e /\ hb <= ha + e /\ hc <= hd + f /\ hd <= hc + f
    BY DEF Off
  <1> HIDE DEF ha, hb, hc, hd
  <1>3. ha - hc <= (hb - hd) + (e + f) /\ hb - hd <= (ha - hc) + (e + f)
    BY <1>1, <1>2
  <1> QED
    BY <1>1, <1>3 DEF Off

LEMMA OffSelf ==
    ASSUME NEW a \in Int, NEW e \in Nat
    PROVE  Off(a, a, e)
  <1>1. H * a \in Int
    BY Sizes
  <1> QED
    BY <1>1 DEF Off

LEMMA OffLesser ==
    ASSUME NEW a \in Int, NEW b \in Int, NEW c \in Int, NEW e \in Nat, Off(a, b, e)
    PROVE  Off(Lesser(c, a), Lesser(c, b), e)
  <1> DEFINE ha == H * a
             hb == H * b
             hc == H * c
  <1>1. ha \in Int /\ hb \in Int /\ hc \in Int
    BY Sizes
  <1>2. ha <= hb + e /\ hb <= ha + e
    BY DEF Off
  <1>3. /\ a <= c => ha <= hc
        /\ c <= a => hc <= ha
        /\ b <= c => hb <= hc
        /\ c <= b => hc <= hb
    BY Sizes, Monotone
  <1> HIDE DEF ha, hb, hc
  <1>4. CASE c >= a /\ c >= b
    <2>1. Off(a, b, e)
      OBVIOUS
    <2> QED
      BY <1>4, <2>1 DEF Lesser
  <1>5. CASE c >= a /\ ~(c >= b)
    <2>1. ha <= hc + e /\ hc <= ha + e
      BY <1>1, <1>2, <1>3, <1>5
    <2>2. Off(a, c, e)
      BY <2>1 DEF Off, ha, hc
    <2> QED
      BY <1>5, <2>2 DEF Lesser
  <1>6. CASE ~(c >= a) /\ c >= b
    <2>1. hb <= hc + e /\ hc <= hb + e
      BY <1>1, <1>2, <1>3, <1>6
    <2>2. Off(c, b, e)
      BY <2>1 DEF Off, hb, hc
    <2> QED
      BY <1>6, <2>2 DEF Lesser
  <1>7. CASE ~(c >= a) /\ ~(c >= b)
    <2>1. Off(c, c, e)
      BY OffSelf
    <2> QED
      BY <1>7, <2>1 DEF Lesser
  <1> QED
    BY <1>4, <1>5, <1>6, <1>7

(* What is cut off at c loses no more than c by rounding.                  *)
LEMMA CutOff ==
    ASSUME NEW z \in Int, NEW N \in Int, NEW c \in Nat, -c <= z, Off(N, z, Magnitude(z))
    PROVE  Off(Lesser(c, N), Lesser(c, z), c)
  <1> DEFINE hn == H * N
             hz == H * z
             hc == H * c
  <1>1. hn \in Int /\ hz \in Int /\ hc \in Int /\ H \in Nat /\ H >= 1
    BY Sizes
  <1>2. CASE z <= c
    <2>1. Off(N, z, c)
      <3>1. Magnitude(z) <= c /\ Magnitude(z) \in Int
        BY <1>2 DEF Magnitude
      <3> QED
        BY <3>1, OffWeaken
    <2> QED
      BY <2>1, OffLesser
  <1>3. CASE z > c
    <2>1. hn <= hz + z /\ hz <= hn + z
      BY <1>3 DEF Off, Magnitude
    <2>2. hz - z >= hc - c
      <3>1. (H - 1) * c <= (H - 1) * z
        BY <1>1, <1>3, Monotone
      <3>2. (H - 1) * c = hc - c /\ (H - 1) * z = hz - z
        BY <1>1
      <3> QED
        BY <3>1, <3>2
    <2>3. Lesser(c, z) = c
      BY <1>3 DEF Lesser
    <2>4. CASE N >= c
      <3>1. Lesser(c, N) = c
        BY <2>4 DEF Lesser
      <3> QED
        BY <2>3, <3>1, OffSelf
    <2>5. CASE N < c
      <3>1. hn <= hc
        BY <1>1, <2>5, Monotone
      <3> HIDE DEF hn, hz, hc
      <3>2. hn <= hc + c /\ hc <= hn + c
        BY <1>1, <2>1, <2>2, <3>1
      <3>3. Off(N, c, c)
        BY <3>2 DEF Off, hn, hc
      <3>4. Lesser(c, N) = N
        BY <2>5 DEF Lesser
      <3> QED
        BY <2>3, <3>3, <3>4
    <2> QED
      BY <2>4, <2>5
  <1> QED
    BY <1>2, <1>3

(* A refill up to c, of a level t that exact books put at e, by x that     *)
(* they put at g.                                                          *)
LEMMA RefillError ==
    ASSUME NEW t \in Int, NEW x \in Nat, NEW N \in Int, NEW e \in Int, NEW g \in Nat,
           NEW c \in Nat, NEW D \in Nat,
           t <= c, -c <= 32 * t,
           Off(t, e, D), Off(x, g, 5 * g), Off(N, t + x, Magnitude(t + x))
    PROVE  Off(Lesser(c, N), Lesser(c, e + g), D + 7 * c)
  <1> DEFINE z == t + x
             y == e + g
  <1>1. z \in Int /\ y \in Int /\ -c <= z
    OBVIOUS
  <1>2. Off(z, y, D + 5 * g)
    BY OffSum
  <1>3. CASE 5 * g <= 6 * c
    <2> HIDE DEF z, y
    <2>1. Off(z, y, D + 6 * c)
      BY <1>1, <1>2, <1>3, OffWeaken
    <2>2. Off(Lesser(c, z), Lesser(c, y), D + 6 * c)
      BY <1>1, <2>1, OffLesser
    <2>3. Off(Lesser(c, N), Lesser(c, z), c)
      BY <1>1, CutOff DEF z
    <2>4. Lesser(c, N) \in Int /\ Lesser(c, z) \in Int /\ Lesser(c, y) \in Int
      BY <1>1 DEF Lesser
    <2>5. Off(Lesser(c, N), Lesser(c, y), c + (D + 6 * c))
      BY <2>2, <2>3, <2>4, OffTriangle
    <2>6. c + (D + 6 * c) = D + 7 * c
      OBVIOUS
    <2> QED
      BY <2>5, <2>6 DEF y
  <1>4. CASE 5 * g > 6 * c
    <2>1. 1024 * (g - x) <= 5 * g
      BY OffMeans
    <2>2. z >= 0
      BY <1>4, <2>1
    <2>3. Magnitude(z) = z
      BY <2>2 DEF Magnitude
    <2>4. 1024 * (z - N) <= z
      BY <1>1, <2>2, <2>3, OffMeans
    <2>5. N >= c
      BY <1>4, <2>1, <2>4
    <2>6. Lesser(c, N) = c
      BY <2>5 DEF Lesser
    <2>7. CASE y >= c
      <3>1. Lesser(c, y) = c
        BY <2>7, <1>1 DEF Lesser
      <3> QED
        BY <2>6, <3>1, OffSelf
    <2>8. CASE y < c
      <3> DEFINE ht == H * t
                 he == H * e
                 hg == H * g
                 hc == H * c
                 hy == H * y
      <3>1. ht \in Int /\ he \in Int /\ hg \in Int /\ hc \in Nat /\ hy = he + hg
        BY Sizes
      <3>2. ht <= he + D
        BY DEF Off
      <3>3. hy <= hc
        BY <1>1, <2>8, Sizes, Monotone
      <3>4. 5 * hg >= 6 * hc
        <4>1. H * (6 * c) <= H * (5 * g)
          BY <1>4, Sizes, Monotone
        <4> QED
          BY <4>1, Sizes
      <3>5. 32 * ht >= -hc
        <4>1. H * (-c) <= H * (32 * t)
          BY Sizes, Monotone
        <4>2. H * (-c) = -hc /\ H * (32 * t) = 32 * ht
          BY Sizes
        <4> QED
          BY <4>1, <4>2
      <3> HIDE DEF ht, he, hg, hc, hy, y
      <3>6. hc <= hy + (D + 7 * c) /\ hy <= hc + (D + 7 * c)
        BY <3>1, <3>2, <3>3, <3>4, <3>5
      <3>7. Off(c, y, D + 7 * c)
        BY <3>6 DEF Off, hc, hy
      <3>8. Lesser(c, y) = y
        BY <1>1, <2>8 DEF Lesser
      <3> QED
        BY <2>6, <3>7, <3>8 DEF y
    <2> QED
      BY <1>1, <2>7, <2>8
  <1> QED
    BY <1>3, <1>4

(* A call for n on a level t, with slack p, and what the exact books say:  *)
(* e for the level and s for the slack.  The operand m is at least the     *)
(* batch and the capacity c.                                               *)
LEMMA SpendVerdict ==
    ASSUME NEW t \in Int, NEW e \in Int, NEW N \in Int,
           NEW p \in Nat, NEW s \in Nat, NEW n \in Nat, NEW c \in Nat, NEW m \in Nat, NEW D \in Nat,
           n <= m, c <= m, 512 * s <= n,
           Off(t, e, D + 7 * c), Off(p, s, s), Off(N, t + p, Magnitude(t + p)),
           D + 10 * m <= H * s
    PROVE  /\ e >= n => N >= n
           /\ N >= n => e - n + 2 * s >= 0
  <1> DEFINE z == t + p
             Z == Magnitude(z)
             ht == H * t
             he == H * e
             hN == H * N
             hp == H * p
             hs == H * s
             hn == H * n
             hz == H * z
  <1>1. /\ ht \in Int /\ he \in Int /\ hN \in Int /\ hp \in Nat /\ hs \in Nat /\ hn \in Nat
        /\ hz = ht + hp /\ z \in Int /\ Z \in Nat /\ H \in Nat /\ H >= 1024
    BY Sizes DEF Magnitude
  <1>2. /\ ht <= he + (D + 7 * c) /\ he <= ht + (D + 7 * c)
        /\ hp <= hs + s /\ hs <= hp + s
        /\ hN <= hz + Z /\ hz <= hN + Z
        /\ D + 10 * m <= hs
    BY DEF Off
  <1>3. 1024 * (N - z) <= Z /\ 1024 * (z - N) <= Z
    BY <1>1, OffMeans
  <1>4. (z >= 0 => Z = z) /\ (z < 0 => Z = -z)
    BY DEF Magnitude
  <1>5. ASSUME e >= n, N < n PROVE FALSE
    <2>1. he >= hn
      BY <1>1, <1>5, Monotone
    <2>2. hN <= hn /\ hN # hn
      <3>1. hN <= hn
        BY <1>1, <1>5, Monotone
      <3>2. hN >= hn => N >= n
        BY Cancel
      <3> QED
        BY <1>1, <1>5, <3>1, <3>2
    <2> HIDE DEF ht, he, hN, hp, hs, hn, hz, Z
    <2>3. hz >= hn + 2 * m
      BY <1>1, <1>2, <2>1
    <2>4. hn <= hz
      BY <1>1, <2>3
    <2>5. n <= z
      BY <1>1, <2>4, Cancel DEF hn, hz
    <2> HIDE DEF z
    <2>6. Z = z
      BY <1>1, <1>4, <2>5
    <2>7. z <= 2 * n
      BY <1>1, <1>3, <1>5, <2>6
    <2>8. hN >= hn
      BY <1>1, <1>2, <2>3, <2>6, <2>7
    <2> QED
      BY <1>1, <2>2, <2>8
  <1>6. ASSUME N >= n, e - n + 2 * s <= -1 PROVE FALSE
    <2>1. hN >= hn
      BY <1>1, <1>6, Monotone
    <2>2. he <= hn - 2 * hs - H
      <3>1. H * e <= H * (n - 2 * s - 1)
        BY <1>1, <1>6, Monotone
      <3>2. H * (n - 2 * s - 1) = hn - 2 * hs - H
        BY <1>1
      <3> QED
        BY <3>1, <3>2
    <2> HIDE DEF ht, he, hN, hp, hs, hn, hz, Z
    <2>3. hz <= hn - 2 * m - H
      BY <1>1, <1>2, <2>2
    <2>4. hz <= hn
      BY <1>1, <2>3
    <2>5. z <= n
      BY <1>1, <2>4, Cancel DEF hn, hz
    <2> HIDE DEF z
    <2>6. z >= 0
      BY <1>1, <1>3, <1>4, <1>6
    <2>7. Z <= m
      BY <1>1, <1>4, <2>5, <2>6
    <2> QED
      BY <1>1, <1>2, <2>1, <2>3, <2>7
  <1> QED
    BY <1>5, <1>6

--------------------------------------------------------------------------------
(* The token buckets.                                                      *)
LEMMA MagnitudeScale ==
    ASSUME NEW a \in Int, NEW k \in Nat
    PROVE  Magnitude(a) * k = Magnitude(a * k)
  <1>1. (a >= 0 => a * k >= 0) /\ (a < 0 => a * k <= 0) /\ (-a) * k = -(a * k) /\ a * k \in Int
    OBVIOUS
  <1> DEFINE b == a * k
  <1>2. (a >= 0 => Magnitude(a) = a) /\ (a < 0 => Magnitude(a) = -a)
    BY DEF Magnitude
  <1>3. CASE a >= 0
    <2>1. b >= 0 /\ b \in Int
      BY <1>1, <1>3
    <2> HIDE DEF b
    <2>2. Magnitude(b) = b
      BY <2>1 DEF Magnitude
    <2> QED
      BY <1>2, <1>3, <2>2 DEF b
  <1>4. CASE a < 0
    <2>1. b <= 0 /\ b \in Int /\ Magnitude(a) * k = -b
      BY <1>1, <1>2, <1>4
    <2> HIDE DEF b
    <2>2. Magnitude(b) = -b
      BY <2>1 DEF Magnitude
    <2> QED
      BY <2>1, <2>2 DEF b
  <1> QED
    BY <1>3, <1>4

LEMMA LesserScale ==
    ASSUME NEW a \in Int, NEW b \in Int, NEW k \in Nat, k >= 1
    PROVE  Lesser(a * k, b * k) = Lesser(a, b) * k
  <1>1. a >= b => a * k >= b * k
    <2>1. a >= b => k * a >= k * b
      BY Monotone
    <2> QED
      BY <2>1
  <1>2. a < b => a * k < b * k
    <2>1. a < b => k * (b - a) >= k * 1
      BY Monotone
    <2>2. k * (b - a) = b * k - a * k /\ a * k \in Int /\ b * k \in Int
      OBVIOUS
    <2> QED
      BY <2>1, <2>2
  <1>3. CASE a >= b
    BY <1>1, <1>3 DEF Lesser
  <1>4. CASE a < b
    BY <1>2, <1>4 DEF Lesser
  <1> QED
    BY <1>3, <1>4

LEMMA RoundingScaled ==
    ASSUME NEW z \in Int, InRange(z), NEW k \in Nat
    PROVE  Off(Nearest(z, 1) * k, z * k, Magnitude(z * k))
  <1> DEFINE N == Nearest(z, 1)
  <1>1. N \in Int /\ Off(N, z, Magnitude(z)) /\ Magnitude(z) \in Int
    BY Rounding DEF Magnitude
  <1> HIDE DEF N
  <1>2. Off(k * N, k * z, k * Magnitude(z))
    BY <1>1, OffScale
  <1>3. k * N = N * k /\ k * z = z * k /\ k * Magnitude(z) = Magnitude(z) * k
    BY <1>1
  <1>4. Magnitude(z) * k = Magnitude(z * k)
    BY MagnitudeScale
  <1> QED
    BY <1>2, <1>3, <1>4 DEF N

(* A token level: overdrawn by a 32nd of the capacity at most.             *)
IsTokens(t) ==
    /\ t \in Int /\ Representable(t) /\ Nearest(t, 1) = t
    /\ -Capacity <= 32 * t /\ t <= Capacity

LEMMA RefillIs ==
    ASSUME config \in Configs, config.rate \in Nat, NEW d \in 0 .. Ticks, NEW t, IsTokens(t)
    PROVE  \E x \in Nat, N \in Int :
              /\ Off(x * Parts, config.rate * d * Scale, 5 * (config.rate * d * Scale))
              /\ Off(N * Parts, (t + x) * Parts,
                     Magnitude((t + x) * Parts))
              /\ Refilled(t, d) = Lesser(Capacity, N)
              /\ IsTokens(Lesser(Capacity, N))
  <1> DEFINE r == config.rate
             x == Accrued(d)
             C == Capacity
             z == t + x
             N == Nearest(z, 1)
  <1>1. /\ d \in Nat /\ r \in Int /\ r >= 0 /\ C \in Nat /\ C >= 1 /\ Limit \in Nat
        /\ 4 * C < Limit /\ InRange(C) /\ Nearest(C, 1) = C /\ Representable(C)
        /\ C = config.capacity * Scale /\ Parts \in Nat
    BY Configured, CapacityIs, Bounds, Sizes
  <1>2. PICK M \in Nat :
          /\ 4 * C + 2 * M < Limit /\ x \in Int /\ x >= 0 /\ x <= 2 * M
          /\ Off(x * Parts, r * d * Scale, 5 * (r * d * Scale))
    BY <1>1, AccruedIs
  <1>3. x \in Nat
    BY <1>2
  <1>4. Off(x * Parts, r * d * Scale, 5 * (r * d * Scale))
    BY <1>2
  <1> HIDE DEF x
  <1>5. t \in Int /\ Nearest(t, 1) = t /\ -C <= 32 * t /\ t <= C /\ InRange(t)
    <2>1. t \in Int /\ Nearest(t, 1) = t /\ -C <= 32 * t /\ t <= C
      BY DEF IsTokens
    <2> QED
      BY <1>1, <2>1, Bounds
  <1>6. z \in Int /\ z >= t /\ InRange(z)
    <2>1. z < Limit /\ -z < Limit /\ z \in Int /\ z >= t
      BY <1>1, <1>2, <1>3, <1>5
    <2> QED
      BY <2>1, Bounds
  <1>7. N \in Int /\ Off(N, z, Magnitude(z))
        /\ Off(N * Parts, z * Parts, Magnitude(z * Parts))
    BY <1>1, <1>6, Rounding, RoundingScaled
  <1>8. Refilled(t, d) = Lesser(C, N)
    <2>1. Refilled(t, d) = Least(C, N)
      BY <1>3, <1>5, Integers DEF Refilled, x
    <2>2. N \in Int /\ C \in Int
      BY <1>1, <1>7
    <2> HIDE DEF N, C
    <2> QED
      BY <2>1, <2>2, Integers DEF Lesser
  <1>9. -C <= 32 * N
    <2>1. CASE z >= 0
      <3>1. N >= 0
        BY <1>6, <2>1, RoundingKeepsSign
      <3> QED
        BY <1>1, <1>7, <3>1
    <2>2. CASE z < 0
      <3>1. Magnitude(z) <= Magnitude(t)
        BY <1>5, <1>6, <2>2 DEF Magnitude
      <3>2. t <= N
        BY <1>5, <1>6, <3>1, RoundingKeepsOrder
      <3> QED
        BY <1>1, <1>5, <1>7, <3>2
    <2> QED
      BY <1>6, <2>1, <2>2
  <1>10. IsTokens(Lesser(C, N))
    <2>1. CASE N >= C
      <3>1. Lesser(C, N) = C
        BY <1>1, <1>7, <2>1 DEF Lesser
      <3> QED
        BY <1>1, <3>1 DEF IsTokens
    <2>2. CASE N < C
      <3>1. Lesser(C, N) = N
        BY <1>1, <1>7, <2>2 DEF Lesser
      <3>2. 2 * Magnitude(z) < Limit
        <4>1. Magnitude(z) \in Nat /\ (z >= 0 => Magnitude(z) = z) /\ (z < 0 => Magnitude(z) = -z)
          BY <1>6 DEF Magnitude
        <4>2. 1024 * (z - N) <= Magnitude(z)
          BY <1>6, <1>7, <4>1, OffMeans
        <4> HIDE DEF z, N, C
        <4> QED
          BY <1>1, <1>5, <1>6, <1>7, <2>2, <4>1, <4>2
      <3>3. Representable(N)
        BY <1>6, <3>2, Represents DEF Limit
      <3>4. Nearest(N, 1) = N
        <4>1. N # Inf /\ N # NaN
          BY <1>7, Sizes
        <4> QED
          BY <3>3, <4>1 DEF Representable, Finite
      <3> HIDE DEF N
      <3> QED
        BY <1>7, <1>9, <2>2, <1>1, <3>1, <3>3, <3>4 DEF IsTokens
    <2> QED
      BY <1>1, <1>7, <2>1, <2>2
  <1> HIDE DEF N
  <1> QED
    BY <1>3, <1>4, <1>7, <1>8, <1>10

LEMMA RefillDrift ==
    ASSUME config \in Configs, config.rate \in Nat, NEW d \in 0 .. Ticks, NEW t, IsTokens(t),
           NEW e \in Int, NEW D \in Nat, Off(t * Parts, e * Scale, D)
    PROVE  /\ IsTokens(Refilled(t, d)) /\ ExactCredit(e, d) \in Int
           /\ Off(Refilled(t, d) * Parts, ExactCredit(e, d) * Scale,
                  D + 7 * (Capacity * Parts))
  <1> DEFINE T == Parts
             S == Scale
             C == Capacity
             r == config.rate
             full == config.capacity * T
  <1>1. PICK x \in Nat, N \in Int :
              /\ Off(x * T, r * d * S, 5 * (r * d * S))
              /\ Off(N * T, (t + x) * T, Magnitude((t + x) * T))
              /\ Refilled(t, d) = Lesser(C, N)
              /\ IsTokens(Lesser(C, N))
    BY RefillIs
  <1>2. /\ C \in Nat /\ T \in Nat /\ T >= 1 /\ S \in Nat /\ S >= 1 /\ d \in Nat /\ r \in Nat
        /\ t \in Int /\ -C <= 32 * t /\ t <= C /\ full \in Nat /\ full * S = C * T
        /\ C = config.capacity * S /\ r # Inf
    <2>1. C = config.capacity * S /\ config.capacity \in Nat
      BY Configured, CapacityIs
    <2>2. T \in Nat /\ T >= 1 /\ S \in Nat /\ S >= 1 /\ Inf \notin Int /\ Ticks \in Nat
      BY Sizes, Configured
    <2>3. t \in Int /\ -C <= 32 * t /\ t <= C
      BY DEF IsTokens
    <2>4. full \in Nat /\ full * S = C * T
      BY <2>1, <2>2
    <2>5. d \in Nat /\ r \in Nat /\ r # Inf /\ C \in Nat
      BY <2>1, <2>2
    <2> QED
      BY <2>1, <2>2, <2>3, <2>4, <2>5
  <1>3. r * d \in Nat /\ ExactCredit(e, d) = Lesser(full, e + r * d)
    <2>1. r * d \in Nat
      BY <1>2
    <2> DEFINE y == e + r * d
    <2>2. y \in Int
      BY <2>1
    <2>3. ExactCredit(e, d) = IF y > full THEN full ELSE y
      BY <1>2 DEF ExactCredit
    <2> HIDE DEF y, full
    <2>4. ExactCredit(e, d) = Lesser(full, y)
      BY <1>2, <2>2, <2>3 DEF Lesser
    <2> QED
      BY <2>1, <2>4 DEF y
  <1> HIDE DEF full
  <1>4. ExactCredit(e, d) \in Int
    BY <1>2, <1>3 DEF Lesser
  <1> DEFINE tt == t * T
             xx == x * T
             nn == N * T
             ee == e * S
             g == r * d * S
             cc == C * T
  <1>5. /\ tt \in Int /\ xx \in Nat /\ nn \in Int /\ ee \in Int /\ g \in Nat /\ cc \in Nat
        /\ (t + x) * T = tt + xx /\ (e + r * d) * S = ee + g
    BY <1>1, <1>2, <1>3
  <1>6. tt <= cc /\ -cc <= 32 * tt
    <2>1. T * t <= T * C /\ T * (-C) <= T * (32 * t)
      BY <1>2, Monotone
    <2> QED
      BY <1>2, <2>1
  <1>7. Lesser(cc, nn) = Lesser(C, N) * T
    <2>1. C \in Int /\ N \in Int
      BY <1>1, <1>2
    <2> QED
      BY <1>2, <2>1, LesserScale, Zenon
  <1>8. Lesser(cc, ee + g) = ExactCredit(e, d) * S
    <2>1. Lesser(full * S, (e + r * d) * S) = Lesser(full, e + r * d) * S
      <3>1. e + r * d \in Int /\ full \in Int
        BY <1>2, <1>3
      <3> QED
        BY <1>2, <3>1, LesserScale, Zenon
    <2> QED
      BY <1>2, <1>3, <1>5, <2>1
  <1>9. Off(tt, ee, D) /\ Off(xx, g, 5 * g) /\ Off(nn, tt + xx, Magnitude(tt + xx))
    BY <1>1, <1>5
  <1> HIDE DEF tt, xx, nn, ee, g, cc
  <1>10. Off(Lesser(cc, nn), Lesser(cc, ee + g), D + 7 * cc)
    BY <1>5, <1>6, <1>9, RefillError
  <1> QED
    BY <1>1, <1>4, <1>7, <1>8, <1>10 DEF cc

LEMMA Batch ==
    ASSUME config \in Configs, NEW n \in config.batches
    PROVE  /\ n \in Nat /\ n >= 1 /\ n * Scale \in Nat /\ n * Scale >= 1
           /\ 4 * Capacity + 2 * (n * Scale) < Limit
           /\ Float(n) = n * Scale
           /\ AdmitEpsilon(n) \in Nat
           /\ Off(AdmitEpsilon(n), n * EpsilonRel, n * EpsilonRel)
           /\ n * EpsilonRel \in Nat /\ 512 * (n * EpsilonRel) <= n * Scale
  <1> DEFINE y == n * Scale
             c == config.capacity * Scale
             i == Influx(config) * Scale
             v == (Ticks \div TicksPerSecond + 1) * Scale
  <1>1. n \in Nat /\ n >= 1 /\ n <= H /\ 4 * c + 2 * y + 2 * i + 2 * v < Limit
    BY Configured
  <1>2. /\ y \in Nat /\ y >= 1 /\ c \in Nat /\ i \in Nat /\ v \in Nat /\ Limit \in Nat
        /\ EpsilonRel \in Nat /\ Capacity = c
    <2>1. /\ Scale \in Nat /\ Scale >= 1 /\ config.capacity \in Nat /\ Influx(config) \in Nat
          /\ Ticks \div TicksPerSecond \in Nat /\ EpsilonRel \in Nat /\ Capacity = c /\ Limit \in Nat
      BY Configured, Sizes, CapacityIs, Bounds
    <2>2. n * Scale >= n * 1
      BY <1>1, <2>1, Monotone
    <2> QED
      BY <1>1, <2>1, <2>2
  <1> HIDE DEF y, c, i, v
  <1>3. y < Limit /\ 4 * Capacity + 2 * y < Limit
    BY <1>1, <1>2
  <1>4. n * Scale < Limit
    BY <1>3 DEF y
  <1>5. Float(n) = n * Scale
    BY <1>1, <1>4, Counts
  <1>6. n * EpsilonRel \in Nat
    BY <1>1, <1>2
  <1> QED
    BY <1>1, <1>2, <1>3, <1>4, <1>5, <1>6, SlackIs DEF y

(* A level covers a batch when the rounded sum of level and slack does.    *)
LEMMA AffordsIs ==
    ASSUME config \in Configs, NEW n \in config.batches, NEW t, IsTokens(t)
    PROVE  /\ t + AdmitEpsilon(n) \in Int /\ InRange(t + AdmitEpsilon(n))
           /\ Nearest(t + AdmitEpsilon(n), 1) \in Int
           /\ Affords(t, n) <=> Nearest(t + AdmitEpsilon(n), 1) >= n * Scale
  <1> DEFINE p == AdmitEpsilon(n)
             y == n * Scale
             q == n * EpsilonRel
             C == Capacity
             z == t + p
  <1>1. /\ y \in Nat /\ 4 * C + 2 * y < Limit /\ Float(n) = y /\ p \in Nat /\ q \in Nat
        /\ 512 * q <= y /\ Off(p, q, q) /\ C \in Nat /\ Limit \in Nat
    BY Batch, CapacityIs, Bounds
  <1>2. t \in Int /\ -C <= 32 * t /\ t <= C
    BY DEF IsTokens
  <1>3. 1024 * (p - q) <= q
    BY <1>1, OffMeans
  <1> HIDE DEF p, y, q, C
  <1>4. z \in Int /\ z < Limit /\ -z < Limit
    BY <1>1, <1>2, <1>3
  <1>5. InRange(z)
    BY <1>4, Bounds
  <1>6. Nearest(z, 1) \in Int
    BY <1>4, <1>5, Rounding
  <1>7. Affords(t, n) <=> Nearest(z, 1) >= y
    <2>1. p \in Int /\ y \in Int
      BY <1>1
    <2>2. Plus(t, p) = Nearest(z, 1)
      BY <1>2, <2>1, Integers, Zenon
    <2>3. Affords(t, n) <=> AtLeast(Nearest(z, 1), y)
      BY <1>1, <2>2 DEF Affords, p
    <2>4. AtLeast(Nearest(z, 1), y) <=> Nearest(z, 1) >= y
      BY <1>6, <2>1, Integers, Zenon
    <2> QED
      BY <2>3, <2>4
  <1> QED
    BY <1>4, <1>5, <1>6, <1>7 DEF p, y

(* A batch that is afforded overdraws the bucket by a 32nd at most.        *)
LEMMA SpentIs ==
    ASSUME config \in Configs, NEW n \in config.batches, NEW t, IsTokens(t), Affords(t, n)
    PROVE  /\ IsTokens(Spent(t, n))
           /\ Spent(t, n) = Nearest(t - n * Scale, 1)
           /\ InRange(t - n * Scale) /\ Magnitude(t - n * Scale) <= Capacity
  <1> DEFINE p == AdmitEpsilon(n)
             y == n * Scale
             q == n * EpsilonRel
             C == Capacity
             z == t + p
             Z == Magnitude(z)
             N == Nearest(z, 1)
             w == t - y
             s == Nearest(w, 1)
  <1>1. /\ y \in Nat /\ y >= 1 /\ Float(n) = y /\ p \in Nat /\ q \in Nat
        /\ 512 * q <= y /\ Off(p, q, q) /\ C \in Nat /\ C >= 1 /\ Limit \in Nat /\ 4 * C < Limit
        /\ InRange(C) /\ Nearest(C, 1) = C
    BY Batch, CapacityIs, Bounds
  <1>2. t \in Int /\ -C <= 32 * t /\ t <= C
    BY DEF IsTokens
  <1>3. 1024 * (p - q) <= q
    BY <1>1, OffMeans
  <1>4. z \in Int /\ N \in Int /\ N >= y /\ 1024 * (N - z) <= Z /\ Z \in Nat
    <2>1. z \in Int /\ InRange(z) /\ N \in Int /\ N >= y
      BY AffordsIs
    <2>2. Z \in Nat /\ Off(N, z, Z)
      BY <2>1, Rounding DEF Magnitude
    <2> HIDE DEF N, Z, z
    <2> QED
      BY <2>1, <2>2, OffMeans
  <1>5. (z >= 0 => Z = z) /\ (z < 0 => Z = -z)
    BY <1>4 DEF Magnitude
  <1>6. z = t + p /\ w = t - y
    OBVIOUS
  <1> HIDE DEF p, y, q, C, z, Z, N, w
  <1>7. z >= 0
    BY <1>1, <1>4, <1>5
  <1>8. 1023 * y <= 1025 * z /\ 500 * p <= y
    BY <1>1, <1>3, <1>4, <1>5, <1>7
  <1>9. w \in Int /\ w <= C /\ -C <= 40 * w
    BY <1>1, <1>2, <1>6, <1>8
  <1>10. Magnitude(w) <= C /\ Magnitude(w) \in Nat
    BY <1>1, <1>9 DEF Magnitude
  <1>11. InRange(w) /\ 2 * Magnitude(w) < Limit
    <2>1. 2 * Magnitude(w) < Limit /\ Magnitude(w) < Limit
      BY <1>1, <1>10
    <2> QED
      BY <2>1 DEF InRange, Limit
  <1>12. s \in Int /\ Off(s, w, Magnitude(w)) /\ Representable(s)
    BY <1>9, <1>11, Rounding, Represents DEF Limit
  <1>13. s <= C
    <2>1. Magnitude(C) = C
      BY <1>1 DEF Magnitude
    <2> QED
      BY <1>1, <1>9, <1>10, <2>1, RoundingKeepsOrder
  <1>14. Nearest(s, 1) = s
    <2>1. s # Inf /\ s # NaN
      BY <1>12, Sizes
    <2> QED
      BY <1>12, <2>1 DEF Representable, Finite
  <1>15. -C <= 32 * s
    <2>1. 1024 * (w - s) <= Magnitude(w)
      BY <1>9, <1>10, <1>12, OffMeans
    <2>2. (w >= 0 => Magnitude(w) = w) /\ (w < 0 => Magnitude(w) = -w)
      BY <1>9 DEF Magnitude
    <2> HIDE DEF s
    <2> QED
      BY <1>1, <1>9, <1>12, <2>1, <2>2
  <1>16. Spent(t, n) = s
    <2>1. -y \in Int /\ t + (-y) = w
      BY <1>1, <1>2, <1>6
    <2>2. Plus(t, -y) = Nearest(w, 1)
      BY <1>2, <2>1, Integers
    <2> QED
      BY <1>1, <2>2 DEF Spent
  <1> HIDE DEF s
  <1>17. IsTokens(s)
    BY <1>12, <1>13, <1>14, <1>15 DEF IsTokens, C
  <1> QED
    BY <1>10, <1>11, <1>16, <1>17 DEF s, w, y, C

(* A call on a refilled level: the books stay together, and so do the      *)
(* answers, within the drift D and ten roundings of the operand.           *)
LEMMA SpendDrift ==
    ASSUME config \in Configs, NEW n \in config.batches, NEW t, IsTokens(t),
           NEW e \in Int, NEW D \in Nat,
           Off(t * Parts, e * Scale, D + 7 * (Capacity * Parts))
    PROVE  /\ Affords(t, n) =>
                Off(Spent(t, n) * Parts, (e - n * Parts) * Scale,
                    D + 10 * (Capacity * Parts))
           /\ \A m \in Nat :
                n <= m /\ config.capacity <= m
                  /\ D + 10 * (m * Scale * Parts) <= H * (n * EpsilonRel * Parts)
                => Faithful(Verdict(Affords(t, n), e, Parts, n, n * EpsilonRel))
  <1> DEFINE T == Parts
             S == Scale
             C == Capacity
             p == AdmitEpsilon(n)
             y == n * S
             q == n * EpsilonRel
             z == t + p
             N == Nearest(z, 1)
             tt == t * T
             ee == e * S
             pp == p * T
             yy == y * T
             qq == q * T
             nn == N * T
             cc == C * T
  <1>1. /\ n \in Nat /\ y \in Nat /\ p \in Nat /\ q \in Nat /\ 512 * q <= y /\ Off(p, q, q)
        /\ C \in Nat /\ C = config.capacity * S /\ config.capacity \in Nat
        /\ T \in Nat /\ T >= 1 /\ S \in Nat /\ S >= 1 /\ EpsilonRel \in Nat /\ t \in Int
    BY Batch, CapacityIs, Configured, Sizes DEF IsTokens
  <1>2. z \in Int /\ InRange(z) /\ N \in Int /\ (Affords(t, n) <=> N >= y)
    BY AffordsIs
  <1>3. /\ tt \in Int /\ ee \in Int /\ pp \in Nat /\ yy \in Nat /\ qq \in Nat /\ nn \in Int
        /\ cc \in Nat /\ z * T = tt + pp
    BY <1>1, <1>2
  <1>4. Off(tt, ee, D + 7 * cc)
    OBVIOUS
  <1>5. Off(pp, qq, qq)
    <2>1. Off(T * p, T * q, T * q)
      <3>1. p \in Int /\ q \in Int
        BY <1>1
      <3> QED
        BY <1>1, <3>1, OffScale, Zenon
    <2>2. T * p = pp /\ T * q = qq
      BY <1>1
    <2> QED
      BY <2>1, <2>2
  <1>6. Off(nn, tt + pp, Magnitude(tt + pp))
    <2>1. Off(nn, z * T, Magnitude(z * T))
      BY <1>1, <1>2, RoundingScaled
    <2> QED
      BY <1>3, <2>1
  <1>7. ASSUME Affords(t, n)
        PROVE  Off(Spent(t, n) * T, (e - n * T) * S, D + 10 * cc)
    <2> DEFINE w == t - y
               s == Nearest(w, 1)
    <2>1. Spent(t, n) = s /\ InRange(w) /\ Magnitude(w) <= C /\ w \in Int
      BY <1>1, <1>7, SpentIs
    <2>2. Off(s * T, w * T, Magnitude(w * T)) /\ s \in Int
      BY <1>1, <2>1, RoundingScaled, Rounding
    <2>3. Magnitude(w * T) <= cc
      <3>1. Magnitude(w) \in Nat
        BY <2>1 DEF Magnitude
      <3>2. T * Magnitude(w) <= T * C
        BY <1>1, <2>1, <3>1, Monotone
      <3>3. Magnitude(w) * T = Magnitude(w * T)
        BY <1>1, <2>1, MagnitudeScale
      <3> QED
        BY <1>1, <3>1, <3>2, <3>3
    <2> DEFINE ss == s * T
               ww == w * T
               M == Magnitude(w * T)
    <2>4. ss \in Int /\ ww \in Int /\ ww = tt - yy /\ M \in Int
      BY <1>1, <2>1, <2>2 DEF Magnitude
    <2>5. (e - n * T) * S = ee - yy
      BY <1>1
    <2> HIDE DEF ss, ww, tt, yy, ee, cc, M
    <2>6. Off(ss, ww, cc)
      BY <1>3, <2>2, <2>3, <2>4, OffWeaken DEF ss, ww, M
    <2>7. Off(yy, yy, 0)
      BY <1>3, OffSelf
    <2>8. Off(tt - yy, ee - yy, (D + 7 * cc) + 0)
      BY <1>3, <1>4, <2>7, OffMinus
    <2>9. Off(ww, ee - yy, D + 7 * cc)
      <3>1. (D + 7 * cc) + 0 = D + 7 * cc
        BY <1>3
      <3> QED
        BY <2>4, <2>8, <3>1
    <2>10. Off(ss, ee - yy, cc + (D + 7 * cc))
      <3>1. ee - yy \in Int /\ D + 7 * cc \in Int /\ cc \in Int
        BY <1>3
      <3> QED
        BY <2>4, <2>6, <2>9, <3>1, OffTriangle
    <2>11. Off(ss, ee - yy, D + 10 * cc)
      <3>1. /\ ee - yy \in Int /\ cc + (D + 7 * cc) \in Int /\ D + 10 * cc \in Int
            /\ cc + (D + 7 * cc) <= D + 10 * cc
        BY <1>3
      <3> QED
        BY <2>4, <2>10, <3>1, OffWeaken
    <2> QED
      BY <2>1, <2>5, <2>11 DEF ss
  <1>8. ASSUME NEW m \in Nat, n <= m, config.capacity <= m,
               D + 10 * (m * S * T) <= H * (n * EpsilonRel * T)
        PROVE  Faithful(Verdict(Affords(t, n), e, T, n, q))
    <2> DEFINE mm == m * S * T
    <2>1. mm \in Nat /\ yy <= mm /\ cc <= mm
      <3>1. (S * T) * n <= (S * T) * m /\ (S * T) * config.capacity <= (S * T) * m
        BY <1>1, <1>8, Monotone
      <3>2. (S * T) * n = yy /\ (S * T) * m = mm /\ (S * T) * config.capacity = cc /\ mm \in Nat
        BY <1>1
      <3> QED
        BY <3>1, <3>2
    <2>2. 512 * qq <= yy
      <3>1. T * (512 * q) <= T * y
        BY <1>1, Monotone
      <3>2. T * (512 * q) = 512 * qq /\ T * y = yy
        BY <1>1
      <3> QED
        BY <3>1, <3>2
    <2>3. D + 10 * mm <= H * qq
      BY <1>8
    <2>4. N >= y <=> nn >= yy
      <3>1. N >= y => T * N >= T * y
        BY <1>1, <1>2, Monotone
      <3>2. y >= N + 1 => T * (y - N) >= T * 1
        BY <1>1, <1>2, Monotone
      <3>3. T * N = nn /\ T * y = yy /\ T * (y - N) = yy - nn
        BY <1>1, <1>2
      <3> HIDE DEF N, y, T
      <3> QED
        BY <1>1, <1>2, <1>3, <3>1, <3>2, <3>3
    <2>5. e >= n * T => ee >= yy
      <3>1. e >= n * T => S * e >= S * (n * T)
        BY <1>1, Monotone
      <3>2. S * e = ee /\ S * (n * T) = yy
        BY <1>1
      <3> QED
        BY <3>1, <3>2
    <2>6. (e - n * T) * S + 2 * q * T = ee - yy + 2 * qq
      BY <1>1
    <2>7. (ee >= yy => nn >= yy) /\ (nn >= yy => ee - yy + 2 * qq >= 0)
      <3> HIDE DEF tt, ee, pp, yy, qq, nn, cc, mm
      <3> QED
        <4>1. Off(tt, ee, D + 7 * cc) /\ Off(pp, qq, qq) /\ Off(nn, tt + pp, Magnitude(tt + pp))
          BY <1>4, <1>5, <1>6
        <4>2. yy <= mm /\ cc <= mm /\ 512 * qq <= yy /\ D + 10 * mm <= H * qq
          BY <2>1, <2>2, <2>3
        <4> QED
          BY <1>3, <2>1, <4>1, <4>2, SpendVerdict
    <2>8. e >= n * T => Affords(t, n)
      BY <1>2, <2>4, <2>5, <2>7
    <2>9. Affords(t, n) => (e - n * T) * S + 2 * q * T >= 0
      BY <1>2, <2>4, <2>6, <2>7
    <2> QED
      BY <2>8, <2>9 DEF Faithful, Verdict
  <1> QED
    BY <1>7, <1>8

--------------------------------------------------------------------------------
(* The limiters that fill up.                                              *)
(* A leak of x, which exact books put at g, from a level l that they put   *)
(* at e.                                                                   *)
LEMMA LeakError ==
    ASSUME NEW l \in Nat, NEW x \in Nat, NEW N \in Int, NEW e \in Nat, NEW g \in Nat,
           NEW c \in Nat, NEW D \in Nat,
           100 * l <= 101 * c,
           Off(l, e, D), Off(x, g, 5 * g), Off(N, l - x, Magnitude(l - x))
    PROVE  Off(IF x >= l THEN 0 ELSE N, IF e < g THEN 0 ELSE e - g, D + 7 * c)
  <1> DEFINE z == l - x
             y == e - g
             Z == Magnitude(z)
             hl == H * l
             hx == H * x
             hN == H * N
             he == H * e
             hg == H * g
             hc == H * c
  <1>1. /\ hl \in Nat /\ hx \in Nat /\ hN \in Int /\ he \in Nat /\ hg \in Nat /\ hc \in Nat
        /\ H * z = hl - hx /\ H * y = he - hg /\ H * 0 = 0 /\ z \in Int /\ y \in Int
    BY Sizes
  <1>2. /\ hl <= he + D /\ he <= hl + D
        /\ hx <= hg + 5 * g /\ hg <= hx + 5 * g
        /\ hN <= (hl - hx) + Z /\ hl - hx <= hN + Z
    BY <1>1 DEF Off
  <1>3. /\ x >= l => hx >= hl
        /\ x < l => hx <= hl
        /\ e < g => he <= hg
        /\ e >= g => he >= hg
    BY Sizes, Monotone
  <1>4. z >= 0 => Z = z
    BY <1>1 DEF Magnitude
  <1>5. z = l - x
    OBVIOUS
  <1>6. CASE 10 * g <= 11 * c
    <2> HIDE DEF z, Z, hl, hx, hN, he, hg, hc
    <2>1. CASE x >= l /\ e < g
      <3>1. Off(0, 0, D + 7 * c)
        BY OffSelf
      <3> QED
        BY <2>1, <3>1
    <2>2. CASE x >= l /\ e >= g
      <3>1. 0 <= (he - hg) + (D + 7 * c) /\ he - hg <= 0 + (D + 7 * c)
        BY <1>1, <1>2, <1>3, <1>6, <2>2
      <3>2. Off(0, y, D + 7 * c)
        BY <1>1, <3>1 DEF Off
      <3> QED
        BY <2>2, <3>2
    <2>3. CASE x < l /\ e < g
      <3>1. Z = z /\ 100 * z <= 101 * c
        BY <1>1, <1>4, <1>5, <2>3
      <3>2. hN <= 0 + (D + 7 * c) /\ 0 <= hN + (D + 7 * c)
        BY <1>1, <1>2, <1>3, <1>6, <2>3, <3>1
      <3>3. Off(N, 0, D + 7 * c)
        BY <1>1, <3>2 DEF Off, hN
      <3> QED
        BY <2>3, <3>3
    <2>4. CASE x < l /\ e >= g
      <3>1. Z = z /\ 100 * z <= 101 * c
        BY <1>1, <1>4, <1>5, <2>4
      <3>2. hN <= (he - hg) + (D + 7 * c) /\ he - hg <= hN + (D + 7 * c)
        BY <1>1, <1>2, <1>3, <1>6, <2>4, <3>1
      <3>3. Off(N, y, D + 7 * c)
        BY <1>1, <3>2 DEF Off, hN
      <3> QED
        BY <2>4, <3>3
    <2> QED
      BY <2>1, <2>2, <2>3, <2>4
  <1>7. CASE 10 * g > 11 * c
    <2>1. 1024 * (g - x) <= 5 * g
      BY OffMeans
    <2>2. x >= l
      BY <1>7, <2>1
    <2>3. CASE e < g
      <3>1. Off(0, 0, D + 7 * c)
        BY OffSelf
      <3> QED
        BY <2>2, <2>3, <3>1
    <2>4. CASE e >= g
      <3>1. 100 * hl <= 101 * hc /\ 10 * hg >= 11 * hc
        <4>1. H * (100 * l) <= H * (101 * c) /\ H * (11 * c) <= H * (10 * g)
          BY <1>7, Sizes, Monotone
        <4>2. H * (100 * l) = 100 * hl /\ H * (101 * c) = 101 * hc
              /\ H * (11 * c) = 11 * hc /\ H * (10 * g) = 10 * hg
          BY Sizes
        <4> QED
          BY <4>1, <4>2
      <3> HIDE DEF hl, hg, hc, he
      <3>2. 0 <= (he - hg) + (D + 7 * c) /\ he - hg <= 0 + (D + 7 * c)
        BY <1>1, <1>2, <1>3, <2>4, <3>1
      <3>3. Off(0, y, D + 7 * c)
        BY <1>1, <3>2 DEF Off
      <3> QED
        BY <2>2, <2>4, <3>3
    <2> QED
      BY <2>3, <2>4
  <1> QED
    BY <1>6, <1>7

(* The limit L of a capacity c with slack p, whose exact value is s.       *)
LEMMA LimitError ==
    ASSUME NEW c \in Nat, NEW p \in Nat, NEW s \in Nat, NEW L \in Int,
           512 * s <= c, Off(p, s, s), Off(L, c + p, c + p)
    PROVE  /\ 100 * L <= 101 * c /\ L >= 0 /\ 500 * p <= c
           /\ 100 * (H * L) <= 100 * (H * c) + 100 * (H * s) + 101 * c
           /\ 100 * (H * c) + 100 * (H * s) <= 100 * (H * L) + 101 * c
  <1>1. 1024 * (p - s) <= s
    BY OffMeans
  <1>2. 1024 * (L - (c + p)) <= c + p /\ 1024 * ((c + p) - L) <= c + p
    BY OffMeans
  <1>3. 500 * p <= c /\ 100 * L <= 101 * c /\ L >= 0
    BY <1>1, <1>2
  <1> DEFINE hc == H * c
             hp == H * p
             hs == H * s
             hL == H * L
  <1>4. hc \in Nat /\ hp \in Nat /\ hs \in Nat /\ hL \in Int /\ H * (c + p) = hc + hp
    BY Sizes
  <1>5. hp <= hs + s /\ hs <= hp + s /\ hL <= (hc + hp) + (c + p) /\ hc + hp <= hL + (c + p)
    BY <1>4 DEF Off
  <1> HIDE DEF hc, hp, hs, hL
  <1>6. 100 * hL <= 100 * hc + 100 * hs + 101 * c /\ 100 * hc + 100 * hs <= 100 * hL + 101 * c
    BY <1>3, <1>4, <1>5
  <1> QED
    BY <1>3, <1>6 DEF hc, hs, hL

(* A batch n on a level l that exact books put at e: the sum U against the *)
(* limit.                                                                  *)
LEMMA FillVerdict ==
    ASSUME NEW l \in Nat, NEW e \in Nat, NEW n \in Nat, NEW U \in Int, NEW L \in Int,
           NEW c \in Nat, NEW p \in Nat, NEW s \in Nat, NEW D \in Nat,
           Off(l, e, D + 7 * c), Off(U, l + n, l + n),
           512 * s <= c, Off(p, s, s), Off(L, c + p, c + p)
    PROVE  /\ U <= L => Off(U, e + n, D + 10 * c)
           /\ D + 10 * c <= H * s /\ e + n <= c => U <= L
           /\ D + 10 * c <= H * s /\ U <= L => c - e - n + 2 * s >= 0
  <1> DEFINE z == l + n
             hz == H * z
             he == H * e
             hn == H * n
             hl == H * l
             hU == H * U
             hL == H * L
             hc == H * c
             hs == H * s
  <1>1. /\ hz \in Nat /\ he \in Nat /\ hn \in Nat /\ hl \in Nat /\ hU \in Int /\ hL \in Int
        /\ hc \in Nat /\ hs \in Nat /\ hz = hl + hn /\ z \in Nat /\ H * (e + n) = he + hn
        /\ H \in Nat /\ H >= 1
    BY Sizes
  <1>2. /\ hl <= he + (D + 7 * c) /\ he <= hl + (D + 7 * c)
        /\ hU <= hz + z /\ hz <= hU + z
    BY DEF Off
  <1>3. /\ 100 * L <= 101 * c /\ L >= 0
        /\ 100 * hL <= 100 * hc + 100 * hs + 101 * c
        /\ 100 * hc + 100 * hs <= 100 * hL + 101 * c
    BY LimitError
  <1>4. 1024 * (z - U) <= z
    BY <1>1, OffMeans
  <1>5. ASSUME U <= L PROVE 50 * z <= 51 * c /\ hU <= hL
    <2>1. hU <= hL
      BY <1>1, <1>5, Monotone
    <2> HIDE DEF z
    <2>2. 50 * z <= 51 * c
      BY <1>1, <1>3, <1>4, <1>5
    <2> QED
      BY <2>1, <2>2
  <1>6. ASSUME U <= L PROVE Off(U, e + n, D + 10 * c)
    <2>1. 50 * z <= 51 * c
      BY <1>5, <1>6
    <2> HIDE DEF z, hz, he, hn, hl, hU, hL
    <2>2. hU <= (he + hn) + (D + 10 * c) /\ he + hn <= hU + (D + 10 * c)
      BY <1>1, <1>2, <2>1
    <2> QED
      BY <1>1, <2>2 DEF Off, hU
  <1>7. ASSUME D + 10 * c <= H * s, e + n <= c PROVE U <= L
    <2>1. he + hn <= hc
      <3>1. H * (e + n) <= H * c
        BY <1>1, <1>7, Monotone
      <3> QED
        BY <1>1, <3>1
    <2>2. D + 10 * c <= hs
      BY <1>7
    <2>3. H * (c + s) = hc + hs
      BY <1>1
    <2> HIDE DEF z, hz, he, hn, hl, hU, hL, hc, hs
    <2>4. hz <= hc + hs
      BY <1>1, <1>2, <2>1, <2>2
    <2>5. z <= c + s
      BY <1>1, <2>3, <2>4, Cancel DEF hz
    <2>6. hU <= hL
      BY <1>1, <1>2, <1>3, <2>1, <2>2, <2>5
    <2> QED
      BY <2>6, Cancel DEF hU, hL
  <1>8. ASSUME D + 10 * c <= H * s, U <= L PROVE c - e - n + 2 * s >= 0
    <2>1. 50 * z <= 51 * c /\ hU <= hL
      BY <1>5, <1>8
    <2>2. D + 10 * c <= hs
      BY <1>8
    <2>3. H * (c + 2 * s) = hc + 2 * hs
      BY <1>1
    <2> HIDE DEF z, hz, he, hn, hl, hU, hL, hc, hs
    <2>4. he + hn <= hc + 2 * hs
      BY <1>1, <1>2, <1>3, <2>1, <2>2
    <2>5. H * (e + n) <= H * (c + 2 * s)
      BY <1>1, <2>3, <2>4
    <2>6. e + n <= c + 2 * s
      BY <2>5, Cancel
    <2> QED
      BY <2>6
  <1> QED
    BY <1>6, <1>7, <1>8

(* The limit of a limiter that fills up, and its slack                     *)
FullSlack == AdmitEpsilon(config.capacity)
FullLimit == Nearest(Capacity + FullSlack, 1)

LEMMA FitsIs ==
    ASSUME config \in Configs
    PROVE  /\ FullSlack \in Nat /\ FullLimit \in Int
           /\ config.capacity * EpsilonRel \in Nat
           /\ 512 * (config.capacity * EpsilonRel) <= Capacity
           /\ Off(FullSlack, config.capacity * EpsilonRel, config.capacity * EpsilonRel)
           /\ Capacity + FullSlack \in Nat /\ InRange(Capacity + FullSlack)
           /\ Off(FullLimit, Capacity + FullSlack, Capacity + FullSlack)
           /\ 100 * FullLimit <= 101 * Capacity /\ FullLimit >= 0
           /\ \A u \in Int : Fits(u) <=> u <= FullLimit
  <1> DEFINE C == Capacity
             p == FullSlack
             q == config.capacity * EpsilonRel
             z == C + p
             L == Nearest(z, 1)
  <1>1. /\ C \in Nat /\ 4 * C < Limit /\ C = config.capacity * Scale /\ Limit \in Nat
        /\ config.capacity \in Nat /\ config.capacity >= 1 /\ EpsilonRel \in Nat
    BY CapacityIs, Bounds, Configured
  <1>2. config.capacity * Scale < Limit
    BY <1>1
  <1>3. p \in Nat /\ q \in Nat /\ 512 * q <= C /\ Off(p, q, q)
    BY <1>1, <1>2, SlackIs DEF FullSlack
  <1>4. 1024 * (p - q) <= q
    BY <1>3, OffMeans
  <1> HIDE DEF C, p, q
  <1>5. z \in Nat /\ z < Limit /\ -z < Limit
    BY <1>1, <1>3, <1>4
  <1>6. InRange(z) /\ Magnitude(z) = z
    BY <1>5, Bounds DEF Magnitude
  <1>7. L \in Int /\ Off(L, z, z)
    BY <1>5, <1>6, Rounding
  <1>8. 100 * L <= 101 * C /\ L >= 0
    <2> HIDE DEF L
    <2> QED
      BY <1>1, <1>3, <1>7, LimitError
  <1>9. ASSUME NEW u \in Int PROVE Fits(u) <=> u <= L
    <2>1. C \in Int /\ p \in Int
      BY <1>1, <1>3
    <2>2. Plus(C, p) = L
      BY <2>1, Integers, Zenon
    <2>3. Fits(u) <=> AtLeast(L, u)
      BY <2>2 DEF Fits, C, p, FullSlack
    <2>4. AtLeast(L, u) <=> L >= u
      BY <1>7, Integers, Zenon
    <2> HIDE DEF L
    <2> QED
      BY <1>7, <2>3, <2>4
  <1> HIDE DEF L
  <1> QED
    BY <1>3, <1>5, <1>6, <1>7, <1>8, <1>9 DEF FullLimit, L, z, C, p, q

(* A level of the leaky bucket: past the capacity by a slack at most.      *)
IsLevel(l) ==
    /\ l \in Nat /\ Representable(l) /\ Nearest(l, 1) = l
    /\ 100 * l <= 101 * Capacity

(* A level leaks; by a product that is not positive it does not.           *)
LEMMA LeakIs ==
    ASSUME config \in Configs, NEW d \in 0 .. Ticks, IsLevel(level)
    PROVE  /\ IsLevel(Leaked(d))
           /\ config.rate = Inf => Leaked(d) = IF d > 0 THEN 0 ELSE level
           /\ config.rate \in Int /\ config.rate <= 0 => Leaked(d) = level
           /\ config.rate \in Int /\ config.rate > 0 =>
                \E x \in Nat :
                   /\ Off(x * Parts, config.rate * d * Scale, 5 * (config.rate * d * Scale))
                   /\ InRange(level - x)
                   /\ Leaked(d) = IF x >= level THEN 0 ELSE Nearest(level - x, 1)
  <1> DEFINE r == config.rate
             s == Seconds(d)
             x == Accrued(d)
             C == Capacity
  <1>1. /\ d \in Nat /\ r \in Int \cup {Inf} /\ C \in Nat /\ C >= 1 /\ Limit \in Nat
        /\ 4 * C < Limit /\ InRange(C) /\ C = config.capacity * Scale
    BY Configured, CapacityIs, Bounds
  <1>2. /\ d \div TicksPerSecond < H
        /\ 2 * ((d \div TicksPerSecond + 1) * Scale) < Limit
    BY <1>1, Passing
  <1>3. s \in Nat /\ (s = 0 <=> d = 0)
    BY <1>1, <1>2, Elapsed
  <1>4. level \in Nat /\ 100 * level <= 101 * C /\ Nearest(level, 1) = level /\ Representable(level)
    BY DEF IsLevel
  <1>5. IsLevel(0) /\ Nearest(0, 1) = 0
    <2>1. InRange(0)
      BY <1>1, Bounds
    <2>2. Nearest(0, 1) = 0
      BY <2>1, RoundingKeepsSign
    <2>3. Representable(0)
      BY <2>2 DEF Representable
    <2> QED
      BY <1>1, <2>2, <2>3 DEF IsLevel
  <1>6. ~(Inf \in Int) /\ ~(NaN \in Int) /\ Inf # NaN
    BY Sizes
  <1>7. ~AtLeast(x, 1) => Leaked(d) = level
    BY DEF Leaked
  <1>8. CASE r = Inf
    <2>1. CASE d = 0
      <3>1. x = NaN
        BY <1>3, <1>8, <2>1 DEF Accrued, Times
      <3>2. ~AtLeast(x, 1)
        BY <3>1 DEF AtLeast
      <3> QED
        BY <1>6, <1>7, <1>8, <2>1, <3>2
    <2>2. CASE d # 0
      <3>1. x = Inf
        BY <1>3, <1>8, <2>2 DEF Accrued, Times
      <3>2. AtLeast(x, 1) /\ AtLeast(x, level)
        <4>1. NaN \notin {Inf, 1} /\ NaN \notin {Inf, level}
          BY <1>4, <1>6
        <4> QED
          BY <3>1, <4>1 DEF AtLeast
      <3>3. Leaked(d) = 0
        BY <3>2 DEF Leaked
      <3> QED
        BY <1>1, <1>5, <1>6, <1>8, <2>2, <3>3
    <2> QED
      BY <2>1, <2>2
  <1>9. CASE r \in Int
    <2>1. PICK M \in Nat :
            /\ 4 * C + 2 * M < Limit /\ x \in Int /\ (r <= 0 => x <= 0)
            /\ r >= 0 => /\ x >= 0 /\ x <= 2 * M
                         /\ Off(x * Parts, r * d * Scale, 5 * (r * d * Scale))
      BY <1>1, <1>9, AccruedIs
    <2>2. x \in Int /\ (r <= 0 => x <= 0)
      BY <2>1
    <2>3. r # Inf
      BY <1>6, <1>9
    <2>4. AtLeast(x, 1) <=> x >= 1
      <3>1. x \in Int /\ 1 \in Int
        BY <2>2
      <3> QED
        BY <3>1, Integers, Zenon
    <2>5. CASE r <= 0
      <3>1. ~AtLeast(x, 1)
        BY <2>2, <2>4, <2>5
      <3> QED
        BY <1>7, <1>9, <2>3, <2>5, <3>1
    <2>6. CASE r > 0
      <3> DEFINE z == level - x
                 N == Nearest(z, 1)
      <3>1. x \in Nat /\ x <= 2 * M /\ 4 * C + 2 * M < Limit
            /\ Off(x * Parts, r * d * Scale, 5 * (r * d * Scale))
        BY <1>9, <2>1, <2>6
      <3> HIDE DEF x
      <3>2. z \in Int /\ InRange(z)
        <4>1. z < Limit /\ -z < Limit /\ z \in Int
          BY <1>1, <1>4, <2>1, <3>1
        <4> QED
          BY <4>1, Bounds
      <3>3. Leaked(d) = IF x >= level THEN 0 ELSE N
        <4>1. CASE x = 0
          <5>1. Leaked(d) = level
            BY <1>7, <2>4, <4>1 DEF x
          <5>2. z = level
            BY <1>4, <4>1
          <5>3. N = level
            BY <1>4, <5>2
          <5> QED
            BY <1>4, <4>1, <5>1, <5>3
        <4>2. CASE x # 0
          <5>1. AtLeast(x, 1) /\ (AtLeast(x, level) <=> x >= level)
            BY <1>4, <2>4, <3>1, <4>2, Integers
          <5>2. -x \in Int /\ level \in Int /\ level + (-x) = z
            BY <1>4, <3>1
          <5>3. Plus(level, -x) = N
            BY <5>2, Integers
          <5> QED
            BY <5>1, <5>3 DEF Leaked, x
        <4> QED
          BY <4>1, <4>2
      <3>4. IsLevel(Leaked(d))
        <4>1. CASE x >= level
          BY <1>5, <3>3, <4>1
        <4>2. CASE x < level
          <5>1. Leaked(d) = N
            BY <1>4, <3>1, <3>3, <4>2
          <5>2. z >= 0 /\ z <= level /\ Magnitude(z) = z /\ Magnitude(level) = level
                /\ 2 * z < Limit
            BY <1>1, <1>4, <3>1, <3>2, <4>2 DEF Magnitude
          <5>3. InRange(level)
            <6>1. level < Limit /\ -level < Limit
              BY <1>1, <1>4
            <6> QED
              BY <1>4, <6>1, Bounds
          <5> HIDE DEF z
          <5>4. N \in Int /\ N >= 0 /\ Representable(N)
            BY <3>2, <5>2, Rounding, RoundingKeepsSign, Represents DEF Limit
          <5>5. N <= level
            BY <1>4, <3>2, <5>2, <5>3, RoundingKeepsOrder
          <5>6. Nearest(N, 1) = N
            <6>1. N # Inf /\ N # NaN
              BY <1>6, <5>4
            <6> QED
              BY <5>4, <6>1 DEF Representable, Finite
          <5> HIDE DEF N
          <5>7. N \in Nat /\ 100 * N <= 101 * C
            BY <1>1, <1>4, <5>4, <5>5
          <5> QED
            BY <5>1, <5>4, <5>6, <5>7 DEF IsLevel
        <4> QED
          BY <1>4, <3>1, <4>1, <4>2
      <3> HIDE DEF N
      <3> QED
        BY <1>9, <2>3, <2>6, <3>1, <3>2, <3>3, <3>4 DEF N
    <2> QED
      BY <1>9, <2>5, <2>6
  <1> QED
    BY <1>1, <1>8, <1>9

LEMMA LeakDrift ==
    ASSUME config \in Configs, NEW d \in 0 .. Ticks, IsLevel(level), exact \in Nat,
           NEW D \in Nat, Off(level * Parts, exact * Scale, D)
    PROVE  /\ IsLevel(Leaked(d)) /\ ExactLevel(d) \in Nat
           /\ Off(Leaked(d) * Parts, ExactLevel(d) * Scale,
                  D + 7 * (Capacity * Parts))
  <1> DEFINE T == Parts
             S == Scale
             C == Capacity
             r == config.rate
             cc == C * T
             tt == level * T
             ee == exact * S
  <1>1. /\ C \in Nat /\ T \in Nat /\ T >= 1 /\ S \in Nat /\ S >= 1 /\ d \in Nat
        /\ r \in Int \cup {Inf} /\ Inf \notin Int /\ level \in Nat /\ 100 * level <= 101 * C
        /\ Nearest(level, 1) = level
    BY CapacityIs, Configured, Sizes DEF IsLevel
  <1>2. cc \in Nat /\ tt \in Nat /\ ee \in Nat
    BY <1>1
  <1>3. IsLevel(Leaked(d))
    BY LeakIs
  <1>4. Off(tt, ee, D) /\ Off(tt, ee, D + 7 * cc)
    <2>1. Off(tt, ee, D)
      OBVIOUS
    <2> HIDE DEF tt, ee, cc
    <2> QED
      BY <1>2, <2>1, OffWeaken
  <1>5. 0 * T = 0 /\ 0 * S = 0
    BY <1>1
  <1>6. Off(0, 0, D + 7 * cc)
    BY <1>2, OffSelf
  <1>7. CASE r = Inf
    <2>1. Leaked(d) = IF d > 0 THEN 0 ELSE level
      BY <1>7, LeakIs
    <2>2. ExactLevel(d) = IF d > 0 THEN 0 ELSE exact
      BY <1>7 DEF ExactLevel
    <2>3. CASE d > 0
      <3>1. Leaked(d) = 0 /\ ExactLevel(d) = 0
        BY <2>1, <2>2, <2>3
      <3> QED
        BY <1>3, <1>5, <1>6, <3>1
    <2>4. CASE ~(d > 0)
      <3>1. Leaked(d) = level /\ ExactLevel(d) = exact
        BY <2>1, <2>2, <2>4
      <3> QED
        BY <1>3, <1>4, <3>1
    <2> QED
      BY <2>3, <2>4
  <1>8. CASE r \in Int /\ r <= 0
    <2>1. Leaked(d) = level
      BY <1>8, LeakIs
    <2>2. ExactLevel(d) = exact
      <3>1. r # Inf /\ ~(r > 0)
        BY <1>1, <1>8
      <3> QED
        BY <3>1 DEF ExactLevel
    <2> QED
      BY <1>3, <1>4, <2>1, <2>2
  <1>9. CASE r \in Int /\ r > 0
    <2>1. PICK x \in Nat :
             /\ Off(x * T, r * d * S, 5 * (r * d * S))
             /\ InRange(level - x)
             /\ Leaked(d) = IF x >= level THEN 0 ELSE Nearest(level - x, 1)
      BY <1>9, LeakIs
    <2> DEFINE z == level - x
               N == Nearest(z, 1)
               b == r * d
               g == b * S
               xx == x * T
               nn == N * T
    <2>2. ExactLevel(d) = IF exact < b THEN 0 ELSE exact - b
      <3>1. r # Inf /\ r > 0
        BY <1>1, <1>9
      <3> QED
        BY <3>1 DEF ExactLevel
    <2>3. z \in Int /\ N \in Int /\ Off(nn, z * T, Magnitude(z * T))
      <3>1. z \in Int /\ InRange(z)
        BY <1>1, <2>1
      <3> QED
        BY <1>1, <3>1, Rounding, RoundingScaled
    <2>4. b \in Nat /\ g \in Nat /\ xx \in Nat /\ nn \in Int /\ z * T = tt - xx
      BY <1>1, <1>9, <2>3
    <2>5. Off(xx, g, 5 * g) /\ Off(nn, tt - xx, Magnitude(tt - xx))
      BY <2>1, <2>3, <2>4
    <2>6. 100 * tt <= 101 * cc
      <3>1. T * (100 * level) <= T * (101 * C)
        BY <1>1, Monotone
      <3> QED
        BY <1>1, <3>1
    <2>7. x >= level <=> xx >= tt
      <3>1. x >= level => T * x >= T * level
        BY <1>1, Monotone
      <3>2. level >= x + 1 => T * (level - x) >= T * 1
        BY <1>1, Monotone
      <3>3. T * x = xx /\ T * level = tt /\ T * (level - x) = tt - xx
        BY <1>1
      <3> HIDE DEF T
      <3> QED
        BY <1>1, <1>2, <2>4, <3>1, <3>2, <3>3
    <2>8. exact < b <=> ee < g
      <3>1. exact >= b => S * exact >= S * b
        BY <1>1, <2>4, Monotone
      <3>2. b >= exact + 1 => S * (b - exact) >= S * 1
        BY <1>1, <2>4, Monotone
      <3>3. S * b = g /\ S * exact = ee /\ S * (b - exact) = g - ee
        BY <1>1, <2>4
      <3> HIDE DEF b, S
      <3> QED
        BY <1>1, <1>2, <2>4, <3>1, <3>2, <3>3
    <2>9. Leaked(d) * T = IF xx >= tt THEN 0 ELSE nn
      BY <1>5, <2>1, <2>7
    <2>10. ExactLevel(d) * S = IF ee < g THEN 0 ELSE ee - g
      <3>1. (exact - b) * S = ee - g
        BY <1>1, <2>4
      <3> QED
        BY <1>5, <2>2, <2>8, <3>1
    <2>11. ExactLevel(d) \in Nat
      <3> HIDE DEF b
      <3> QED
        BY <2>2, <2>4
    <2> HIDE DEF xx, tt, nn, ee, g, cc
    <2>12. Off(IF xx >= tt THEN 0 ELSE nn, IF ee < g THEN 0 ELSE ee - g, D + 7 * cc)
      BY <1>2, <1>4, <2>4, <2>5, <2>6, LeakError
    <2> QED
      BY <1>3, <2>9, <2>10, <2>11, <2>12 DEF cc
  <1> QED
    BY <1>1, <1>7, <1>8, <1>9

(* A call on a level that has leaked: the books stay together, and so do   *)
(* the answers, within the drift D and ten roundings of the capacity.      *)
LEMMA FillDrift ==
    ASSUME config \in Configs, NEW n \in config.batches, NEW l, IsLevel(l),
           NEW e \in Nat, NEW D \in Nat,
           Off(l * Parts, e * Scale, D + 7 * (Capacity * Parts))
    PROVE  /\ Fits(Plus(l, Float(n))) =>
                /\ IsLevel(Plus(l, Float(n)))
                /\ Off(Plus(l, Float(n)) * Parts, (e + n * Parts) * Scale,
                       D + 10 * (Capacity * Parts))
           /\ D + 10 * (Capacity * Parts)
                  <= H * (config.capacity * EpsilonRel * Parts)
                => Faithful(Verdict(Fits(Plus(l, Float(n))), config.capacity * Parts - e,
                                    Parts, n, config.capacity * EpsilonRel))
  <1> DEFINE T == Parts
             S == Scale
             C == Capacity
             p == FullSlack
             q == config.capacity * EpsilonRel
             L == FullLimit
             y == n * S
             z == l + y
             u == Nearest(z, 1)
             tt == l * T
             ee == e * S
             yy == y * T
             uu == u * T
             pp == p * T
             qq == q * T
             ll == L * T
             cc == C * T
  <1>1. /\ C \in Nat /\ C = config.capacity * S /\ config.capacity \in Nat /\ Limit \in Nat
        /\ T \in Nat /\ T >= 1 /\ S \in Nat /\ S >= 1 /\ EpsilonRel \in Nat
        /\ n \in Nat /\ y \in Nat /\ Float(n) = y /\ 4 * C + 2 * y < Limit
        /\ Inf \notin Int /\ NaN \notin Int
    BY CapacityIs, Configured, Sizes, Batch, Bounds
  <1>2. /\ p \in Nat /\ q \in Nat /\ L \in Int /\ 512 * q <= C /\ Off(p, q, q) /\ Off(L, C + p, C + p)
        /\ 100 * L <= 101 * C
        /\ \A v \in Int : Fits(v) <=> v <= L
    BY FitsIs
  <1>3. l \in Nat /\ 100 * l <= 101 * C
    BY DEF IsLevel
  <1>4. z \in Nat /\ InRange(z) /\ 2 * Magnitude(z) < Limit /\ Magnitude(z) = z
    <2> HIDE DEF C, y
    <2>1. z \in Nat /\ 2 * z < Limit /\ z < Limit /\ -z < Limit
      BY <1>1, <1>3
    <2> HIDE DEF z
    <2>2. Magnitude(z) = z
      BY <2>1 DEF Magnitude
    <2> QED
      BY <2>1, <2>2, Bounds
  <1>5. u \in Int /\ Off(u, z, z) /\ u >= 0 /\ Representable(u) /\ Nearest(u, 1) = u
    <2>1. u \in Int /\ Off(u, z, z) /\ u >= 0 /\ Representable(u)
      BY <1>4, Rounding, RoundingKeepsSign, Represents DEF Limit
    <2>2. u # Inf /\ u # NaN
      BY <1>1, <2>1
    <2> QED
      BY <2>1, <2>2 DEF Representable, Finite
  <1>6. Plus(l, Float(n)) = u
    <2>1. l \in Int /\ y \in Int
      BY <1>1, <1>3
    <2> QED
      BY <1>1, <2>1, Integers
  <1> DEFINE ok == Fits(u)
  <1>7. ok <=> u <= L
    BY <1>2, <1>5
  <1> HIDE DEF ok, u
  <1>8. ok => IsLevel(u)
    <2> HIDE DEF C, L
    <2>1. ok => u \in Nat /\ 100 * u <= 101 * C
      BY <1>1, <1>2, <1>5, <1>7
    <2> QED
      BY <1>5, <2>1 DEF IsLevel, C
  <1>9. /\ tt \in Nat /\ ee \in Nat /\ yy \in Nat /\ uu \in Int /\ pp \in Nat /\ qq \in Nat
        /\ ll \in Int /\ cc \in Nat
        /\ z * T = tt + yy /\ (C + p) * T = cc + pp
    BY <1>1, <1>2, <1>3, <1>5
  <1>10. Off(tt, ee, D + 7 * cc)
    OBVIOUS
  <1>11. Off(uu, tt + yy, tt + yy) /\ Off(pp, qq, qq) /\ Off(ll, cc + pp, cc + pp) /\ 512 * qq <= cc
    <2>1. Off(T * u, T * z, T * z)
      BY <1>1, <1>4, <1>5, OffScale
    <2>2. Off(T * p, T * q, T * q)
      <3>1. p \in Int /\ q \in Int
        BY <1>2
      <3> QED
        BY <1>1, <1>2, <3>1, OffScale, Zenon
    <2>3. Off(T * L, T * (C + p), T * (C + p))
      <3>1. L \in Int /\ C + p \in Int
        BY <1>1, <1>2
      <3> QED
        BY <1>1, <1>2, <3>1, OffScale, Zenon
    <2>4. T * (512 * q) <= T * C
      BY <1>1, <1>2, Monotone
    <2>5. /\ T * u = uu /\ T * z = z * T /\ T * p = pp /\ T * q = qq /\ T * L = ll
          /\ T * (C + p) = (C + p) * T /\ T * (512 * q) = 512 * qq /\ T * C = cc
      BY <1>1, <1>2, <1>4, <1>5
    <2> HIDE DEF uu, pp, qq, ll, cc, tt, yy, z
    <2> QED
      BY <1>9, <2>1, <2>2, <2>3, <2>4, <2>5
  <1>12. u <= L <=> uu <= ll
    <2>1. u <= L => T * u <= T * L
      BY <1>1, <1>2, <1>5, Monotone
    <2>2. u >= L + 1 => T * (u - L) >= T * 1
      BY <1>1, <1>2, <1>5, Monotone
    <2>3. T * u = uu /\ T * L = ll /\ T * (u - L) = uu - ll
      BY <1>1, <1>2, <1>5
    <2> HIDE DEF T
    <2> QED
      BY <1>1, <1>2, <1>5, <1>9, <2>1, <2>2, <2>3
  <1>13. (e + n * T) * S = ee + yy
    BY <1>1
  <1>14. /\ config.capacity * T - e >= n * T <=> ee + yy <= cc
         /\ (config.capacity * T - e - n * T) * S + 2 * q * T = cc - ee - yy + 2 * qq
    <2>1. (config.capacity * T - e - n * T) * S = cc - ee - yy
      BY <1>1
    <2>2. 2 * q * T = 2 * qq
      BY <1>1, <1>2
    <2> DEFINE v == config.capacity * T - e - n * T
    <2>3. v \in Int /\ (v >= 0 <=> config.capacity * T - e >= n * T)
      <3>1. config.capacity * T \in Int /\ n * T \in Int
        BY <1>1
      <3> QED
        BY <3>1
    <2>4. v >= 0 <=> v * S >= 0
      <3> HIDE DEF v
      <3>1. v >= 0 => v * S >= 0
        BY <1>1, <2>3
      <3>2. v <= -1 => S * v <= S * (-1)
        BY <1>1, <2>3, Monotone
      <3>3. S * v = v * S /\ v * S \in Int
        BY <1>1, <2>3
      <3> HIDE DEF S
      <3> QED
        BY <1>1, <2>3, <3>1, <3>2, <3>3
    <2> HIDE DEF cc, ee, yy, qq
    <2>5. v * S = cc - ee - yy
      BY <2>1
    <2> QED
      BY <1>9, <2>2, <2>3, <2>4, <2>5
  <1>15. /\ uu <= ll => Off(uu, ee + yy, D + 10 * cc)
         /\ D + 10 * cc <= H * qq /\ ee + yy <= cc => uu <= ll
         /\ D + 10 * cc <= H * qq /\ uu <= ll => cc - ee - yy + 2 * qq >= 0
    <2> HIDE DEF tt, ee, yy, uu, pp, qq, ll, cc
    <2> QED
      BY <1>9, <1>10, <1>11, FillVerdict
  <1>16. ok => Off(u * T, (e + n * T) * S, D + 10 * cc)
    BY <1>7, <1>12, <1>13, <1>15
  <1>17. ASSUME D + 10 * cc <= H * qq
         PROVE  Faithful(Verdict(ok, config.capacity * T - e, T, n, q))
    <2>1. config.capacity * T - e >= n * T => ok
      BY <1>7, <1>12, <1>14, <1>15, <1>17
    <2>2. ok => (config.capacity * T - e - n * T) * S + 2 * q * T >= 0
      BY <1>7, <1>12, <1>14, <1>15, <1>17
    <2> QED
      BY <2>1, <2>2 DEF Faithful, Verdict
  <1> QED
    BY <1>6, <1>8, <1>16, <1>17 DEF ok

--------------------------------------------------------------------------------
(* The sliding window.                                                     *)
(* The previous window weighs g by exact books and a by the limiter's; r   *)
(* counts the current one, E is the estimate, U its sum with the batch n.  *)
LEMMA SlideVerdict ==
    ASSUME NEW a \in Nat, NEW g \in Nat, NEW r \in Nat, NEW E \in Nat, NEW n \in Nat,
           NEW U \in Int, NEW L \in Int, NEW c \in Nat, NEW p \in Nat, NEW s \in Nat,
           Off(a, g, 3 * g), Off(E, a + r, a + r), Off(U, E + n, E + n),
           512 * s <= c, Off(p, s, s), Off(L, c + p, c + p)
    PROVE  /\ U <= L => 2 * (r + n) <= 3 * c
           /\ 10 * c <= H * s /\ g + r + n <= c => U <= L
           /\ 10 * c <= H * s /\ U <= L => c - g - r - n + 2 * s >= 0
  <1> DEFINE z == E + n
             k == a + r
             ha == H * a
             hg == H * g
             hr == H * r
             hE == H * E
             hn == H * n
             hU == H * U
             hL == H * L
             hc == H * c
             hs == H * s
  <1>1. /\ ha \in Nat /\ hg \in Nat /\ hr \in Nat /\ hE \in Nat /\ hn \in Nat /\ hU \in Int
        /\ hL \in Int /\ hc \in Nat /\ hs \in Nat /\ H \in Nat /\ H >= 1
        /\ H * z = hE + hn /\ H * k = ha + hr /\ H * (g + r + n) = hg + hr + hn
        /\ H * (c + 2 * s) = hc + 2 * hs
    BY Sizes
  <1>2. /\ ha <= hg + 3 * g /\ hg <= ha + 3 * g
        /\ hE <= (ha + hr) + k /\ ha + hr <= hE + k
        /\ hU <= (hE + hn) + z /\ hE + hn <= hU + z
    BY <1>1 DEF Off
  <1>3. /\ 100 * L <= 101 * c /\ L >= 0
        /\ 100 * hL <= 100 * hc + 100 * hs + 101 * c
        /\ 100 * hc + 100 * hs <= 100 * hL + 101 * c
    BY LimitError
  <1>4. /\ 1024 * (a - g) <= 3 * g /\ 1024 * (g - a) <= 3 * g
        /\ 1024 * (E - k) <= k /\ 1024 * (k - E) <= k
        /\ 1024 * (U - z) <= z /\ 1024 * (z - U) <= z
    <2>1. k \in Nat /\ z \in Nat /\ 3 * g \in Nat
      OBVIOUS
    <2>2. Off(E, k, k) /\ Off(U, z, z)
      OBVIOUS
    <2> HIDE DEF k, z
    <2> QED
      BY <2>1, <2>2, OffMeans
  <1>5. ASSUME U <= L
        PROVE  hU <= hL /\ 50 * z <= 51 * c /\ 50 * k <= 52 * c /\ 50 * g <= 53 * c
               /\ 2 * (r + n) <= 3 * c
    <2>1. hU <= hL
      BY <1>1, <1>5, Monotone
    <2> HIDE DEF hU, hL
    <2>2. 50 * z <= 51 * c
      BY <1>3, <1>4, <1>5
    <2>3. 50 * k <= 52 * c
      BY <1>4, <2>2
    <2>4. 50 * g <= 53 * c
      BY <1>4, <2>3
    <2>5. 2 * (r + n) <= 3 * c
      BY <1>4, <2>2
    <2> QED
      BY <2>1, <2>2, <2>3, <2>4, <2>5
  <1>6. ASSUME 10 * c <= H * s, g + r + n <= c PROVE U <= L
    <2>1. hg + hr + hn <= hc
      <3>1. H * (g + r + n) <= H * c
        BY <1>1, <1>6, Monotone
      <3> QED
        BY <1>1, <3>1
    <2>2. 10 * c <= hs
      BY <1>6
    <2>3. 50 * k <= 51 * c /\ 50 * z <= 52 * c
      BY <1>4, <1>6
    <2>4. g <= c
      BY <1>6
    <2>5. /\ ha \in Int /\ hg \in Int /\ hr \in Int /\ hE \in Int /\ hn \in Int /\ hU \in Int
          /\ hL \in Int /\ hc \in Int /\ hs \in Int /\ z \in Int /\ k \in Int
      BY <1>1
    <2>6. /\ ha <= hg + 3 * g
          /\ hE <= (ha + hr) + k
          /\ hU <= (hE + hn) + z
      BY <1>2
    <2>7. 100 * hc + 100 * hs <= 100 * hL + 101 * c
      BY <1>3
    <2> HIDE DEF z, k, ha, hg, hr, hE, hn, hU, hL, hc, hs
    <2>8. hU <= hc + 3 * c + k + z
      BY <2>1, <2>4, <2>5, <2>6
    <2>9. hU <= hL
      BY <2>2, <2>3, <2>5, <2>7, <2>8
    <2> QED
      BY <2>9, Cancel DEF hU, hL
  <1>7. ASSUME 10 * c <= H * s, U <= L PROVE c - g - r - n + 2 * s >= 0
    <2>1. hU <= hL /\ 50 * z <= 51 * c /\ 50 * k <= 52 * c /\ 50 * g <= 53 * c
      BY <1>5, <1>7
    <2>2. 10 * c <= hs
      BY <1>7
    <2>5. /\ ha \in Int /\ hg \in Int /\ hr \in Int /\ hE \in Int /\ hn \in Int /\ hU \in Int
          /\ hL \in Int /\ hc \in Int /\ hs \in Int /\ z \in Int /\ k \in Int
      BY <1>1
    <2>6. /\ hg <= ha + 3 * g
          /\ ha + hr <= hE + k
          /\ hE + hn <= hU + z
      BY <1>2
    <2>7. 100 * hL <= 100 * hc + 100 * hs + 101 * c
      BY <1>3
    <2> HIDE DEF z, k, ha, hg, hr, hE, hn, hU, hL, hc, hs
    <2>8. hg + hr + hn <= hL + 3 * g + k + z
      BY <2>1, <2>5, <2>6
    <2>3. hg + hr + hn <= hc + 2 * hs
      BY <2>1, <2>2, <2>5, <2>7, <2>8
    <2>4. g + r + n <= c + 2 * s
      <3>1. H * (g + r + n) <= H * (c + 2 * s)
        BY <1>1, <2>3
      <3> QED
        BY <3>1, Cancel
    <2> QED
      BY <2>4
  <1> QED
    BY <1>5, <1>6, <1>7

(* The windows count what was admitted: no more than half as much again as *)
(* the capacity.                                                           *)
IsWindow(w) ==
    /\ w.into \in 0 .. Window - 1 /\ w.prev \in Nat /\ w.curr \in Nat
    /\ 2 * w.prev <= 3 * config.capacity /\ 2 * w.curr <= 3 * config.capacity

LEMMA RolledIs ==
    ASSUME config \in Configs, NEW d \in Nat, IsWindow(window),
           window = [into |-> window.into, prev |-> window.prev, curr |-> window.curr]
    PROVE  IsWindow(Rolled(d))
           /\ Rolled(d) = [into |-> Rolled(d).into, prev |-> Rolled(d).prev, curr |-> Rolled(d).curr]
  <1> DEFINE i == window.into + d
             q == i \div Window
  <1>1. Window \in Nat /\ Window >= 1 /\ config.capacity \in Nat
    BY Configured
  <1>2. i \in Nat /\ window.into \in Nat /\ window.prev \in Nat /\ window.curr \in Nat
        /\ 2 * window.prev <= 3 * config.capacity /\ 2 * window.curr <= 3 * config.capacity
    BY <1>1 DEF IsWindow
  <1> HIDE DEF i
  <1>3. q \in Nat /\ (i % Window) \in Nat /\ (i % Window) < Window /\ i = q * Window + (i % Window)
    BY <1>1, <1>2, Division
  <1> DEFINE m == i % Window
  <1>4. m \in 0 .. Window - 1
    <2> HIDE DEF m
    <2>1. m \in Nat /\ m < Window
      BY <1>3 DEF m
    <2> QED
      BY <1>1, <2>1
  <1> HIDE DEF q
  <1>5. CASE q = 0
    <2>1. i = m
      <3>1. 0 * Window = 0
        BY <1>1
      <3> HIDE DEF m
      <3>2. i = 0 + m /\ m \in Nat
        BY <1>3, <1>5, <3>1 DEF m
      <3> QED
        BY <3>2
    <2>2. Rolled(d) = [window EXCEPT !.into = i]
      BY <1>5 DEF Rolled, q, i
    <2>3. Rolled(d) = [into |-> i, prev |-> window.prev, curr |-> window.curr]
      BY <2>2
    <2> QED
      BY <1>2, <1>4, <2>1, <2>3 DEF IsWindow
  <1>6. CASE q # 0
    <2> DEFINE b == IF q = 1 THEN window.curr ELSE 0
    <2>1. Rolled(d) = [into |-> m, prev |-> b, curr |-> 0]
      BY <1>6 DEF Rolled, q, i
    <2>2. b \in Nat /\ 2 * b <= 3 * config.capacity
      BY <1>1, <1>2
    <2> QED
      BY <1>1, <1>4, <2>1, <2>2 DEF IsWindow
  <1> QED
    BY <1>5, <1>6

(* The share of the previous window, k of its ticks being in sight.        *)
LEMMA OverlapIs ==
    ASSUME config \in Configs, NEW k \in 1 .. Window, NEW v \in Nat, 2 * v <= 3 * config.capacity
    PROVE  /\ Times(v, 1, Nearest(k * Scale, Window)) \in Nat
           /\ 100 * Times(v, 1, Nearest(k * Scale, Window)) <= 151 * Capacity
           /\ Off(Times(v, 1, Nearest(k * Scale, Window)) * Window, v * k * Scale, 3 * (v * k * Scale))
  <1> DEFINE W == Window
             S == Scale
             C == Capacity
             b == k * S
             o == Nearest(b, W)
             m == v * o
             a == Nearest(m, 1)
             G == v * k * S
             y == m * W
  <1>1. /\ W \in Nat /\ W >= 1 /\ S \in Nat /\ S >= 1 /\ C \in Nat /\ C >= S /\ 4 * C < Limit
        /\ C = config.capacity * S /\ config.capacity \in Nat /\ Limit \in Nat
        /\ 2 * S >= H * W /\ H \in Nat
    BY Configured, Sizes, CapacityIs, Bounds
  <1>2. k \in Nat /\ k >= 1 /\ k <= W
    BY <1>1
  <1>3. b \in Nat /\ b >= S /\ b <= S * W /\ S * W \in Nat
    <2>1. S * 1 <= S * k /\ S * k <= S * W
      BY <1>1, <1>2, Monotone
    <2> QED
      BY <1>1, <1>2, <2>1
  <1>4. InRange(b \div W)
    <2>1. b \div W <= (S * W) \div W /\ b \div W \in Nat
      <3> DEFINE e == S * W
      <3>1. e \in Nat /\ b <= e
        BY <1>3
      <3> HIDE DEF e, b
      <3>2. b \div W <= e \div W /\ b \div W \in Nat
        BY <1>1, <1>3, <3>1, Division, DivisionMonotone
      <3> QED
        BY <3>2 DEF e
    <2>2. (S * W) \div W = S
      BY <1>1
    <2> DEFINE q == b \div W
    <2>3. q \in Nat /\ q <= S
      BY <2>1, <2>2
    <2> HIDE DEF q, S, C
    <2>4. q < Limit /\ -q < Limit
      BY <1>1, <2>3
    <2> QED
      BY <2>3, <2>4, Bounds DEF q, S
  <1>5. o \in Nat /\ Off(o * W, b, b)
    <2>1. 2 * b >= H * W
      <3> DEFINE h == H * W
      <3>1. h \in Nat /\ 2 * S >= h
        BY <1>1
      <3> HIDE DEF h, b, S
      <3>2. 2 * b >= h
        BY <1>1, <1>3, <3>1
      <3> QED
        BY <3>2 DEF h
    <2> HIDE DEF b, W
    <2> QED
      BY <1>1, <1>3, <1>4, <2>1, Quotients
  <1> HIDE DEF o
  <1>6. 1024 * o <= 1025 * S
    <2>1. 1024 * (o * W - b) <= b
      <3>1. o * W \in Int /\ b \in Nat
        BY <1>1, <1>3, <1>5
      <3> QED
        BY <1>5, <3>1, OffMeans
    <2> DEFINE x == o * W
               e == S * W
    <2>2. x \in Nat /\ e \in Nat /\ 1024 * (x - b) <= b /\ b <= e
      BY <1>1, <1>3, <1>5, <2>1
    <2>3. 1024 * o >= 1025 * S + 1 => W * (1024 * o - 1025 * S) >= W * 1
      BY <1>1, <1>5, Monotone
    <2>4. W * (1024 * o - 1025 * S) = 1024 * x - 1025 * e
      BY <1>1, <1>5
    <2> HIDE DEF x, e, b
    <2>5. 1024 * x <= 1025 * e
      BY <1>3, <2>2
    <2>6. ~(1024 * o >= 1025 * S + 1)
      <3> HIDE DEF W, S
      <3> QED
        BY <1>1, <1>5, <2>2, <2>3, <2>4, <2>5
    <2> QED
      BY <1>1, <1>5, <2>6
  <1>7. m \in Nat /\ 2048 * m <= 3075 * C
    <2>1. v * (1024 * o) <= v * (1025 * S)
      BY <1>1, <1>5, <1>6, Monotone
    <2>2. S * (2 * v) <= S * (3 * config.capacity)
      BY <1>1, Monotone
    <2> DEFINE f == v * S
    <2>3. f \in Nat /\ m \in Nat /\ 1024 * m <= 1025 * f /\ 2 * f <= 3 * C
      BY <1>1, <1>5, <2>1, <2>2
    <2> HIDE DEF f, m, C
    <2> QED
      BY <1>1, <2>3
  <1>8. InRange(m) /\ Magnitude(m) = m
    <2> HIDE DEF m, C
    <2>1. m < Limit /\ -m < Limit
      BY <1>1, <1>7
    <2> QED
      BY <1>7, <2>1, Bounds DEF Magnitude
  <1>9. a \in Int /\ Off(a, m, m) /\ a >= 0
    BY <1>7, <1>8, Rounding, RoundingKeepsSign
  <1>10. Times(v, 1, o) = a
    <2>1. v \in Nat /\ o \in Int
      BY <1>5
    <2> QED
      BY <2>1, Integers, Zenon
  <1>11. Off(a * W, y, y) /\ y \in Nat
    <2>1. m \in Int /\ y \in Nat
      BY <1>1, <1>7
    <2>2. Off(a * W, y, Magnitude(y))
      BY <1>1, <1>8, <2>1, RoundingScaled
    <2>3. Magnitude(y) = y
      BY <2>1 DEF Magnitude
    <2> QED
      BY <2>1, <2>2, <2>3
  <1>12. Off(y, G, G) /\ G \in Nat
    <2>1. Off(v * (o * W), v * b, v * b)
      <3>1. o * W \in Int /\ b \in Int
        BY <1>1, <1>3, <1>5
      <3> QED
        BY <1>5, <3>1, OffScale
    <2>2. v * (o * W) = y
      BY <1>1, <1>5
    <2>3. v * b = G
      BY <1>1, <1>2
    <2> QED
      BY <1>1, <1>2, <2>1, <2>2, <2>3
  <1>13. 100 * a <= 151 * C
    <2>1. 1024 * (a - m) <= m
      BY <1>7, <1>9, OffMeans
    <2> HIDE DEF a, m, C
    <2> QED
      BY <1>1, <1>7, <1>9, <2>1
  <1> DEFINE x == a * W
  <1>14. x \in Int
    BY <1>1, <1>9
  <1> HIDE DEF x, y, G, a
  <1>15. Off(x, G, 3 * G)
    <2>1. Off(x, G, y + G)
      BY <1>11, <1>12, <1>14, OffTriangle DEF x
    <2>2. 1024 * (y - G) <= G
      BY <1>11, <1>12, OffMeans
    <2>3. y + G <= 3 * G /\ y + G \in Int /\ 3 * G \in Int
      BY <1>11, <1>12, <2>2
    <2> QED
      BY <1>12, <1>14, <2>1, <2>3, OffWeaken
  <1>16. a \in Nat
    BY <1>9
  <1> QED
    BY <1>10, <1>13, <1>15, <1>16 DEF o, x, G

(* A call on windows that have rolled: the answers stay within ten         *)
(* roundings of the capacity, and the counts within it, or nearly.         *)
LEMMA SlideDrift ==
    ASSUME config \in Configs, NEW n \in config.batches, NEW w, IsWindow(w)
    PROVE  /\ Fits(Plus(Estimate(w), Float(n))) => 2 * (w.curr + n) <= 3 * config.capacity
           /\ 10 * (Capacity * Window) <= H * (config.capacity * EpsilonRel * Window)
                => Faithful(Verdict(Fits(Plus(Estimate(w), Float(n))),
                                    (config.capacity - w.curr) * Window - w.prev * (Window - w.into),
                                    Window, n, config.capacity * EpsilonRel))
  <1> DEFINE W == Window
             S == Scale
             C == Capacity
             p == FullSlack
             q == config.capacity * EpsilonRel
             L == FullLimit
             v == w.prev
             k == W - w.into
             h == w.curr
             a == Times(v, 1, Nearest(k * S, W))
             j == h * S
             E == Nearest(a + j, 1)
             y == n * S
             u == Nearest(E + y, 1)
  <1>1. /\ W \in Nat /\ W >= 1 /\ S \in Nat /\ S >= 1 /\ C \in Nat /\ 4 * C + 2 * y < Limit
        /\ C = config.capacity * S /\ config.capacity \in Nat /\ 2 * config.capacity <= H
        /\ Limit \in Nat /\ n \in Nat /\ y \in Nat /\ Float(n) = y /\ H \in Nat /\ EpsilonRel \in Nat
    BY Configured, Sizes, CapacityIs, Bounds, Batch
  <1>2. k \in 1 .. W /\ v \in Nat /\ h \in Nat /\ k \in Nat
        /\ 2 * v <= 3 * config.capacity /\ 2 * h <= 3 * config.capacity
    BY <1>1 DEF IsWindow
  <1> HIDE DEF k, v, h
  <1>3. a \in Nat /\ 100 * a <= 151 * C /\ Off(a * W, v * k * S, 3 * (v * k * S))
    BY <1>2, OverlapIs
  <1> HIDE DEF a
  <1>4. j \in Nat /\ 2 * j <= 3 * C /\ Float(h) = j
    <2>1. S * (2 * h) <= S * (3 * config.capacity)
      BY <1>1, <1>2, Monotone
    <2>2. j \in Nat /\ 2 * j <= 3 * C
      BY <1>1, <1>2, <2>1
    <2>3. h <= H
      BY <1>1, <1>2
    <2>4. j < Limit
      <3> HIDE DEF j, C, y
      <3> QED
        BY <1>1, <2>2
    <2> QED
      BY <1>2, <2>2, <2>3, <2>4, Counts
  <1> HIDE DEF j
  <1>5. E \in Int /\ Off(E, a + j, a + j) /\ E >= 0 /\ InRange(a + j)
    <2> DEFINE z == a + j
    <2>1. z \in Nat /\ z < Limit /\ -z < Limit
      <3> HIDE DEF C, y
      <3> QED
        BY <1>1, <1>3, <1>4
    <2> HIDE DEF z
    <2>2. InRange(z) /\ Magnitude(z) = z
      BY <2>1, Bounds DEF Magnitude
    <2>3. Nearest(z, 1) \in Int /\ Off(Nearest(z, 1), z, z) /\ Nearest(z, 1) >= 0
      BY <2>1, <2>2, Rounding, RoundingKeepsSign
    <2> QED
      BY <2>2, <2>3 DEF z
  <1>6. Estimate(w) = E
    <2>1. a \in Int /\ j \in Int
      BY <1>3, <1>4
    <2>2. Plus(a, j) = E
      BY <2>1, Integers, Zenon
    <2> QED
      BY <1>4, <2>2 DEF Estimate, a, k, v, h
  <1>7. E <= 4 * C
    <2>1. 1024 * (E - (a + j)) <= a + j
      <3>1. a + j \in Nat
        BY <1>3, <1>4
      <3> QED
        BY <1>5, <3>1, OffMeans
    <2> HIDE DEF E, C
    <2> QED
      BY <1>1, <1>3, <1>4, <1>5, <2>1
  <1> HIDE DEF E
  <1>8. u \in Int /\ Off(u, E + y, E + y) /\ u >= 0 /\ E + y \in Nat
    <2> DEFINE z == E + y
    <2>1. z \in Nat /\ z < Limit /\ -z < Limit
      <3> HIDE DEF C, y
      <3> QED
        BY <1>1, <1>5, <1>7
    <2> HIDE DEF z
    <2>2. InRange(z) /\ Magnitude(z) = z
      BY <2>1, Bounds DEF Magnitude
    <2>3. Nearest(z, 1) \in Int /\ Off(Nearest(z, 1), z, z) /\ Nearest(z, 1) >= 0
      BY <2>1, <2>2, Rounding, RoundingKeepsSign
    <2> QED
      BY <2>1, <2>3 DEF z
  <1>9. Plus(Estimate(w), Float(n)) = u
    <2>1. E \in Int /\ y \in Int
      BY <1>1, <1>5
    <2>2. Plus(E, y) = u
      BY <2>1, Integers, Zenon
    <2> QED
      BY <1>1, <1>6, <2>2
  <1>10. /\ p \in Nat /\ q \in Nat /\ L \in Int /\ 512 * q <= C /\ Off(p, q, q) /\ Off(L, C + p, C + p)
         /\ \A x \in Int : Fits(x) <=> x <= L
    BY FitsIs
  <1> HIDE DEF u
  <1> DEFINE ok == Fits(u)
             aa == a * W
             gg == v * k * S
             rr == j * W
             ee == E * W
             yy == y * W
             uu == u * W
             ll == L * W
             cc == C * W
             pp == p * W
             qq == q * W
  <1>11. ok <=> u <= L
    BY <1>8, <1>10
  <1> HIDE DEF ok
  <1>12. /\ aa \in Nat /\ gg \in Nat /\ rr \in Nat /\ ee \in Nat /\ yy \in Nat /\ uu \in Int
         /\ ll \in Int /\ cc \in Nat /\ pp \in Nat /\ qq \in Nat
    BY <1>1, <1>2, <1>3, <1>4, <1>5, <1>8, <1>10
  <1>13. Off(aa, gg, 3 * gg)
    BY <1>3
  <1>14. Off(ee, aa + rr, aa + rr)
    <2>1. a + j \in Int /\ W * E = ee /\ W * (a + j) = aa + rr
      BY <1>1, <1>3, <1>4, <1>5
    <2>2. Off(W * E, W * (a + j), W * (a + j))
      BY <1>1, <1>5, <2>1, OffScale
    <2> QED
      BY <2>1, <2>2
  <1>15. Off(uu, ee + yy, ee + yy)
    <2>1. E + y \in Int /\ W * u = uu /\ W * (E + y) = ee + yy
      BY <1>1, <1>5, <1>8
    <2>2. Off(W * u, W * (E + y), W * (E + y))
      BY <1>1, <1>8, <2>1, OffScale
    <2> QED
      BY <2>1, <2>2
  <1>16. Off(pp, qq, qq) /\ Off(ll, cc + pp, cc + pp) /\ 512 * qq <= cc
    <2>1. p \in Int /\ q \in Int /\ L \in Int /\ C + p \in Int
      BY <1>1, <1>10
    <2>2. Off(W * p, W * q, W * q)
      BY <1>1, <1>10, <2>1, OffScale, Zenon
    <2>3. Off(W * L, W * (C + p), W * (C + p))
      BY <1>1, <1>10, <2>1, OffScale, Zenon
    <2>4. W * (512 * q) <= W * C
      BY <1>1, <1>10, Monotone
    <2>5. /\ W * p = pp /\ W * q = qq /\ W * L = ll
          /\ W * (C + p) = cc + pp /\ W * (512 * q) = 512 * qq /\ W * C = cc
      BY <1>1, <1>10
    <2> HIDE DEF pp, qq, ll, cc
    <2> QED
      BY <2>2, <2>3, <2>4, <2>5
  <1>17. u <= L <=> uu <= ll
    <2>1. u <= L => W * u <= W * L
      BY <1>1, <1>8, <1>10, Monotone
    <2>2. u >= L + 1 => W * (u - L) >= W * 1
      BY <1>1, <1>8, <1>10, Monotone
    <2>3. W * u = uu /\ W * L = ll /\ W * (u - L) = uu - ll
      BY <1>1, <1>8, <1>10
    <2> HIDE DEF W
    <2> QED
      BY <1>1, <1>8, <1>10, <1>12, <2>1, <2>2, <2>3
  <1>18. /\ uu <= ll => 2 * (rr + yy) <= 3 * cc
         /\ 10 * cc <= H * qq /\ gg + rr + yy <= cc => uu <= ll
         /\ 10 * cc <= H * qq /\ uu <= ll => cc - gg - rr - yy + 2 * qq >= 0
    <2> HIDE DEF aa, gg, rr, ee, yy, uu, ll, cc, pp, qq
    <2> QED
      BY <1>12, <1>13, <1>14, <1>15, <1>16, SlideVerdict
  <1> DEFINE x == (config.capacity - h) * W - v * k
             room == x - n * W
  <1>19. x \in Int /\ room \in Int /\ room * S = cc - gg - rr - yy
    <2>1. x \in Int /\ n * W \in Int
      BY <1>1, <1>2
    <2>2. room * S = cc - gg - rr - yy
      BY <1>1, <1>2 DEF j
    <2> QED
      BY <2>1, <2>2
  <1>20. (x >= n * W <=> room >= 0) /\ (room >= 0 => room * S >= 0)
    <2>1. x >= n * W <=> room >= 0
      <3>1. n * W \in Int /\ x \in Int
        BY <1>1, <1>19
      <3> HIDE DEF x
      <3> QED
        BY <3>1
    <2>2. room >= 0 => room * S >= 0
      <3> HIDE DEF room
      <3> QED
        BY <1>1, <1>19
    <2> QED
      BY <2>1, <2>2
  <1>21. ok => 2 * (h + n) <= 3 * config.capacity
    <2> DEFINE K == S * W
               b == 2 * (h + n)
               f == 3 * config.capacity
    <2>1. K \in Nat /\ K >= 1 /\ b \in Int /\ f \in Int
      <3>1. S * W >= S * 1
        BY <1>1, Monotone
      <3> QED
        BY <1>1, <1>2, <3>1
    <2>2. K * b = 2 * (rr + yy) /\ K * f = 3 * cc
      BY <1>1, <1>2 DEF j
    <2>3. ok => K * b <= K * f
      BY <1>11, <1>17, <1>18, <2>2
    <2> HIDE DEF K, b, f
    <2>4. b >= f + 1 => K * (b - f) >= K * 1
      BY <2>1, Monotone
    <2>5. K * (b - f) = K * b - K * f /\ K * b \in Int /\ K * f \in Int
      BY <2>1
    <2>6. ok => b <= f
      BY <2>1, <2>3, <2>4, <2>5
    <2> QED
      BY <2>6 DEF b, f
  <1>22. ASSUME 10 * cc <= H * qq
         PROVE  Faithful(Verdict(ok, x, W, n, q))
    <2>1. 2 * q * W = 2 * qq
      BY <1>1, <1>10
    <2>2. x >= n * W => ok
      <3>1. x >= n * W => cc - gg - rr - yy >= 0
        BY <1>19, <1>20
      <3> HIDE DEF cc, gg, rr, yy, x
      <3>2. x >= n * W => gg + rr + yy <= cc
        BY <1>12, <3>1
      <3> QED
        BY <1>11, <1>17, <1>18, <1>22, <3>2
    <2>3. ok => room * S + 2 * q * W >= 0
      BY <1>11, <1>17, <1>18, <1>19, <1>22, <2>1
    <2> QED
      BY <2>2, <2>3 DEF Faithful, Verdict
  <1> QED
    BY <1>9, <1>21, <1>22 DEF ok, x, h, v, k

--------------------------------------------------------------------------------
(* The inductive invariant.                                                *)
(* The drift of k calls, in quanta times parts                             *)
Drifted(k) == 10 * k * (Capacity * Parts)

(* A token level; not a number once an infinite rate has met no time.      *)
Sound(t) == (config.rate = Inf /\ t = NaN) \/ IsTokens(t)

(* A level t is where exact books e put it, but for the drift of k calls.  *)
Kept(t, e, k) == Off(t * Parts, e * Scale, Drifted(k))

DInv ==
    /\ config \in Configs /\ calls \in 0 .. MaxCalls
    /\ exact \in Int /\ freeExact \in Int /\ covered \in BOOLEAN
    /\ verdicts \subseteq [said : BOOLEAN, due : BOOLEAN, lenient : BOOLEAN]
    /\ free = [tokens |-> free.tokens, age |-> free.age]
    /\ free.age \in Nat /\ free.age <= calls * MaxGap
    /\ window = [into |-> window.into, prev |-> window.prev, curr |-> window.curr]
    /\ IsWindow(window) /\ IsLevel(level)
    /\ Sound(tokens) /\ Sound(free.tokens)
    /\ config.kind = "spend" /\ config.rate # Inf =>
         Kept(tokens, exact, calls) /\ Kept(free.tokens, freeExact, calls)
    /\ config.kind = "fill" => exact \in Nat /\ Kept(level, exact, calls)
    /\ SpendIsExact /\ FillIsExact

LEMMA DriftIs ==
    ASSUME config \in Configs, NEW k \in Nat
    PROVE  /\ Drifted(k) \in Nat
           /\ Drifted(k + 1) = Drifted(k) + 10 * (Capacity * Parts)
           /\ Capacity * Parts \in Nat
           /\ Drifted(0) = 0
  <1> DEFINE c == Capacity * Parts
  <1>1. c \in Nat
    BY CapacityIs, Sizes
  <1> HIDE DEF c
  <1>2. /\ 10 * k * c \in Nat /\ 10 * (k + 1) * c = 10 * k * c + 10 * c
        /\ 10 * 0 * c = 0
    BY <1>1
  <1> QED
    BY <1>1, <1>2 DEF c, Drifted

LEMMA KeptLonger ==
    ASSUME config \in Configs, NEW k \in Nat, NEW t \in Int, NEW e \in Int, Kept(t, e, k)
    PROVE  Kept(t, e, k + 1)
  <1> DEFINE a == t * Parts
             b == e * Scale
  <1>1. a \in Int /\ b \in Int
    BY Sizes
  <1>2. Drifted(k) \in Int /\ Drifted(k + 1) \in Int /\ Drifted(k) <= Drifted(k + 1)
    BY DriftIs
  <1>3. Off(a, b, Drifted(k))
    BY DEF Kept
  <1> HIDE DEF a, b
  <1>4. Off(a, b, Drifted(k + 1))
    BY <1>1, <1>2, <1>3, OffWeaken
  <1> QED
    BY <1>4 DEF Kept, a, b

(* A slack that covers a drift is worth its roundings.                     *)
LEMMA CoveredIs ==
    ASSUME config \in Configs, NEW drift \in Nat, NEW n \in Nat, drift <= n * Reach, NEW den \in Nat
    PROVE  drift * Scale * den <= H * (n * EpsilonRel * den)
  <1> DEFINE f == EpsilonRel * H
  <1>1. EpsilonRel \in Nat /\ Scale \in Nat /\ Scale >= 1 /\ H \in Nat
    BY Configured, Sizes
  <1>2. f \in Nat
    BY <1>1
  <1>3. Reach = f \div Scale
    BY DEF Reach, H
  <1> HIDE DEF f
  <1>4. Reach \in Nat /\ Reach * Scale <= f
    <2> DEFINE q == f \div Scale
               m == f % Scale
    <2>1. q \in Nat /\ m \in Nat /\ f = q * Scale + m
      BY <1>1, <1>2, Division
    <2> HIDE DEF q, m
    <2>2. q * Scale \in Nat
      BY <1>1, <2>1
    <2> QED
      BY <1>3, <2>1, <2>2 DEF q
  <1>5. (Scale * den) * drift <= (Scale * den) * (n * Reach)
    BY <1>1, <1>4, Monotone
  <1>6. (n * den) * (Reach * Scale) <= (n * den) * f
    BY <1>1, <1>2, <1>4, Monotone
  <1>7. /\ (Scale * den) * drift = drift * Scale * den
        /\ (Scale * den) * (n * Reach) = (n * den) * (Reach * Scale)
        /\ (n * den) * f = H * (n * EpsilonRel * den)
    BY <1>1, <1>4 DEF f
  <1> DEFINE a == drift * Scale * den
             b == (n * den) * (Reach * Scale)
             c == H * (n * EpsilonRel * den)
  <1>8. a \in Int /\ b \in Int /\ c \in Int
    BY <1>1, <1>4
  <1>9. a <= b /\ b <= c
    BY <1>5, <1>6, <1>7
  <1> HIDE DEF a, b, c
  <1>10. a <= c
    BY <1>8, <1>9
  <1> QED
    BY <1>10 DEF a, c

LEMMA VerdictType ==
    ASSUME NEW said \in BOOLEAN, NEW credit, NEW den, NEW n, NEW slack
    PROVE  Verdict(said, credit, den, n, slack) \in [said : BOOLEAN, due : BOOLEAN, lenient : BOOLEAN]
  <1>1. (credit >= n * den) \in BOOLEAN /\ ((credit - n * den) * Scale + 2 * slack * den >= 0) \in BOOLEAN
    OBVIOUS
  <1> QED
    BY <1>1 DEF Verdict

(* One call on a token bucket whose level t is k calls old.                *)
LEMMA SpendOnce ==
    ASSUME config \in Configs, config.kind = "spend", NEW n \in config.batches, NEW d \in 0 .. Ticks,
           NEW k \in Nat, NEW t, Sound(t), NEW e \in Int, config.rate # Inf => Kept(t, e, k)
    PROVE  /\ Sound(Refilled(t, d)) /\ ExactCredit(e, d) \in Int
           /\ Affords(Refilled(t, d), n) => IsTokens(Spent(Refilled(t, d), n))
           /\ config.rate # Inf =>
                /\ Affords(Refilled(t, d), n) =>
                     Kept(Spent(Refilled(t, d), n), ExactCredit(e, d) - n * Parts, k + 1)
                /\ Kept(Refilled(t, d), ExactCredit(e, d), k + 1)
                /\ \A m \in Nat :
                     n <= m /\ config.capacity <= m /\ Drift(k + 1, m) <= n * Reach
                       => Faithful(Verdict(Affords(Refilled(t, d), n), ExactCredit(e, d),
                                           Parts, n, n * EpsilonRel))
  <1> DEFINE T == Parts
             S == Scale
             C == Capacity
             r == Refilled(t, d)
             c == ExactCredit(e, d)
             x == Accrued(d)
  <1>1. /\ C \in Nat /\ Inf \notin Int /\ NaN \notin Int /\ Inf # NaN /\ T \in Nat /\ S \in Nat
        /\ n \in Nat /\ d \in Nat /\ Ticks \in Nat
        /\ config.capacity \in Nat /\ C = config.capacity * S /\ EpsilonRel \in Nat
        /\ config.rate \in Nat \/ config.rate = Inf
    BY CapacityIs, Sizes, Batch, Configured
  <1>2. CASE config.rate = Inf
    <2>1. c \in Int
      BY <1>1, <1>2 DEF ExactCredit
    <2>2. x = NaN \/ x = Inf
      BY <1>2 DEF Accrued, Times
    <2>3. IsTokens(C)
      BY CapacityIs DEF IsTokens
    <2>4. Sound(r)
      <3>1. t = NaN \/ (t \in Int /\ t # NaN)
        BY <1>1 DEF Sound, IsTokens
      <3>2. CASE t = NaN \/ x = NaN
        <4>1. Plus(t, x) = NaN
          BY <3>2 DEF Plus
        <4>2. r = NaN
          BY <4>1 DEF Refilled, Least
        <4> QED
          BY <1>2, <4>2 DEF Sound
      <3>3. CASE ~(t = NaN \/ x = NaN)
        <4>1. x = Inf /\ NaN \notin {t, x}
          BY <2>2, <3>3
        <4>2. Plus(t, x) = Inf
          BY <4>1 DEF Plus
        <4>3. C # NaN /\ C # Inf
          BY <1>1
        <4>4. ~AtLeast(C, Inf) /\ NaN \notin {C, Inf}
          BY <1>1, <4>3 DEF AtLeast
        <4>5. r = C
          BY <4>2, <4>4 DEF Refilled, Least
        <4> QED
          BY <2>3, <4>5 DEF Sound
      <3> QED
        BY <3>2, <3>3
    <2>5. Affords(r, n) => IsTokens(Spent(r, n))
      <3>1. CASE r = NaN
        <4>1. Plus(r, AdmitEpsilon(n)) = NaN
          BY <3>1 DEF Plus
        <4>2. ~Affords(r, n)
          BY <4>1 DEF Affords, AtLeast
        <4> QED
          BY <4>2
      <3>2. CASE IsTokens(r)
        BY <3>2, SpentIs
      <3> QED
        BY <2>4, <3>1, <3>2 DEF Sound
    <2> QED
      BY <1>2, <2>1, <2>4, <2>5
  <1>3. CASE config.rate # Inf
    <2> DEFINE D == Drifted(k)
               cc == C * T
    <2>1. D \in Nat /\ Drifted(k + 1) = D + 10 * cc /\ cc \in Nat
      BY DriftIs
    <2>2. IsTokens(t) /\ Off(t * T, e * S, D) /\ config.rate \in Nat
      BY <1>1, <1>3 DEF Sound, Kept
    <2>3. IsTokens(r) /\ c \in Int /\ Off(r * T, c * S, D + 7 * cc)
      BY <2>1, <2>2, RefillDrift
    <2>4. Affords(r, n) => IsTokens(Spent(r, n))
      BY <2>3, SpentIs
    <2>5. /\ Affords(r, n) => Off(Spent(r, n) * T, (c - n * T) * S, D + 10 * cc)
          /\ \A m \in Nat :
                n <= m /\ config.capacity <= m
                  /\ D + 10 * (m * S * T) <= H * (n * EpsilonRel * T)
                => Faithful(Verdict(Affords(r, n), c, T, n, n * EpsilonRel))
      BY <2>1, <2>3, SpendDrift
    <2>6. Affords(r, n) => Kept(Spent(r, n), c - n * T, k + 1)
      BY <2>1, <2>5 DEF Kept
    <2>7. Kept(r, c, k + 1)
      <3> DEFINE a == r * T
                 b == c * S
      <3>1. a \in Int /\ b \in Int
        BY <1>1, <2>3 DEF IsTokens
      <3>2. Off(a, b, D + 7 * cc)
        BY <2>3
      <3>3. D + 7 * cc \in Int /\ D + 10 * cc \in Int /\ D + 7 * cc <= D + 10 * cc
        <4> HIDE DEF D, cc
        <4> QED
          BY <2>1
      <3> HIDE DEF a, b
      <3>4. Off(a, b, D + 10 * cc)
        BY <3>1, <3>2, <3>3, OffWeaken
      <3> QED
        BY <2>1, <3>4 DEF Kept, a, b
    <2>8. ASSUME NEW m \in Nat, n <= m, config.capacity <= m, Drift(k + 1, m) <= n * Reach
          PROVE  Faithful(Verdict(Affords(r, n), c, T, n, n * EpsilonRel))
      <3> DEFINE w == 10 * (k + 1) * m
                 mm == m * S * T
      <3>1. w \in Nat /\ w <= n * Reach
        BY <2>8 DEF Drift
      <3>2. w * S * T <= H * (n * EpsilonRel * T)
        <4> HIDE DEF w
        <4> QED
          BY <1>1, <3>1, CoveredIs
      <3>3. w * S * T = 10 * k * mm + 10 * mm /\ mm \in Nat
        BY <1>1
      <3>4. cc <= mm
        <4>1. (S * T) * config.capacity <= (S * T) * m
          BY <1>1, <2>8, Monotone
        <4> QED
          BY <1>1, <4>1
      <3>5. D <= 10 * k * mm
        <4> HIDE DEF mm, cc
        <4>1. (10 * k) * cc <= (10 * k) * mm
          BY <2>1, <3>3, <3>4, Monotone
        <4> QED
          BY <4>1 DEF Drifted, cc
      <3> DEFINE g == 10 * k * mm
                 h == H * (n * EpsilonRel * T)
      <3>6. g \in Nat /\ h \in Nat /\ g + 10 * mm <= h /\ D <= g
        <4>1. g \in Nat
          <5> HIDE DEF mm
          <5> QED
            BY <3>3
        <4>2. h \in Nat
          BY <1>1, Sizes
        <4> QED
          BY <3>2, <3>3, <3>5, <4>1, <4>2
      <3> HIDE DEF g, h, mm, D
      <3>7. D + 10 * mm <= h
        BY <2>1, <3>3, <3>6
      <3> QED
        BY <2>5, <2>8, <3>7 DEF mm, h
    <2> QED
      BY <2>3, <2>4, <2>6, <2>7, <2>8 DEF Sound
  <1> QED
    BY <1>2, <1>3

LEMMA InitDInv == Init => DInv
  <1> SUFFICES ASSUME Init PROVE DInv
    OBVIOUS
  <1> DEFINE C == Capacity
             T == Parts
  <1>1. /\ config \in Configs /\ calls = 0 /\ tokens = C
        /\ free = [tokens |-> C, age |-> 0] /\ level = 0
        /\ window = [into |-> 0, prev |-> 0, curr |-> 0]
        /\ exact = (IF config.kind = "spend" THEN config.capacity * T ELSE 0)
        /\ freeExact = exact /\ verdicts = {} /\ covered = FALSE
    BY DEF Init
  <1>2. /\ C \in Nat /\ C = config.capacity * Scale /\ config.capacity \in Nat /\ T \in Nat
        /\ Scale \in Nat /\ Window \in Nat /\ Window >= 1 /\ MaxCalls \in Nat /\ MaxGap \in Nat
        /\ Limit \in Nat /\ 4 * C < Limit /\ Drifted(0) = 0
    BY <1>1, CapacityIs, Configured, Sizes, Bounds, DriftIs
  <1>3. IsTokens(C)
    BY <1>1, CapacityIs DEF IsTokens
  <1>4. IsLevel(0)
    <2>1. InRange(0)
      BY <1>2, Bounds
    <2>2. Nearest(0, 1) = 0
      BY <2>1, RoundingKeepsSign
    <2> QED
      BY <1>2, <2>2 DEF IsLevel, Representable
  <1>5. IsWindow(window)
    BY <1>1, <1>2 DEF IsWindow
  <1>6. Kept(C, config.capacity * T, 0)
    <2> DEFINE a == C * T
    <2>1. a \in Int /\ (config.capacity * T) * Scale = a
      BY <1>2
    <2>2. Off(a, a, 0)
      BY <2>1, OffSelf
    <2> QED
      BY <1>2, <2>1, <2>2 DEF Kept
  <1>7. Kept(0, 0, 0)
    <2>1. 0 * T = 0 /\ 0 * Scale = 0
      BY <1>2
    <2>2. Off(0, 0, 0)
      BY OffSelf
    <2> QED
      BY <1>2, <2>1, <2>2 DEF Kept
  <1>8. exact \in Int /\ freeExact \in Int
    BY <1>1, <1>2
  <1>9. free = [tokens |-> free.tokens, age |-> free.age] /\ free.tokens = C /\ free.age = 0
    BY <1>1
  <1>10. window = [into |-> window.into, prev |-> window.prev, curr |-> window.curr]
    BY <1>1
  <1>11. config.kind = "spend" => Kept(tokens, exact, calls) /\ Kept(free.tokens, freeExact, calls)
    BY <1>1, <1>6, <1>9
  <1>12. config.kind = "fill" => exact \in Nat /\ Kept(level, exact, calls)
    BY <1>1, <1>7
  <1>13. SpendIsExact /\ FillIsExact
    BY <1>1 DEF SpendIsExact, FillIsExact
  <1>14. Sound(tokens) /\ Sound(free.tokens)
    BY <1>1, <1>3, <1>9 DEF Sound
  <1>15. calls \in 0 .. MaxCalls /\ free.age \in Nat /\ free.age <= calls * MaxGap
    BY <1>1, <1>2, <1>9
  <1> HIDE DEF C, T
  <1> QED
    BY <1>1, <1>4, <1>5, <1>8, <1>9, <1>10, <1>11, <1>12, <1>13, <1>14, <1>15 DEF DInv

(* The ticks of a call lie within a run, and so does the age of a snapshot.*)
LEMMA WithinRun ==
    ASSUME DInv, calls < MaxCalls, NEW d \in 0 .. MaxGap
    PROVE  /\ d \in 0 .. Ticks /\ free.age + d \in 0 .. Ticks
           /\ free.age + d \in Nat /\ free.age + d <= (calls + 1) * MaxGap
           /\ calls \in Nat /\ calls + 1 \in 0 .. MaxCalls
           /\ 0 <= (calls + 1) * MaxGap
  <1>1. /\ calls \in Nat /\ MaxCalls \in Nat /\ MaxGap \in Nat /\ free.age \in Nat
        /\ free.age <= calls * MaxGap /\ d \in Nat /\ d <= MaxGap /\ calls + 1 <= MaxCalls
    BY Configured DEF DInv
  <1>2. (calls + 1) * MaxGap = calls * MaxGap + MaxGap /\ calls * MaxGap \in Nat
    BY <1>1
  <1>3. (calls + 1) * MaxGap <= Ticks /\ Ticks \in Nat
    <2>1. MaxGap * (calls + 1) <= MaxGap * MaxCalls
      BY <1>1, Monotone
    <2>2. MaxGap * (calls + 1) = (calls + 1) * MaxGap /\ MaxGap * MaxCalls = Ticks /\ Ticks \in Nat
      BY <1>1 DEF Ticks
    <2> QED
      BY <2>1, <2>2
  <1> DEFINE a == calls * MaxGap
             b == (calls + 1) * MaxGap
  <1>4. a \in Nat /\ b = a + MaxGap /\ b <= Ticks /\ free.age <= a
    BY <1>1, <1>2, <1>3
  <1> HIDE DEF a, b
  <1>5. free.age + d \in Nat /\ free.age + d <= b /\ free.age + d <= Ticks /\ d <= Ticks /\ 0 <= b
    BY <1>1, <1>3, <1>4
  <1>6. d \in 0 .. Ticks /\ free.age + d \in 0 .. Ticks
    BY <1>1, <1>3, <1>5
  <1> QED
    BY <1>1, <1>5, <1>6 DEF b

LEMMA OlderStill ==
    ASSUME NEW g \in Nat, NEW k \in Nat, MaxGap \in Nat, g <= k * MaxGap
    PROVE  g <= (k + 1) * MaxGap
  <1> DEFINE x == k * MaxGap
  <1>1. x \in Nat /\ (k + 1) * MaxGap = x + MaxGap /\ g <= x
    OBVIOUS
  <1> HIDE DEF x
  <1> QED
    BY <1>1

LEMMA SpendDInv ==
    ASSUME DInv, calls < MaxCalls, NEW d \in 0 .. MaxGap, NEW n \in config.batches, Spend(d, n)
    PROVE  DInv'
  <1> DEFINE T == Parts
             a == free.age + d
             t == Refilled(tokens, d)
             f == Refilled(free.tokens, a)
             c == ExactCredit(exact, d)
             e == ExactCredit(freeExact, a)
             cost == n * T
             most == IF n > config.capacity THEN n ELSE config.capacity
             vt == Verdict(Affords(t, n), c, T, n, n * EpsilonRel)
             vf == Verdict(Affords(f, n), e, T, n, n * EpsilonRel)
  <1>1. /\ config \in Configs /\ exact \in Int /\ freeExact \in Int
        /\ Sound(tokens) /\ Sound(free.tokens) /\ IsLevel(level) /\ IsWindow(window)
        /\ free = [tokens |-> free.tokens, age |-> free.age]
        /\ window = [into |-> window.into, prev |-> window.prev, curr |-> window.curr]
        /\ config.kind = "spend" /\ config.rate # Inf =>
             Kept(tokens, exact, calls) /\ Kept(free.tokens, freeExact, calls)
    BY DEF DInv
  <1>2. /\ config.kind = "spend"
        /\ tokens' = (IF Affords(t, n) THEN Spent(t, n) ELSE t)
        /\ exact' = (IF Affords(t, n) THEN c - cost ELSE c)
        /\ free' = (IF Affords(f, n) THEN [tokens |-> Spent(f, n), age |-> 0]
                                     ELSE [free EXCEPT !.age = @ + d])
        /\ freeExact' = (IF Affords(f, n) THEN e - cost ELSE freeExact)
        /\ calls' = calls + 1 /\ verdicts' = {vt, vf}
        /\ covered' = (Drift(calls + 1, most) <= n * Reach)
        /\ config' = config /\ level' = level /\ window' = window
    BY DEF Spend, Reply
  <1>3. /\ d \in 0 .. Ticks /\ a \in 0 .. Ticks /\ a \in Nat /\ a <= (calls + 1) * MaxGap
        /\ calls \in Nat /\ calls + 1 \in 0 .. MaxCalls /\ 0 <= (calls + 1) * MaxGap
    BY WithinRun
  <1> HIDE DEF a
  <1>4. /\ n \in Nat /\ T \in Nat /\ config.capacity \in Nat /\ cost \in Int
        /\ most \in Nat /\ n <= most /\ config.capacity <= most
    <2>1. n \in Nat /\ T \in Nat /\ config.capacity \in Nat
      BY <1>1, Batch, Configured, Sizes
    <2> QED
      BY <2>1
  <1> DEFINE Exactly(v) == config.rate # Inf /\ Drift(calls + 1, most) <= n * Reach => Faithful(v)
  <1> HIDE DEF most, cost
  <1>5. /\ Sound(t) /\ c \in Int
        /\ Affords(t, n) => IsTokens(Spent(t, n))
        /\ config.rate # Inf =>
             /\ Affords(t, n) => Kept(Spent(t, n), c - cost, calls + 1)
             /\ Kept(t, c, calls + 1)
        /\ Exactly(vt)
    BY <1>1, <1>2, <1>3, <1>4, SpendOnce DEF cost
  <1>6. /\ Sound(f) /\ e \in Int
        /\ Affords(f, n) => IsTokens(Spent(f, n))
        /\ config.rate # Inf => (Affords(f, n) => Kept(Spent(f, n), e - cost, calls + 1))
        /\ Exactly(vf)
    BY <1>1, <1>2, <1>3, <1>4, SpendOnce DEF cost
  <1>7. {vt, vf} \subseteq [said : BOOLEAN, due : BOOLEAN, lenient : BOOLEAN]
    <2>1. Affords(t, n) \in BOOLEAN /\ Affords(f, n) \in BOOLEAN
      BY DEF Affords, AtLeast
    <2> HIDE DEF t, f, c, e
    <2>2. vt \in [said : BOOLEAN, due : BOOLEAN, lenient : BOOLEAN]
      BY <2>1, VerdictType, Zenon
    <2>3. vf \in [said : BOOLEAN, due : BOOLEAN, lenient : BOOLEAN]
      BY <2>1, VerdictType, Zenon
    <2> QED
      BY <2>2, <2>3
  <1> HIDE DEF t, f, c, e, vt, vf
  <1>8. exact' \in Int /\ freeExact' \in Int
    BY <1>1, <1>2, <1>4, <1>5, <1>6
  <1>9. Sound(tokens')
    BY <1>2, <1>5 DEF Sound
  <1>10. config.rate # Inf => Kept(tokens', exact', calls + 1)
    BY <1>2, <1>5
  <1>11. /\ free' = [tokens |-> free'.tokens, age |-> free'.age]
         /\ free'.age \in Nat /\ free'.age <= (calls + 1) * MaxGap /\ Sound(free'.tokens)
         /\ config.rate # Inf => Kept(free'.tokens, freeExact', calls + 1)
    <2>1. CASE Affords(f, n)
      <3>1. /\ free' = [tokens |-> Spent(f, n), age |-> 0] /\ freeExact' = e - cost
        BY <1>2, <2>1
      <3>2. /\ free' = [tokens |-> free'.tokens, age |-> free'.age]
            /\ free'.tokens = Spent(f, n) /\ free'.age = 0
        BY <3>1
      <3> QED
        BY <1>3, <1>6, <2>1, <3>1, <3>2 DEF Sound
    <2>2. CASE ~Affords(f, n)
      <3>1. /\ free' = [free EXCEPT !.age = @ + d] /\ freeExact' = freeExact
        BY <1>2, <2>2
      <3>2. /\ free' = [tokens |-> free'.tokens, age |-> free'.age]
            /\ free'.tokens = free.tokens /\ free'.age = a
        BY <1>1, <3>1 DEF a
      <3>3. config.rate # Inf => Kept(free.tokens, freeExact, calls + 1)
        <4>1. config.rate # Inf => free.tokens \in Int
          BY <1>1 DEF Sound, IsTokens
        <4> QED
          BY <1>1, <1>2, <1>3, <4>1, KeptLonger
      <3> QED
        BY <1>1, <1>3, <3>1, <3>2, <3>3
    <2> QED
      BY <2>1, <2>2
  <1>12. IsLevel(level)' /\ IsWindow(window)'
    BY <1>1, <1>2 DEF IsLevel, IsWindow, Capacity
  <1>13. Sound(tokens)' /\ Sound(free.tokens)'
    BY <1>2, <1>9, <1>11 DEF Sound, IsTokens, Capacity
  <1>14. (config.kind = "spend" /\ config.rate # Inf =>
            Kept(tokens, exact, calls) /\ Kept(free.tokens, freeExact, calls))'
    BY <1>2, <1>10, <1>11 DEF Kept, Drifted, Capacity
  <1>15. (config.kind = "fill" => exact \in Nat /\ Kept(level, exact, calls))' /\ FillIsExact'
    BY <1>2 DEF FillIsExact
  <1>16. SpendIsExact'
    BY <1>2, <1>5, <1>6 DEF SpendIsExact
  <1>17. covered' \in BOOLEAN
    BY <1>2
  <1>18. verdicts' \subseteq [said : BOOLEAN, due : BOOLEAN, lenient : BOOLEAN]
    BY <1>2, <1>7
  <1>19. (window = [into |-> window.into, prev |-> window.prev, curr |-> window.curr])'
    BY <1>1, <1>2
  <1>20. config' \in Configs /\ calls' \in 0 .. MaxCalls
    BY <1>1, <1>2, <1>3
  <1>21. free'.age <= calls' * MaxGap
    BY <1>2, <1>11
  <1> QED
    BY <1>8, <1>11, <1>12, <1>13, <1>14, <1>15, <1>16, <1>17, <1>18, <1>19, <1>20, <1>21
       DEF DInv

LEMMA FillDInv ==
    ASSUME DInv, calls < MaxCalls, NEW d \in 0 .. MaxGap, NEW n \in config.batches, Fill(d, n)
    PROVE  DInv'
  <1> DEFINE T == Parts
             l == Leaked(d)
             u == Plus(l, Float(n))
             e == ExactLevel(d)
             cap == config.capacity
             slack == cap * EpsilonRel
             v == Verdict(Fits(u), cap * T - e, T, n, slack)
             D == Drifted(calls)
             cc == Capacity * T
  <1>1. /\ config \in Configs /\ freeExact \in Int /\ exact \in Int
        /\ Sound(tokens) /\ Sound(free.tokens) /\ IsLevel(level) /\ IsWindow(window)
        /\ free = [tokens |-> free.tokens, age |-> free.age]
        /\ free.age \in Nat /\ free.age <= calls * MaxGap
        /\ window = [into |-> window.into, prev |-> window.prev, curr |-> window.curr]
        /\ config.kind = "fill" => exact \in Nat /\ Kept(level, exact, calls)
    BY DEF DInv
  <1>2. /\ config.kind = "fill"
        /\ level' = (IF Fits(u) THEN u ELSE l)
        /\ exact' = (IF Fits(u) THEN e + n * T ELSE e)
        /\ calls' = calls + 1 /\ verdicts' = {v}
        /\ covered' = (Drift(calls + 1, cap) <= cap * Reach)
        /\ config' = config /\ tokens' = tokens /\ free' = free /\ window' = window
        /\ freeExact' = freeExact
    BY DEF Fill, Reply
  <1>3. /\ d \in 0 .. Ticks /\ calls \in Nat /\ calls + 1 \in 0 .. MaxCalls
    BY WithinRun
  <1>4. /\ n \in Nat /\ T \in Nat /\ cap \in Nat /\ Scale \in Nat /\ EpsilonRel \in Nat
        /\ MaxGap \in Nat /\ Capacity = cap * Scale /\ H \in Nat
    BY <1>1, Batch, Configured, Sizes, CapacityIs
  <1>5. D \in Nat /\ Drifted(calls + 1) = D + 10 * cc /\ cc \in Nat
    BY <1>1, <1>3, DriftIs
  <1>6. IsLevel(l) /\ e \in Nat /\ Off(l * T, e * Scale, D + 7 * cc)
    <2>1. exact \in Nat /\ Off(level * T, exact * Scale, D)
      BY <1>1, <1>2 DEF Kept
    <2> HIDE DEF D
    <2> QED
      BY <1>1, <1>3, <1>5, <2>1, LeakDrift
  <1>7. /\ Fits(u) => IsLevel(u) /\ Off(u * T, (e + n * T) * Scale, D + 10 * cc)
        /\ D + 10 * cc <= H * (slack * T) => Faithful(v)
    <2> HIDE DEF D, l, e
    <2> QED
      BY <1>1, <1>5, <1>6, FillDrift
  <1>8. Off(l * T, e * Scale, D + 10 * cc)
    <2> DEFINE x == l * T
               y == e * Scale
    <2>1. x \in Int /\ y \in Int
      BY <1>4, <1>6 DEF IsLevel
    <2>2. Off(x, y, D + 7 * cc)
      BY <1>6
    <2>3. D + 7 * cc \in Int /\ D + 10 * cc \in Int /\ D + 7 * cc <= D + 10 * cc
      <3> HIDE DEF D, cc
      <3> QED
        BY <1>5
    <2> HIDE DEF x, y, D, cc
    <2>4. Off(x, y, D + 10 * cc)
      BY <2>1, <2>2, <2>3, OffWeaken
    <2> QED
      BY <2>4 DEF x, y
  <1>9. Drift(calls + 1, cap) <= cap * Reach => Faithful(v)
    <2> SUFFICES ASSUME Drift(calls + 1, cap) <= cap * Reach PROVE Faithful(v)
      OBVIOUS
    <2> DEFINE w == 10 * (calls + 1) * cap
    <2>1. w \in Nat /\ w <= cap * Reach
      BY <1>3, <1>4 DEF Drift
    <2>2. w * Scale * T <= H * (slack * T)
      <3> HIDE DEF w
      <3> QED
        BY <1>1, <1>4, <2>1, CoveredIs
    <2>3. w * Scale * T = Drifted(calls + 1)
      <3>1. (10 * (calls + 1) * cap) * Scale * T = 10 * (calls + 1) * ((cap * Scale) * T)
        BY <1>3, <1>4
      <3> QED
        BY <1>4, <3>1 DEF Drifted
    <2> HIDE DEF w, D, cc, v
    <2> QED
      BY <1>5, <1>7, <2>2, <2>3
  <1>10. IsLevel(level') /\ exact' \in Nat
    <2>1. e + n * T \in Nat
      <3> HIDE DEF e
      <3> QED
        BY <1>4, <1>6
    <2> HIDE DEF e, l, u
    <2> QED
      BY <1>2, <1>6, <1>7, <2>1
  <1>11. Kept(level', exact', calls + 1)
    <2>1. CASE Fits(u)
      <3>1. level' = u /\ exact' = e + n * T
        BY <1>2, <2>1
      <3> HIDE DEF e, l, u, D, cc
      <3> QED
        BY <1>5, <1>7, <2>1, <3>1 DEF Kept
    <2>2. CASE ~Fits(u)
      <3>1. level' = l /\ exact' = e
        BY <1>2, <2>2
      <3> HIDE DEF e, l, u, D, cc
      <3> QED
        BY <1>5, <1>8, <3>1 DEF Kept
    <2> QED
      BY <2>1, <2>2
  <1>12. {v} \subseteq [said : BOOLEAN, due : BOOLEAN, lenient : BOOLEAN]
    <2>1. Fits(u) \in BOOLEAN
      BY DEF Fits, AtLeast
    <2> HIDE DEF u, e, slack
    <2>2. v \in [said : BOOLEAN, due : BOOLEAN, lenient : BOOLEAN]
      BY <2>1, VerdictType, Zenon
    <2> QED
      BY <2>2
  <1> HIDE DEF l, u, e, slack, v, D, cc
  <1>13. IsLevel(level)' /\ IsWindow(window)'
    BY <1>1, <1>2, <1>10 DEF IsLevel, IsWindow, Capacity
  <1>14. Sound(tokens)' /\ Sound(free.tokens)'
    BY <1>1, <1>2 DEF Sound, IsTokens, Capacity
  <1>15. (config.kind = "fill" => exact \in Nat /\ Kept(level, exact, calls))'
    BY <1>2, <1>10, <1>11 DEF Kept, Drifted, Capacity
  <1>16. (config.kind = "spend" /\ config.rate # Inf =>
            Kept(tokens, exact, calls) /\ Kept(free.tokens, freeExact, calls))' /\ SpendIsExact'
    BY <1>2 DEF SpendIsExact
  <1>17. FillIsExact'
    BY <1>2, <1>9 DEF FillIsExact
  <1>18. covered' \in BOOLEAN
    BY <1>2
  <1>19. verdicts' \subseteq [said : BOOLEAN, due : BOOLEAN, lenient : BOOLEAN]
    BY <1>2, <1>12
  <1>20. /\ (free = [tokens |-> free.tokens, age |-> free.age])'
         /\ (window = [into |-> window.into, prev |-> window.prev, curr |-> window.curr])'
    BY <1>1, <1>2
  <1>21. config' \in Configs /\ calls' \in 0 .. MaxCalls /\ freeExact' \in Int /\ exact' \in Int
    BY <1>1, <1>2, <1>3, <1>10
  <1>22. free'.age \in Nat /\ free'.age <= calls' * MaxGap
    BY <1>1, <1>2, <1>3, <1>4, OlderStill
  <1> QED
    BY <1>13, <1>14, <1>15, <1>16, <1>17, <1>18, <1>19, <1>20, <1>21, <1>22 DEF DInv

LEMMA SlideDInv ==
    ASSUME DInv, calls < MaxCalls, NEW d \in 0 .. MaxGap, NEW n \in config.batches, Slide(d, n)
    PROVE  DInv'
  <1> DEFINE w == Rolled(d)
             u == Plus(Estimate(w), Float(n))
             cap == config.capacity
             slack == cap * EpsilonRel
             room == (cap - w.curr) * Window - w.prev * (Window - w.into)
             v == Verdict(Fits(u), room, Window, n, slack)
  <1>1. /\ config \in Configs /\ freeExact \in Int /\ exact \in Int
        /\ Sound(tokens) /\ Sound(free.tokens) /\ IsLevel(level) /\ IsWindow(window)
        /\ free = [tokens |-> free.tokens, age |-> free.age]
        /\ free.age \in Nat /\ free.age <= calls * MaxGap
        /\ window = [into |-> window.into, prev |-> window.prev, curr |-> window.curr]
    BY DEF DInv
  <1>2. /\ config.kind = "slide"
        /\ window' = (IF Fits(u) THEN [w EXCEPT !.curr = @ + n] ELSE w)
        /\ calls' = calls + 1 /\ verdicts' = {v}
        /\ covered' = (Drift(1, cap) <= cap * Reach)
        /\ config' = config /\ tokens' = tokens /\ free' = free /\ level' = level
        /\ exact' = exact /\ freeExact' = freeExact
    BY DEF Slide, Reply
  <1>3. /\ d \in Nat /\ calls \in Nat /\ calls + 1 \in 0 .. MaxCalls
    BY WithinRun
  <1>4. /\ n \in Nat /\ cap \in Nat /\ Scale \in Nat /\ EpsilonRel \in Nat /\ Window \in Nat
        /\ MaxGap \in Nat /\ Capacity = cap * Scale /\ H \in Nat
    BY <1>1, Batch, Configured, Sizes, CapacityIs
  <1>5. /\ IsWindow(w) /\ w = [into |-> w.into, prev |-> w.prev, curr |-> w.curr]
    BY <1>1, <1>3, RolledIs
  <1> HIDE DEF w
  <1>6. /\ Fits(u) => 2 * (w.curr + n) <= 3 * cap
        /\ 10 * (Capacity * Window) <= H * (slack * Window) => Faithful(v)
    BY <1>1, <1>5, SlideDrift
  <1>7. Drift(1, cap) <= cap * Reach => Faithful(v)
    <2> SUFFICES ASSUME Drift(1, cap) <= cap * Reach PROVE Faithful(v)
      OBVIOUS
    <2> DEFINE k == 10 * 1 * cap
    <2>1. k \in Nat /\ k <= cap * Reach
      BY <1>4 DEF Drift
    <2>2. k * Scale * Window <= H * (slack * Window)
      <3> HIDE DEF k
      <3> QED
        BY <1>1, <1>4, <2>1, CoveredIs
    <2>3. k * Scale * Window = 10 * (Capacity * Window)
      <3>1. (10 * 1 * cap) * Scale * Window = 10 * ((cap * Scale) * Window)
        BY <1>4
      <3> QED
        BY <1>4, <3>1
    <2> HIDE DEF k, v
    <2> QED
      BY <1>6, <2>2, <2>3
  <1>8. {v} \subseteq [said : BOOLEAN, due : BOOLEAN, lenient : BOOLEAN]
    <2>1. Fits(u) \in BOOLEAN
      BY DEF Fits, AtLeast
    <2> HIDE DEF u, room, slack
    <2>2. v \in [said : BOOLEAN, due : BOOLEAN, lenient : BOOLEAN]
      BY <2>1, VerdictType, Zenon
    <2> QED
      BY <2>2
  <1> HIDE DEF v
  <1>9. /\ IsWindow(window')
        /\ window' = [into |-> window'.into, prev |-> window'.prev, curr |-> window'.curr]
    <2>1. CASE Fits(u)
      <3>1. window' = [w EXCEPT !.curr = @ + n]
        BY <1>2, <2>1
      <3>2. /\ window' = [into |-> window'.into, prev |-> window'.prev, curr |-> window'.curr]
            /\ window'.into = w.into /\ window'.prev = w.prev /\ window'.curr = w.curr + n
        BY <1>5, <3>1
      <3>3. w.curr + n \in Nat /\ 2 * (w.curr + n) <= 3 * cap
        BY <1>4, <1>5, <1>6, <2>1 DEF IsWindow
      <3> QED
        BY <1>5, <3>2, <3>3 DEF IsWindow
    <2>2. CASE ~Fits(u)
      <3>1. window' = w
        BY <1>2, <2>2
      <3> QED
        BY <1>5, <3>1
    <2> QED
      BY <2>1, <2>2
  <1>10. IsLevel(level)' /\ IsWindow(window)'
    BY <1>1, <1>2, <1>9 DEF IsLevel, IsWindow, Capacity
  <1>11. Sound(tokens)' /\ Sound(free.tokens)'
    BY <1>1, <1>2 DEF Sound, IsTokens, Capacity
  <1>12. /\ (config.kind = "fill" => exact \in Nat /\ Kept(level, exact, calls))'
         /\ (config.kind = "spend" /\ config.rate # Inf =>
               Kept(tokens, exact, calls) /\ Kept(free.tokens, freeExact, calls))'
         /\ SpendIsExact'
    BY <1>2 DEF SpendIsExact
  <1>13. FillIsExact'
    BY <1>2, <1>7 DEF FillIsExact
  <1>14. covered' \in BOOLEAN
    BY <1>2
  <1>15. verdicts' \subseteq [said : BOOLEAN, due : BOOLEAN, lenient : BOOLEAN]
    BY <1>2, <1>8
  <1>16. (free = [tokens |-> free.tokens, age |-> free.age])'
    BY <1>1, <1>2
  <1>17. config' \in Configs /\ calls' \in 0 .. MaxCalls /\ freeExact' \in Int /\ exact' \in Int
    BY <1>1, <1>2, <1>3
  <1>18. free'.age \in Nat /\ free'.age <= calls' * MaxGap
    BY <1>1, <1>2, <1>3, <1>4, OlderStill
  <1> QED
    BY <1>9, <1>10, <1>11, <1>12, <1>13, <1>14, <1>15, <1>16, <1>17, <1>18 DEF DInv

LEMMA NextDInv == DInv /\ [Next]_vars => DInv'
  <1> SUFFICES ASSUME DInv, [Next]_vars PROVE DInv'
    OBVIOUS
  <1>1. CASE Next
    <2>1. PICK d \in 0 .. MaxGap, n \in config.batches : Spend(d, n) \/ Fill(d, n) \/ Slide(d, n)
      BY <1>1 DEF Next
    <2>2. calls < MaxCalls
      BY <1>1 DEF Next
    <2>3. CASE Spend(d, n)
      BY <2>2, <2>3, SpendDInv
    <2>4. CASE Fill(d, n)
      BY <2>2, <2>4, FillDInv
    <2>5. CASE Slide(d, n)
      BY <2>2, <2>5, SlideDInv
    <2> QED
      BY <2>1, <2>3, <2>4, <2>5
  <1>2. CASE UNCHANGED vars
    BY <1>2 DEF vars, DInv, Sound, IsTokens, IsLevel, IsWindow, Kept, Drifted, Capacity,
                SpendIsExact, FillIsExact
  <1> QED
    BY <1>1, <1>2

(* The invariant holds of every run, however long: the float64 state stays *)
(* beside the exact books of what was admitted (tokenbucket.go:70-80,      *)
(* lockfree_tokenbucket.go:119-135, leakybucket.go:87-100).                *)
THEOREM BooksFollow == Spec => []DInv
  <1>1. Init => DInv
    BY InitDInv
  <1>2. DInv /\ [Next]_vars => DInv'
    BY NextDInv
  <1> QED
    BY <1>1, <1>2, PTL DEF Spec

(* Rounding moves a token level, or the level of a leaky bucket, by ten    *)
(* roundings of the capacity a call at most, one part in 2^Precision each: *)
(* nothing but the number of calls adds to the drift, neither the length   *)
(* of the idle times nor the rate (limiter.go:30-54).  Rates are any       *)
(* multiples of 1/RateScale whose product with a tick is not subnormal.    *)
DriftBound ==
    /\ config.kind = "spend" /\ config.rate # Inf =>
         Kept(tokens, exact, calls) /\ Kept(free.tokens, freeExact, calls)
    /\ config.kind = "fill" => Kept(level, exact, calls)

THEOREM DriftBounded == Spec => []DriftBound
  <1>1. DInv => DriftBound
    BY DEF DInv, DriftBound
  <1> QED
    BY <1>1, BooksFollow, PTL

(* A level that is not a number compares with nothing, and so never as     *)
(* above the capacity.                                                     *)
LEMMA DInvTypes == DInv => TypeOK
  <1> SUFFICES ASSUME DInv PROVE TypeOK
    OBVIOUS
  <1>1. /\ config \in Configs /\ Sound(tokens) /\ Sound(free.tokens) /\ IsLevel(level)
        /\ IsWindow(window)
    BY DEF DInv
  <1>2. /\ Capacity \in Nat /\ NaN \notin Int /\ Inf \notin Int /\ Inf # NaN
        /\ Window \in Nat /\ Window >= 1
    BY <1>1, CapacityIs, Sizes, Configured
  <1>3. ASSUME NEW t, Sound(t)
        PROVE  Representable(t) /\ ~AtLeast(t, Capacity + 1)
    <2>1. CASE t = NaN
      BY <1>2, <2>1 DEF Representable, Finite, AtLeast
    <2>2. CASE IsTokens(t)
      <3>1. t \in Int /\ t <= Capacity /\ Representable(t)
        BY <2>2 DEF IsTokens
      <3>2. t # Inf /\ t # NaN /\ Capacity + 1 # Inf /\ Capacity + 1 # NaN /\ ~(t >= Capacity + 1)
        BY <1>2, <3>1
      <3> QED
        BY <3>1, <3>2, Integers DEF AtLeast
    <2> QED
      BY <1>3, <2>1, <2>2 DEF Sound
  <1>4. Representable(level)
    BY <1>1 DEF IsLevel
  <1>5. window.into \in 0..(Window - 1) /\ {window.prev, window.curr} \subseteq Nat
    BY <1>1 DEF IsWindow
  <1> QED
    BY <1>1, <1>3, <1>4, <1>5 DEF DInv, TypeOK

(* The float64 state is well formed whatever rates, positive capacities and*)
(* batches a client picks, within the assumptions on Configs: every        *)
(* level is a float64 value, and no refill lifts a token bucket above its  *)
(* capacity (tokenbucket.go:58-80, lockfree_tokenbucket.go:92-140).        *)
THEOREM TypeCorrect == Spec => []TypeOK
  <1>1. DInv => TypeOK
    BY DInvTypes
  <1> QED
    BY <1>1, BooksFollow, PTL

(* A token bucket and its lock-free twin answer as exact arithmetic does,  *)
(* within one slack and as much again for the drift, for as long as ten    *)
(* roundings a call are worth less than the slack of the batch, at every   *)
(* positive capacity and finite rate that the assumptions admit            *)
(* (limiter.go:43-54).                                                     *)
THEOREM SpendExact == Spec => []SpendIsExact
  <1>1. DInv => SpendIsExact
    BY DEF DInv
  <1> QED
    BY <1>1, BooksFollow, PTL

(* A leaky bucket and a sliding window answer as exact arithmetic does, at *)
(* every positive capacity and every rate that the assumptions admit,      *)
(* negative and infinite ones included (limiter.go:30-45,                  *)
(* leakybucket.go:45-53).                                                  *)
THEOREM FillExact == Spec => []FillIsExact
  <1>1. DInv => FillIsExact
    BY DEF DInv
  <1> QED
    BY <1>1, BooksFollow, PTL
================================================================================
