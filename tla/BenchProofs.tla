------------------------------ MODULE BenchProofs ------------------------------
(***************************************************************************)
(* The bench.  For every number of workers, latencies and calls, the       *)
(* report of a run is exact, its percentiles are right within a factor of  *)
(* two, and a raised flag stops a worker within a call.  For every rate,   *)
(* capacity and word, no constructor panics on what parseConfig lets       *)
(* through, what it refuses had to be refused, and the table that follows  *)
(* is complete or an error.                                                *)
(*                                                                         *)
(* A report adds up, so the first part is about sums over finite sets.     *)
(* SumFunctionOnSet is a recursive function on the parts of the set; what  *)
(* it computes is proved by taking a part that is minimal among those for  *)
(* which the claim fails (WFMin), which is induction without a predicate   *)
(* to instantiate.                                                         *)
(***************************************************************************)
EXTENDS BenchConfig, BenchRunner, FiniteSetTheorems,
        SequenceTheorems, WellFoundedInduction, TLAPS

AnyOf(s) == CHOOSE x \in s : TRUE

(* h adds up f over every part of S.                                       *)
Adds(h, f, S) ==
    h = [s \in SUBSET S |-> IF s = {} THEN 0 ELSE f[AnyOf(s)] + h[s \ {AnyOf(s)}]]

LEMMA SumIs ==
    ASSUME NEW f, NEW S
    PROVE  SumFunctionOnSet(f, S) = (CHOOSE h : Adds(h, f, S))[S]
  BY DEF SumFunctionOnSet, FoldFunctionOnSet, MapThenFoldSet, Adds, AnyOf

(* A set of parts of a finite set has a part that is minimal in it.        *)
LEMMA Minimal ==
    ASSUME NEW S, IsFiniteSet(S), NEW T, T \subseteq SUBSET S, T # {}
    PROVE  \E x \in T : \A y \in T : ~(y \subseteq x /\ y # x)
  <1>1. FiniteSubsetsOf(S) = SUBSET S
    BY FS_FiniteSubsetsOfFinite
  <1>2. IsWellFoundedOn(StrictSubsetOrdering(S), SUBSET S)
    BY <1>1, FS_StrictSubsetOrderingWellFounded
  <1>3. \E x \in T : \A y \in T : ~(<<y, x>> \in StrictSubsetOrdering(S))
    BY <1>2, WFMin
  <1> QED
    BY <1>3 DEF StrictSubsetOrdering

(* Two functions that add up f agree wherever both are defined.            *)
LEMMA AddsAgree ==
    ASSUME NEW f, NEW S, IsFiniteSet(S), NEW T, NEW g, NEW h,
           Adds(g, f, S), Adds(h, f, T)
    PROVE  \A s \in SUBSET (S \cap T) : g[s] = h[s]
  <1> DEFINE Bad == {s \in SUBSET (S \cap T) : g[s] # h[s]}
  <1>1. SUFFICES ASSUME Bad # {} PROVE FALSE
    OBVIOUS
  <1>2. PICK s \in Bad : \A r \in Bad : ~(r \subseteq s /\ r # s)
    <2>1. Bad \subseteq SUBSET S
      OBVIOUS
    <2> HIDE DEF Bad
    <2> QED
      BY <1>1, <2>1, Minimal
  <1>3. s \in SUBSET S /\ s \in SUBSET T /\ g[s] # h[s]
    BY <1>2
  <1>4. /\ g[s] = IF s = {} THEN 0 ELSE f[AnyOf(s)] + g[s \ {AnyOf(s)}]
        /\ h[s] = IF s = {} THEN 0 ELSE f[AnyOf(s)] + h[s \ {AnyOf(s)}]
    BY <1>3 DEF Adds
  <1>5. s # {}
    BY <1>3, <1>4
  <1>6. AnyOf(s) \in s
    BY <1>5 DEF AnyOf
  <1>7. g[s \ {AnyOf(s)}] = h[s \ {AnyOf(s)}]
    BY <1>2, <1>6
  <1> QED
    BY <1>3, <1>4, <1>5, <1>7

LEMMA AddsPart ==
    ASSUME NEW f, NEW S, NEW h, Adds(h, f, S), NEW T \in SUBSET S
    PROVE  \E g : Adds(g, f, T) /\ \A s \in SUBSET T : g[s] = h[s]
  <1> DEFINE g == [s \in SUBSET T |-> h[s]]
  <1>1. ASSUME NEW s \in SUBSET T
        PROVE  g[s] = IF s = {} THEN 0 ELSE f[AnyOf(s)] + g[s \ {AnyOf(s)}]
    BY DEF Adds
  <1>2. Adds(g, f, T)
    BY <1>1 DEF Adds
  <1> QED
    BY <1>2

(* Every finite set can be added up.                                       *)
LEMMA AddsExist ==
    ASSUME NEW f, NEW S, IsFiniteSet(S)
    PROVE  \E h : Adds(h, f, S)
  <1> DEFINE Bad == {s \in SUBSET S : ~\E h : Adds(h, f, s)}
             sum(s) == (CHOOSE h : Adds(h, f, s))[s]
  <1>1. SUFFICES ASSUME Bad # {} PROVE FALSE
    OBVIOUS
  <1>2. PICK T \in Bad : \A r \in Bad : ~(r \subseteq T /\ r # T)
    <2>1. Bad \subseteq SUBSET S
      OBVIOUS
    <2> HIDE DEF Bad
    <2> QED
      BY <1>1, <2>1, Minimal
  <1>3. ASSUME NEW s \in SUBSET T, s # T PROVE \E h : Adds(h, f, s)
    BY <1>2, <1>3
  <1>4. ASSUME NEW s \in SUBSET T, s # T, s # {}
        PROVE  sum(s) = f[AnyOf(s)] + sum(s \ {AnyOf(s)})
    <2> DEFINE h == CHOOSE h : Adds(h, f, s)
               r == s \ {AnyOf(s)}
               k == CHOOSE k : Adds(k, f, r)
    <2>1. Adds(h, f, s)
      BY <1>3, <1>4
    <2>2. AnyOf(s) \in s /\ r \in SUBSET T /\ r # T /\ r \subseteq s
      BY <1>4 DEF AnyOf
    <2>3. Adds(k, f, r)
      BY <1>3, <2>2
    <2>4. IsFiniteSet(s)
      BY <1>2, FS_Subset
    <2>5. h[r] = k[r]
      <3> HIDE DEF h, k, r
      <3>1. r \in SUBSET (s \cap r)
        BY <2>2
      <3> QED
        BY <2>1, <2>3, <2>4, <3>1, AddsAgree
    <2>6. h[s] = f[AnyOf(s)] + h[r]
      <3> HIDE DEF h
      <3> QED
        BY <1>4, <2>1 DEF Adds
    <2> QED
      BY <2>5, <2>6
  <1>5. sum({}) = 0 \/ T = {}
    <2>1. CASE T # {}
      <3> DEFINE h == CHOOSE h : Adds(h, f, {})
      <3>1. Adds(h, f, {})
        BY <1>3, <2>1
      <3> HIDE DEF h
      <3>2. h[{}] = 0
        BY <3>1 DEF Adds
      <3> QED
        BY <3>2 DEF h
    <2> QED
      BY <2>1
  <1> DEFINE top == IF T = {} THEN 0 ELSE f[AnyOf(T)] + sum(T \ {AnyOf(T)})
             g   == [s \in SUBSET T |-> IF s = T THEN top ELSE sum(s)]
  <1> HIDE DEF sum
  <1>6. ASSUME NEW s \in SUBSET T
        PROVE  g[s] = IF s = {} THEN 0 ELSE f[AnyOf(s)] + g[s \ {AnyOf(s)}]
    <2>1. s # {} => AnyOf(s) \in s
      BY DEF AnyOf
    <2>2. s # {} => g[s \ {AnyOf(s)}] = sum(s \ {AnyOf(s)})
      BY <2>1
    <2>3. CASE s = T
      BY <2>2, <2>3
    <2>4. CASE s # T
      BY <1>4, <1>5, <2>2, <2>4
    <2> QED
      BY <2>3, <2>4
  <1>7. Adds(g, f, T)
    <2> HIDE DEF top
    <2> QED
      BY <1>6 DEF Adds
  <1> QED
    BY <1>2, <1>7

LEMMA SumAdds ==
    ASSUME NEW f, NEW S, IsFiniteSet(S)
    PROVE  \E h : Adds(h, f, S) /\ \A s \in SUBSET S : h[s] = SumFunctionOnSet(f, s)
  <1> DEFINE h == CHOOSE h : Adds(h, f, S)
  <1>1. Adds(h, f, S)
    BY AddsExist
  <1> HIDE DEF h
  <1>2. ASSUME NEW s \in SUBSET S PROVE h[s] = SumFunctionOnSet(f, s)
    <2> DEFINE k == CHOOSE k : Adds(k, f, s)
    <2>1. IsFiniteSet(s)
      BY FS_Subset
    <2>2. Adds(k, f, s)
      BY <2>1, AddsExist
    <2>3. k[s] = SumFunctionOnSet(f, s)
      BY SumIs
    <2> HIDE DEF k
    <2>4. s \in SUBSET (S \cap s)
      OBVIOUS
    <2>5. h[s] = k[s]
      BY <1>1, <2>2, <2>4, AddsAgree
    <2> QED
      BY <2>3, <2>5
  <1> QED
    BY <1>1, <1>2

LEMMA SumStep ==
    ASSUME NEW f, NEW S, IsFiniteSet(S)
    PROVE  /\ SumFunctionOnSet(f, {}) = 0
           /\ \A s \in SUBSET S : s # {} =>
                AnyOf(s) \in s /\ SumFunctionOnSet(f, s) = f[AnyOf(s)] + SumFunctionOnSet(f, s \ {AnyOf(s)})
  <1>1. PICK h : Adds(h, f, S) /\ \A s \in SUBSET S : h[s] = SumFunctionOnSet(f, s)
    BY SumAdds
  <1>2. SumFunctionOnSet(f, {}) = 0
    BY <1>1 DEF Adds
  <1>3. ASSUME NEW s \in SUBSET S, s # {}
        PROVE  AnyOf(s) \in s /\ SumFunctionOnSet(f, s) = f[AnyOf(s)] + SumFunctionOnSet(f, s \ {AnyOf(s)})
    <2>1. AnyOf(s) \in s
      BY <1>3 DEF AnyOf
    <2>2. h[s] = f[AnyOf(s)] + h[s \ {AnyOf(s)}]
      BY <1>1, <1>3 DEF Adds
    <2> QED
      BY <1>1, <2>1, <2>2
  <1> QED
    BY <1>2, <1>3

LEMMA SumEmpty ==
    ASSUME NEW f
    PROVE  SumFunctionOnSet(f, {}) = 0
  BY FS_EmptySet, SumStep

(* Sums of naturals                                                        *)
LEMMA SumNat ==
    ASSUME NEW f, NEW S, IsFiniteSet(S), \A x \in S : f[x] \in Nat
    PROVE  \A s \in SUBSET S : SumFunctionOnSet(f, s) \in Nat
  <1> DEFINE Bad == {s \in SUBSET S : SumFunctionOnSet(f, s) \notin Nat}
  <1>1. SUFFICES ASSUME Bad # {} PROVE FALSE
    OBVIOUS
  <1>2. PICK s \in Bad : \A r \in Bad : ~(r \subseteq s /\ r # s)
    <2>1. Bad \subseteq SUBSET S
      OBVIOUS
    <2> HIDE DEF Bad
    <2> QED
      BY <1>1, <2>1, Minimal
  <1>3. s \in SUBSET S /\ SumFunctionOnSet(f, s) \notin Nat
    BY <1>2
  <1>4. s # {}
    BY <1>3, SumStep
  <1>5. AnyOf(s) \in s
        /\ SumFunctionOnSet(f, s) = f[AnyOf(s)] + SumFunctionOnSet(f, s \ {AnyOf(s)})
    BY <1>3, <1>4, SumStep
  <1>6. SumFunctionOnSet(f, s \ {AnyOf(s)}) \in Nat
    BY <1>2, <1>5
  <1> QED
    BY <1>3, <1>5, <1>6

(* Pointwise sums                                                          *)
LEMMA SumPlus ==
    ASSUME NEW f, NEW g, NEW h, NEW S, IsFiniteSet(S),
           \A x \in S : f[x] \in Nat /\ g[x] \in Nat /\ h[x] = f[x] + g[x]
    PROVE  SumFunctionOnSet(h, S) = SumFunctionOnSet(f, S) + SumFunctionOnSet(g, S)
  <1> DEFINE Bad == {s \in SUBSET S : SumFunctionOnSet(h, s)
                       # SumFunctionOnSet(f, s) + SumFunctionOnSet(g, s)}
  <1>1. SUFFICES ASSUME Bad # {} PROVE FALSE
    OBVIOUS
  <1>2. PICK s \in Bad : \A r \in Bad : ~(r \subseteq s /\ r # s)
    <2>1. Bad \subseteq SUBSET S
      OBVIOUS
    <2> HIDE DEF Bad
    <2> QED
      BY <1>1, <2>1, Minimal
  <1>3. s \in SUBSET S /\ SumFunctionOnSet(h, s)
                           # SumFunctionOnSet(f, s) + SumFunctionOnSet(g, s)
    BY <1>2
  <1>4. s # {}
    <2> SUFFICES ASSUME s = {} PROVE FALSE
      OBVIOUS
    <2>1. /\ SumFunctionOnSet(f, s) = 0 /\ SumFunctionOnSet(g, s) = 0
          /\ SumFunctionOnSet(h, s) = 0
      BY SumEmpty
    <2> QED
      BY <1>3, <2>1
  <1> DEFINE r == s \ {AnyOf(s)}
  <1>5. /\ AnyOf(s) \in s
        /\ SumFunctionOnSet(f, s) = f[AnyOf(s)] + SumFunctionOnSet(f, r)
        /\ SumFunctionOnSet(g, s) = g[AnyOf(s)] + SumFunctionOnSet(g, r)
        /\ SumFunctionOnSet(h, s) = h[AnyOf(s)] + SumFunctionOnSet(h, r)
    BY <1>3, <1>4, SumStep
  <1>6. SumFunctionOnSet(h, r) = SumFunctionOnSet(f, r) + SumFunctionOnSet(g, r)
    BY <1>2, <1>5
  <1>7. SumFunctionOnSet(f, r) \in Nat /\ SumFunctionOnSet(g, r) \in Nat
    BY <1>3, SumNat
  <1>8. f[AnyOf(s)] \in Nat /\ g[AnyOf(s)] \in Nat /\ h[AnyOf(s)] = f[AnyOf(s)] + g[AnyOf(s)]
    BY <1>3, <1>5
  <1> HIDE DEF r
  <1> QED
    BY <1>3, <1>5, <1>6, <1>7, <1>8

(* Only the values on the set matter.                                      *)
LEMMA SumSame ==
    ASSUME NEW f, NEW g, NEW S, IsFiniteSet(S), \A x \in S : f[x] = g[x]
    PROVE  SumFunctionOnSet(f, S) = SumFunctionOnSet(g, S)
  <1> DEFINE Bad == {s \in SUBSET S : SumFunctionOnSet(f, s) # SumFunctionOnSet(g, s)}
  <1>1. SUFFICES ASSUME Bad # {} PROVE FALSE
    OBVIOUS
  <1>2. PICK s \in Bad : \A r \in Bad : ~(r \subseteq s /\ r # s)
    <2>1. Bad \subseteq SUBSET S
      OBVIOUS
    <2> HIDE DEF Bad
    <2> QED
      BY <1>1, <2>1, Minimal
  <1>3. s \in SUBSET S /\ SumFunctionOnSet(f, s) # SumFunctionOnSet(g, s)
    BY <1>2
  <1>4. s # {}
    BY <1>3, SumStep
  <1> DEFINE r == s \ {AnyOf(s)}
  <1>5. /\ AnyOf(s) \in s
        /\ SumFunctionOnSet(f, s) = f[AnyOf(s)] + SumFunctionOnSet(f, r)
        /\ SumFunctionOnSet(g, s) = g[AnyOf(s)] + SumFunctionOnSet(g, r)
    BY <1>3, <1>4, SumStep
  <1>6. SumFunctionOnSet(f, r) = SumFunctionOnSet(g, r)
    BY <1>2, <1>5
  <1> QED
    BY <1>3, <1>5, <1>6

(* Any element may be taken out first.                                     *)
LEMMA SumAny ==
    ASSUME NEW f, NEW S, IsFiniteSet(S), \A x \in S : f[x] \in Nat, NEW e \in S
    PROVE  SumFunctionOnSet(f, S) = f[e] + SumFunctionOnSet(f, S \ {e})
  <1> DEFINE Splits(s, x) ==
               SumFunctionOnSet(f, s) = f[x] + SumFunctionOnSet(f, s \ {x})
             Bad == {s \in SUBSET S : \E x \in s : ~Splits(s, x)}
  <1>1. SUFFICES ASSUME Bad # {} PROVE FALSE
    OBVIOUS
  <1>2. PICK s \in Bad : \A r \in Bad : ~(r \subseteq s /\ r # s)
    <2>1. Bad \subseteq SUBSET S
      OBVIOUS
    <2> HIDE DEF Bad
    <2> QED
      BY <1>1, <2>1, Minimal
  <1>3. PICK x \in s : ~Splits(s, x)
    BY <1>2
  <1> DEFINE p == AnyOf(s)
  <1>4. s \in SUBSET S /\ p \in s /\ Splits(s, p)
    BY <1>2, <1>3, SumStep
  <1>5. p # x
    BY <1>3, <1>4
  <1>6. Splits(s \ {p}, x) /\ Splits(s \ {x}, p)
    <2>1. s \ {p} \notin Bad /\ s \ {x} \notin Bad
      BY <1>2, <1>3, <1>4
    <2> HIDE DEF Splits
    <2> QED
      BY <1>3, <1>4, <1>5, <2>1
  <1> DEFINE rest == (s \ {p}) \ {x}
  <1>7. (s \ {x}) \ {p} = rest
    OBVIOUS
  <1>8. f[p] \in Nat /\ f[x] \in Nat /\ SumFunctionOnSet(f, rest) \in Nat
    BY <1>3, <1>4, SumNat
  <1> HIDE DEF rest, p
  <1> QED
    BY <1>3, <1>4, <1>6, <1>7, <1>8 DEF rest

(* One value grows by d.                                                   *)
LEMMA SumBump ==
    ASSUME NEW f, NEW g, NEW S, IsFiniteSet(S), \A x \in S : f[x] \in Nat,
           NEW e \in S, NEW d \in Nat, g[e] = f[e] + d,
           \A x \in S \ {e} : g[x] = f[x]
    PROVE  SumFunctionOnSet(g, S) = SumFunctionOnSet(f, S) + d
  <1> DEFINE R == S \ {e}
  <1>1. IsFiniteSet(R) /\ R \in SUBSET S
    BY FS_Subset
  <1>2. \A x \in S : g[x] \in Nat
    OBVIOUS
  <1>3. SumFunctionOnSet(f, S) = f[e] + SumFunctionOnSet(f, R)
    BY SumAny
  <1>4. SumFunctionOnSet(g, S) = g[e] + SumFunctionOnSet(g, R)
    BY <1>2, SumAny
  <1>5. SumFunctionOnSet(g, R) = SumFunctionOnSet(f, R)
    BY <1>1, SumSame
  <1>6. SumFunctionOnSet(f, R) \in Nat
    BY <1>1, SumNat
  <1> HIDE DEF R
  <1> QED
    BY <1>3, <1>4, <1>5, <1>6

LEMMA SumZero ==
    ASSUME NEW f, NEW S, IsFiniteSet(S), \A x \in S : f[x] = 0
    PROVE  SumFunctionOnSet(f, S) = 0
  <1> DEFINE sum == SumFunctionOnSet(f, S)
  <1>1. sum = sum + sum
    BY SumPlus
  <1>2. sum \in Nat
    BY SumNat
  <1> HIDE DEF sum
  <1>3. sum = 0
    BY <1>1, <1>2
  <1> QED
    BY <1>3 DEF sum

(* A table adds up to the same by its columns and by its rows.             *)
LEMMA SumSwap ==
    ASSUME NEW m, NEW I, NEW W, IsFiniteSet(I), IsFiniteSet(W),
           \A w \in W : \A i \in I : m[w][i] \in Nat
    PROVE  SumFunctionOnSet([i \in I |-> SumFunctionOnSet([w \in W |-> m[w][i]], W)], I)
             = SumFunctionOnSet([w \in W |-> SumFunctionOnSet(m[w], I)], W)
  <1> DEFINE col(i)    == [w \in W |-> m[w][i]]
             cols(s)   == [i \in I |-> SumFunctionOnSet(col(i), s)]
             row       == [w \in W |-> SumFunctionOnSet(m[w], I)]
             Same(s)   == SumFunctionOnSet(cols(s), I) = SumFunctionOnSet(row, s)
             Bad       == {s \in SUBSET W : ~Same(s)}
  <1>1. SUFFICES ASSUME Bad # {} PROVE FALSE
    OBVIOUS
  <1>2. PICK s \in Bad : \A r \in Bad : ~(r \subseteq s /\ r # s)
    <2>1. Bad \subseteq SUBSET W
      OBVIOUS
    <2> HIDE DEF Bad
    <2> QED
      BY <1>1, <2>1, Minimal
  <1>3. s \in SUBSET W /\ ~Same(s)
    BY <1>2
  <1>4. s # {}
    <2> SUFFICES ASSUME s = {} PROVE FALSE
      OBVIOUS
    <2>1. \A i \in I : cols(s)[i] = 0
      BY SumEmpty
    <2>2. SumFunctionOnSet(row, s) = 0
      BY SumEmpty
    <2> HIDE DEF cols, row
    <2>3. SumFunctionOnSet(cols(s), I) = 0
      BY <2>1, SumZero
    <2> QED
      BY <1>3, <2>2, <2>3
  <1> DEFINE p == AnyOf(s)
             r == s \ {p}
  <1>5. p \in s /\ r \in SUBSET W
    BY <1>3, <1>4, SumStep
  <1>6. Same(r)
    BY <1>2, <1>5
  <1>7. SumFunctionOnSet(row, s) = row[p] + SumFunctionOnSet(row, r)
    BY <1>3, <1>4, SumStep
  <1>8. ASSUME NEW i \in I
        PROVE  /\ m[p][i] \in Nat /\ cols(r)[i] \in Nat
               /\ cols(s)[i] = m[p][i] + cols(r)[i]
    <2> DEFINE c == col(i)
    <2>1. \A w \in W : c[w] \in Nat
      OBVIOUS
    <2>2. c[p] = m[p][i] /\ m[p][i] \in Nat
      BY <1>3, <1>5
    <2> HIDE DEF c
    <2>3. SumFunctionOnSet(c, s) = c[p] + SumFunctionOnSet(c, r)
      BY <1>3, <1>4, SumStep
    <2>4. SumFunctionOnSet(c, r) \in Nat
      BY <1>5, <2>1, SumNat
    <2> QED
      BY <2>2, <2>3, <2>4 DEF c
  <1> HIDE DEF cols
  <1>9. SumFunctionOnSet(cols(s), I) = SumFunctionOnSet(m[p], I) + SumFunctionOnSet(cols(r), I)
    <2> DEFINE a == m[p]
               b == cols(r)
               c == cols(s)
    <2>1. \A i \in I : a[i] \in Nat /\ b[i] \in Nat /\ c[i] = a[i] + b[i]
      BY <1>8
    <2> HIDE DEF a, b, c
    <2>2. SumFunctionOnSet(c, I) = SumFunctionOnSet(a, I) + SumFunctionOnSet(b, I)
      BY <2>1, SumPlus
    <2> QED
      BY <2>2 DEF a, b, c
  <1>10. row[p] = SumFunctionOnSet(m[p], I)
    BY <1>3, <1>5
  <1> HIDE DEF row
  <1> QED
    BY <1>3, <1>6, <1>7, <1>9, <1>10

(* A set of naturals has a least element.                                  *)
LEMMA Least ==
    ASSUME NEW T \in SUBSET Nat, T # {}
    PROVE  Min(T) \in T /\ \A y \in T : Min(T) <= y
  <1> PICK n \in T : TRUE
    OBVIOUS
  <1> DEFINE Upto == {0 .. k : k \in T \cap (0 .. n)}
  <1>1. IsFiniteSet(0 .. n)
    BY FS_Interval
  <1>2. Upto \subseteq SUBSET (0 .. n) /\ Upto # {}
    <2>1. (0 .. n) \in Upto
      OBVIOUS
    <2> QED
      BY <2>1
  <1>3. PICK x \in Upto : \A y \in Upto : ~(y \subseteq x /\ y # x)
    <2> DEFINE S == 0 .. n
    <2>1. IsFiniteSet(S) /\ Upto \subseteq SUBSET S /\ Upto # {}
      BY <1>1, <1>2
    <2> HIDE DEF Upto, S
    <2> QED
      BY <2>1, Minimal
  <1>4. PICK k \in T \cap (0 .. n) : x = 0 .. k
    BY <1>3
  <1>5. ASSUME NEW y \in T, y < k PROVE FALSE
    <2>1. 0 .. y \in Upto
      BY <1>4, <1>5
    <2>2. 0 .. y \subseteq x /\ k \in x /\ k \notin 0 .. y
      BY <1>4, <1>5
    <2> QED
      BY <1>3, <2>1, <2>2
  <1>6. k \in T /\ \A y \in T : k <= y
    BY <1>4, <1>5
  <1> HIDE DEF Upto
  <1> QED
    BY <1>6 DEF Min

(* A part of a sum of naturals is no larger.                               *)
LEMMA SumPart ==
    ASSUME NEW f, NEW S, IsFiniteSet(S), \A x \in S : f[x] \in Nat, NEW A \in SUBSET S
    PROVE  SumFunctionOnSet(f, A) <= SumFunctionOnSet(f, S)
  <1> DEFINE Bad == {s \in SUBSET S : A \subseteq s
                        /\ ~(SumFunctionOnSet(f, A) <= SumFunctionOnSet(f, s))}
  <1>1. SUFFICES ASSUME Bad # {} PROVE FALSE
    OBVIOUS
  <1>2. PICK s \in Bad : \A r \in Bad : ~(r \subseteq s /\ r # s)
    <2>1. Bad \subseteq SUBSET S
      OBVIOUS
    <2> HIDE DEF Bad
    <2> QED
      BY <1>1, <2>1, Minimal
  <1>3. /\ s \in SUBSET S /\ A \subseteq s
        /\ ~(SumFunctionOnSet(f, A) <= SumFunctionOnSet(f, s))
    BY <1>2
  <1>4. SumFunctionOnSet(f, A) \in Nat
    BY SumNat
  <1>5. A # s
    BY <1>3, <1>4
  <1>6. PICK x \in s : x \notin A
    BY <1>3, <1>5
  <1> DEFINE r == s \ {x}
  <1>7. SumFunctionOnSet(f, A) <= SumFunctionOnSet(f, r)
    BY <1>2, <1>3, <1>6
  <1>8. r \in SUBSET S /\ IsFiniteSet(s) /\ \A y \in s : f[y] \in Nat
    BY <1>3, FS_Subset
  <1>9. SumFunctionOnSet(f, s) = f[x] + SumFunctionOnSet(f, r) /\ f[x] \in Nat
    BY <1>8, SumAny
  <1>10. SumFunctionOnSet(f, r) \in Nat
    BY <1>8, SumNat
  <1> HIDE DEF r
  <1> QED
    BY <1>3, <1>4, <1>7, <1>9, <1>10

(* A finite set of integers has a least and a greatest element.            *)
LEMMA Ends ==
    ASSUME NEW S, IsFiniteSet(S)
    PROVE  S \subseteq Int /\ S # {} => /\ \E m \in S : \A y \in S : m <= y
                                        /\ \E m \in S : \A y \in S : y <= m
  <1> DEFINE Bounded(s) == /\ \E m \in s : \A y \in s : m <= y
                           /\ \E m \in s : \A y \in s : y <= m
             Bad == {s \in SUBSET S : s \subseteq Int /\ s # {} /\ ~Bounded(s)}
  <1>1. SUFFICES ASSUME Bad # {} PROVE FALSE
    OBVIOUS
  <1>2. PICK s \in Bad : \A r \in Bad : ~(r \subseteq s /\ r # s)
    <2>1. Bad \subseteq SUBSET S
      OBVIOUS
    <2> HIDE DEF Bad
    <2> QED
      BY <1>1, <2>1, Minimal
  <1>3. s \subseteq Int /\ s # {} /\ ~Bounded(s)
    BY <1>2
  <1>4. PICK x \in s : TRUE
    BY <1>3
  <1> DEFINE r == s \ {x}
  <1>5. r # {}
    BY <1>3, <1>4
  <1>6. Bounded(r)
    <2>1. r \notin Bad /\ r \in SUBSET S /\ r \subseteq Int
      BY <1>2, <1>3, <1>4
    <2> HIDE DEF Bounded
    <2> QED
      BY <1>5, <2>1
  <1>7. PICK lo \in r, hi \in r : \A y \in r : lo <= y /\ y <= hi
    BY <1>6
  <1>8. x \in Int /\ lo \in Int /\ hi \in Int /\ lo \in s /\ hi \in s
    BY <1>3, <1>4, <1>7
  <1>9. \E m \in s : \A y \in s : m <= y
    <2>1. CASE x <= lo
      BY <1>3, <1>7, <1>8, <2>1
    <2>2. CASE lo <= x
      BY <1>3, <1>7, <1>8, <2>2
    <2> QED
      BY <1>8, <2>1, <2>2
  <1>10. \E m \in s : \A y \in s : y <= m
    <2>1. CASE x <= hi
      BY <1>3, <1>7, <1>8, <2>1
    <2>2. CASE hi <= x
      BY <1>3, <1>7, <1>8, <2>2
    <2> QED
      BY <1>8, <2>1, <2>2
  <1> QED
    BY <1>3, <1>9, <1>10

LEMMA MinIs ==
    ASSUME NEW S, S \subseteq Int, NEW m \in S, \A y \in S : m <= y
    PROVE  Min(S) = m
  <1>1. ASSUME NEW x \in S, \A y \in S : x <= y PROVE x = m
    BY <1>1
  <1> QED
    BY <1>1 DEF Min

--------------------------------------------------------------------------------
(* Histograms: every sample lands in a bucket, and is counted there once.  *)
LEMMA IndexInRange ==
    ASSUME NEW ns
    PROVE  Index(ns) \in Indices
  <1> DEFINE T == {i \in Indices : ns < 2^i} \cup {Buckets - 1}
  <1>1. 0 \in Indices /\ Buckets - 1 \in Indices /\ Indices \subseteq Nat
    BY HistAssumption DEF Indices
  <1>2. T \subseteq Indices /\ T \in SUBSET Nat /\ T # {}
    BY <1>1
  <1>3. Min(T) \in Indices
    <2> HIDE DEF T
    <2> QED
      BY <1>2, Least
  <1> QED
    BY <1>1, <1>3 DEF Index

LEMMA FiniteIndices ==
    /\ \A i \in Indices : IsFiniteSet(0 .. i) /\ (0 .. i) \subseteq Indices
    /\ \A h, i : Count(h, i) = SumFunctionOnSet(h, 0 .. i)
    /\ Buckets - 1 \in Indices
  <1>1. ASSUME NEW i \in Indices PROVE IsFiniteSet(0 .. i) /\ (0 .. i) \subseteq Indices
    <2>1. i \in Int /\ i <= Buckets - 1 /\ Buckets \in Int
      BY HistAssumption DEF Indices
    <2> QED
      BY <2>1, FS_Interval DEF Indices
  <1>2. Buckets - 1 \in Indices
    BY HistAssumption DEF Indices
  <1> QED
    BY <1>1, <1>2 DEF Count

LEMMA ObserveCounts ==
    ASSUME NEW h \in Hist, NEW ns
    PROVE  /\ observe(h, ns) \in Hist
           /\ \A i \in Indices :
                Count(observe(h, ns), i) = Count(h, i) + (IF Index(ns) <= i THEN 1 ELSE 0)
           /\ Count(observe(h, ns), Buckets - 1) = Count(h, Buckets - 1) + 1
  <1> DEFINE e == Index(ns)
             g == observe(h, ns)
  <1>1. e \in Indices
    BY IndexInRange
  <1>2. /\ g \in Hist /\ g[e] = h[e] + 1
        /\ \A i \in Indices \ {e} : g[i] = h[i]
        /\ \A i \in Indices : h[i] \in Nat
    BY <1>1 DEF observe, Hist
  <1> HIDE DEF e, g
  <1>3. ASSUME NEW i \in Indices
        PROVE  Count(g, i) = Count(h, i) + (IF e <= i THEN 1 ELSE 0)
    <2> DEFINE S == 0 .. i
    <2>1. /\ IsFiniteSet(S) /\ S \subseteq Indices
          /\ Count(g, i) = SumFunctionOnSet(g, S) /\ Count(h, i) = SumFunctionOnSet(h, S)
      BY FiniteIndices
    <2>2. e \in S <=> e <= i
      BY <1>1 DEF Indices
    <2> HIDE DEF S
    <2>3. \A k \in S : h[k] \in Nat
      BY <1>2, <2>1
    <2>4. SumFunctionOnSet(h, S) \in Nat
      BY <2>1, <2>3, SumNat
    <2>5. CASE e \in S
      <3>1. \A k \in S \ {e} : g[k] = h[k]
        BY <1>2, <2>1
      <3>2. 1 \in Nat
        OBVIOUS
      <3>3. SumFunctionOnSet(g, S) = SumFunctionOnSet(h, S) + 1
        BY <1>2, <2>1, <2>3, <2>5, <3>1, <3>2, SumBump
      <3> QED
        BY <2>1, <2>2, <2>5, <3>3
    <2>6. CASE e \notin S
      <3>1. \A k \in S : g[k] = h[k]
        BY <1>2, <2>1, <2>6
      <3>2. SumFunctionOnSet(g, S) = SumFunctionOnSet(h, S)
        BY <2>1, <3>1, SumSame
      <3> QED
        BY <2>1, <2>2, <2>4, <2>6, <3>2
    <2> QED
      BY <2>5, <2>6
  <1>4. e <= Buckets - 1 /\ Buckets - 1 \in Indices
    BY <1>1, FiniteIndices DEF Indices
  <1> QED
    BY <1>2, <1>3, <1>4 DEF e, g

LEMMA EmptyCounts == Empty \in Hist /\ \A i \in Indices : Count(Empty, i) = 0
  <1>1. Empty \in Hist /\ \A i \in Indices : Empty[i] = 0
    BY DEF Empty, Hist
  <1>2. ASSUME NEW i \in Indices PROVE Count(Empty, i) = 0
    <2> DEFINE S == 0 .. i
    <2>1. IsFiniteSet(S) /\ S \subseteq Indices /\ Count(Empty, i) = SumFunctionOnSet(Empty, S)
      BY FiniteIndices
    <2> HIDE DEF S
    <2>2. \A k \in S : Empty[k] = 0
      BY <1>1, <2>1
    <2> QED
      BY <2>1, <2>2, SumZero
  <1> QED
    BY <1>1, <1>2

(* The merged histogram counts what the merged ones count.                 *)
LEMMA MergeCounts ==
    ASSUME NEW W, IsFiniteSet(W), NEW hists \in [W -> Hist]
    PROVE  /\ merge(hists) \in Hist
           /\ \A i \in Indices :
                Count(merge(hists), i) = SumFunctionOnSet([w \in W |-> Count(hists[w], i)], W)
  <1>1. \A w \in W : \A i \in Indices : hists[w][i] \in Nat
    BY DEF Hist
  <1> DEFINE col(i) == [w \in W |-> hists[w][i]]
             sums   == [i \in Indices |-> SumFunctionOnSet(col(i), W)]
  <1>2. merge(hists) = sums
    BY DEF merge, SumFunction
  <1>3. ASSUME NEW i \in Indices PROVE SumFunctionOnSet(col(i), W) \in Nat
    <2> DEFINE c == col(i)
    <2>1. \A w \in W : c[w] \in Nat
      BY <1>1
    <2> HIDE DEF c
    <2>2. SumFunctionOnSet(c, W) \in Nat
      BY <2>1, SumNat
    <2> QED
      BY <2>2 DEF c
  <1>4. sums \in Hist
    <2> HIDE DEF col
    <2> QED
      BY <1>3 DEF Hist
  <1>5. ASSUME NEW k \in Indices
        PROVE  Count(sums, k) = SumFunctionOnSet([w \in W |-> Count(hists[w], k)], W)
    <2> DEFINE S    == 0 .. k
               part == [i \in S |-> SumFunctionOnSet(col(i), W)]
    <2>1. IsFiniteSet(S) /\ S \subseteq Indices
      BY FiniteIndices
    <2>2. \A h : Count(h, k) = SumFunctionOnSet(h, S)
      BY FiniteIndices
    <2> HIDE DEF S
    <2>3. SumFunctionOnSet(part, S) = SumFunctionOnSet([w \in W |-> SumFunctionOnSet(hists[w], S)], W)
      BY <1>1, <2>1, SumSwap
    <2>4. \A i \in S : sums[i] = part[i]
      BY <2>1
    <2> HIDE DEF sums, part
    <2>5. SumFunctionOnSet(sums, S) = SumFunctionOnSet(part, S)
      BY <2>1, <2>4, SumSame
    <2> QED
      BY <2>2, <2>3, <2>5
  <1> QED
    BY <1>2, <1>4, <1>5

--------------------------------------------------------------------------------
(* Quantiles: the histogram leads to the bucket of the sample in question. *)
(* Powers of two count the parts of a set (FS_SUBSET), and one more        *)
(* element doubles them: each part with it and without it.                 *)
LEMMA Powers ==
    ASSUME NEW n \in Nat
    PROVE  2^n \in Nat /\ 2^n >= 1 /\ 2^(n + 1) = 2 * 2^n
  <1> DEFINE S == 1 .. n
             T == 1 .. n + 1
             With == {s \cup {n + 1} : s \in SUBSET S}
  <1>1. /\ IsFiniteSet(S) /\ Cardinality(S) = n
        /\ IsFiniteSet(T) /\ Cardinality(T) = n + 1
    BY FS_Interval
  <1>2. /\ IsFiniteSet(SUBSET S) /\ Cardinality(SUBSET S) = 2^n
        /\ IsFiniteSet(SUBSET T) /\ Cardinality(SUBSET T) = 2^(n + 1)
    BY <1>1, FS_SUBSET
  <1>3. T = S \cup {n + 1} /\ n + 1 \notin S
    OBVIOUS
  <1> HIDE DEF S, T
  <1>4. SUBSET T = (SUBSET S) \cup With
    <2>1. ASSUME NEW t \in SUBSET T PROVE t \in (SUBSET S) \cup With
      <3>1. CASE n + 1 \in t
        <4>1. t \ {n + 1} \in SUBSET S /\ t = (t \ {n + 1}) \cup {n + 1}
          BY <1>3, <3>1
        <4> QED
          BY <4>1
      <3>2. CASE n + 1 \notin t
        BY <1>3, <3>2
      <3> QED
        BY <3>1, <3>2
    <2>2. ASSUME NEW t \in (SUBSET S) \cup With PROVE t \in SUBSET T
      BY <1>3
    <2> QED
      BY <2>1, <2>2
  <1>5. (SUBSET S) \cap With = {}
    BY <1>3
  <1>6. IsFiniteSet(With) /\ Cardinality(With) = Cardinality(SUBSET S)
    <2> DEFINE f == [s \in SUBSET S |-> s \cup {n + 1}]
    <2>1. f \in [SUBSET S -> With]
      OBVIOUS
    <2>2. \A a, b \in SUBSET S : f[a] = f[b] => a = b
      BY <1>3
    <2>3. \A t \in With : \E s \in SUBSET S : f[s] = t
      OBVIOUS
    <2> HIDE DEF f, With
    <2>4. f \in Bijection(SUBSET S, With)
      BY <2>1, <2>2, <2>3 DEF Bijection, Injection, Surjection, IsInjective
    <2>5. ExistsBijection(SUBSET S, With)
      BY <2>4 DEF ExistsBijection
    <2> QED
      BY <1>2, <2>5, FS_Bijection
  <1>7. Cardinality(SUBSET T) = Cardinality(SUBSET S) + Cardinality(With)
    <2>1. /\ Cardinality((SUBSET S) \cup With)
                = Cardinality(SUBSET S) + Cardinality(With) - Cardinality((SUBSET S) \cap With)
          /\ Cardinality(SUBSET S) \in Nat /\ Cardinality(With) \in Nat
      BY <1>2, <1>6, FS_Union, FS_CardinalityType
    <2>2. Cardinality((SUBSET S) \cap With) = 0
      BY <1>5, FS_EmptySet
    <2>3. Cardinality(SUBSET T) = Cardinality((SUBSET S) \cup With)
      BY <1>4
    <2> QED
      BY <2>1, <2>2, <2>3
  <1>8. Cardinality(SUBSET S) \in Nat /\ Cardinality(SUBSET S) # 0
    <2>1. {} \in SUBSET S
      OBVIOUS
    <2> QED
      BY <1>2, <2>1, FS_CardinalityType, FS_EmptySet
  <1> QED
    BY <1>2, <1>6, <1>7, <1>8

LEMMA PowerOfZero == 2^0 = 1
  <1>1. IsFiniteSet({}) /\ Cardinality({}) = 0
    BY FS_EmptySet
  <1>2. Cardinality(SUBSET {}) = 2^0
    BY <1>1, FS_SUBSET
  <1>3. SUBSET {} = {{}}
    OBVIOUS
  <1> QED
    BY <1>2, <1>3, FS_Singleton

(* The bucket of a latency: the first whose power of two exceeds it.       *)
LEMMA IndexOf ==
    ASSUME NEW ns \in Latencies
    PROVE  /\ ns \in Int /\ Index(ns) \in Indices /\ Index(ns) \in Nat
           /\ ns <= 0 => Index(ns) = 0
           /\ ns > 0 => /\ Index(ns) > 0
                        /\ ns < 2^Index(ns) /\ 2^(Index(ns) - 1) <= ns
                        /\ \A i \in Indices : ns < 2^i => Index(ns) <= i
  <1> DEFINE T == {i \in Indices : ns < 2^i} \cup {Buckets - 1}
  <1>1. 0 \in Indices /\ Buckets - 1 \in Indices /\ Indices \subseteq Nat
    BY HistAssumption DEF Indices
  <1>2. ns \in Int /\ ns < 2^(Buckets - 1)
    BY RunnerAssumption
  <1>3. Index(ns) = IF ns <= 0 THEN 0 ELSE Min(T)
    BY DEF Index
  <1>4. CASE ns <= 0
    BY <1>1, <1>2, <1>3, <1>4
  <1>5. CASE ns > 0
    <2>1. T \in SUBSET Nat /\ T # {} /\ T \subseteq Indices
      BY <1>1
    <2>2. Min(T) \in T /\ \A y \in T : Min(T) <= y
      <3> HIDE DEF T
      <3> QED
        BY <2>1, Least
    <2> DEFINE m == Min(T)
    <2>3. m \in Indices /\ m \in Nat /\ ns < 2^m
      BY <1>1, <1>2, <2>1, <2>2
    <2>4. \A i \in Indices : ns < 2^i => m <= i
      BY <2>2
    <2>5. Index(ns) = m
      BY <1>2, <1>3, <1>5
    <2> HIDE DEF m, T
    <2>6. m # 0
      <3> SUFFICES ASSUME m = 0 PROVE FALSE
        OBVIOUS
      <3> QED
        BY <1>2, <1>5, <2>3, PowerOfZero
    <2>7. m - 1 \in Indices /\ m - 1 \in Nat
      BY <2>3, <2>6, HistAssumption DEF Indices
    <2>8. ~(ns < 2^(m - 1))
      BY <2>3, <2>4, <2>7
    <2>9. 2^(m - 1) \in Nat
      BY <2>7, Powers
    <2>10. 2^(m - 1) <= ns
      BY <1>2, <2>8, <2>9
    <2> QED
      BY <1>2, <1>5, <2>3, <2>4, <2>5, <2>6, <2>10
  <1> QED
    BY <1>2, <1>4, <1>5

LEMMA IndexMonotone ==
    ASSUME NEW a \in Latencies, NEW b \in Latencies, a <= b
    PROVE  Index(a) <= Index(b)
  <1>1. a \in Int /\ b \in Int /\ Index(a) \in Nat /\ Index(b) \in Nat
    BY IndexOf
  <1>2. CASE a <= 0
    <2>1. Index(a) = 0
      BY <1>2, IndexOf
    <2> QED
      BY <1>1, <2>1
  <1>3. CASE a > 0
    <2>1. b > 0
      BY <1>1, <1>3
    <2>2. b < 2^Index(b) /\ Index(b) \in Indices /\ 2^Index(b) \in Nat
      BY <1>1, <2>1, IndexOf, Powers
    <2>3. a < 2^Index(b)
      BY <1>1, <2>2
    <2> QED
      BY <1>3, <2>2, <2>3, IndexOf
  <1> QED
    BY <1>1, <1>2, <1>3

(* The end of its bucket is no less than a latency, and less than twice it.*)
LEMMA UpperOf ==
    ASSUME NEW ns \in Latencies
    PROVE  /\ ns <= bucketUpper(Index(ns))
           /\ ns > 0 => bucketUpper(Index(ns)) < 2 * ns
           /\ ns = 0 => bucketUpper(Index(ns)) = 0
  <1> DEFINE m == Index(ns)
  <1>1. ns \in Int /\ m \in Nat
    BY IndexOf
  <1>2. CASE ns <= 0
    <2>1. bucketUpper(m) = 0
      BY <1>2, IndexOf DEF bucketUpper
    <2> QED
      BY <1>1, <1>2, <2>1
  <1>3. CASE ns > 0
    <2>1. m > 0 /\ ns < 2^m /\ 2^(m - 1) <= ns
      BY <1>3, IndexOf
    <2> HIDE DEF m
    <2>2. m - 1 \in Nat /\ (m - 1) + 1 = m
      BY <1>1, <2>1
    <2>3. 2^(m - 1) \in Nat /\ 2^((m - 1) + 1) = 2 * 2^(m - 1)
      BY <2>2, Powers
    <2>4. 2^m = 2 * 2^(m - 1)
      BY <2>2, <2>3
    <2>5. bucketUpper(m) = 2^m - 1
      BY <1>1, <2>1 DEF bucketUpper
    <2> DEFINE p == 2^(m - 1)
    <2>6. p \in Nat /\ ns < 2 * p /\ p <= ns /\ bucketUpper(m) = 2 * p - 1
      BY <2>1, <2>3, <2>4, <2>5
    <2> HIDE DEF p
    <2> QED
      BY <1>1, <1>3, <2>6 DEF m
  <1> QED
    BY <1>1, <1>2, <1>3

(* The latencies that the buckets up to the i-th stand for                 *)
UpTo(i) == {ns \in Latencies : Index(ns) <= i}

(* A histogram that counts what was measured leads to the bucket of the    *)
(* very sample that has the rank.                                          *)
LEMMA BucketOfRank ==
    ASSUME NEW h \in Hist, NEW s \in [Latencies -> Nat],
           \A i \in Indices : Count(h, i) = SumFunctionOnSet(s, UpTo(i)),
           NEW rank \in Nat \ {0}, rank <= SumFunctionOnSet(s, Latencies),
           NEW exact,
           exact = Min({ns \in Latencies :
                          SumFunctionOnSet(s, {l \in Latencies : l <= ns}) >= rank})
    PROVE  /\ exact \in Latencies
           /\ Min({i \in Indices : Count(h, i) >= rank}) = Index(exact)
  <1> DEFINE Below(ns) == {l \in Latencies : l <= ns}
             E == {ns \in Latencies : SumFunctionOnSet(s, Below(ns)) >= rank}
             B == {i \in Indices : Count(h, i) >= rank}
             b == Index(exact)
  <1>1. IsFiniteSet(Latencies) /\ Latencies \subseteq Int
    BY RunnerAssumption
  <1>2. \A ns \in Latencies : s[ns] \in Nat
    OBVIOUS
  <1>3. ASSUME NEW X \in SUBSET Latencies, NEW Y \in SUBSET X
        PROVE  /\ SumFunctionOnSet(s, X) \in Nat /\ SumFunctionOnSet(s, Y) \in Nat
               /\ SumFunctionOnSet(s, Y) <= SumFunctionOnSet(s, X)
    <2>1. IsFiniteSet(X) /\ \A ns \in X : s[ns] \in Nat
      BY <1>1, <1>2, FS_Subset
    <2> QED
      BY <2>1, SumNat, SumPart
  <1>4. ASSUME NEW X \in SUBSET Latencies, SumFunctionOnSet(s, X) >= rank
        PROVE  \E m \in X : m \in E
    <2>1. X # {}
      <3> SUFFICES ASSUME X = {} PROVE FALSE
        OBVIOUS
      <3>1. SumFunctionOnSet(s, X) = 0
        BY SumEmpty
      <3> QED
        BY <1>4, <3>1
    <2>2. IsFiniteSet(X) /\ X \subseteq Int
      BY <1>1, FS_Subset
    <2>3. PICK m \in X : \A y \in X : y <= m
      BY <2>1, <2>2, Ends
    <2>4. X \in SUBSET Below(m) /\ Below(m) \in SUBSET Latencies /\ m \in Latencies
      BY <2>3
    <2> HIDE DEF Below
    <2>5. /\ SumFunctionOnSet(s, Below(m)) \in Nat /\ SumFunctionOnSet(s, X) \in Nat
          /\ SumFunctionOnSet(s, X) <= SumFunctionOnSet(s, Below(m))
      BY <1>3, <2>4
    <2>6. SumFunctionOnSet(s, Below(m)) >= rank
      BY <1>4, <2>5
    <2> QED
      BY <2>3, <2>4, <2>6
  <1>5. E \subseteq Int /\ IsFiniteSet(E) /\ E # {}
    <2>1. SumFunctionOnSet(s, Latencies) \in Nat /\ Latencies \in SUBSET Latencies
      BY <1>3
    <2>2. SumFunctionOnSet(s, Latencies) >= rank
      BY <2>1
    <2>3. E \in SUBSET Latencies
      OBVIOUS
    <2> HIDE DEF E
    <2> QED
      BY <1>1, <1>4, <2>1, <2>2, <2>3, FS_Subset
  <1>6. exact \in E /\ \A y \in E : exact <= y
    <2>1. exact = Min(E)
      OBVIOUS
    <2> HIDE DEF E
    <2>2. PICK m \in E : \A y \in E : m <= y
      BY <1>5, Ends
    <2>3. Min(E) = m
      BY <1>5, <2>2, MinIs
    <2> QED
      BY <2>1, <2>2, <2>3
  <1>7. exact \in Latencies /\ SumFunctionOnSet(s, Below(exact)) >= rank /\ exact \in Int
    BY <1>1, <1>6
  <1>8. b \in Indices /\ b \in Nat
    BY <1>7, IndexOf
  <1>9. b \in B
    <2>1. Below(exact) \in SUBSET UpTo(b) /\ UpTo(b) \in SUBSET Latencies
      BY <1>7, IndexMonotone DEF UpTo
    <2> HIDE DEF Below
    <2>2. /\ SumFunctionOnSet(s, UpTo(b)) \in Nat /\ SumFunctionOnSet(s, Below(exact)) \in Nat
          /\ SumFunctionOnSet(s, Below(exact)) <= SumFunctionOnSet(s, UpTo(b))
      BY <1>3, <2>1
    <2>3. SumFunctionOnSet(s, UpTo(b)) >= rank
      BY <1>7, <2>2
    <2> QED
      BY <1>8, <2>3
  <1>10. ASSUME NEW i \in B PROVE b <= i
    <2>1. i \in Indices /\ i \in Nat /\ SumFunctionOnSet(s, UpTo(i)) >= rank
      BY HistAssumption DEF Indices
    <2>2. UpTo(i) \in SUBSET Latencies
      BY DEF UpTo
    <2>3. PICK m \in UpTo(i) : m \in E
      <3> HIDE DEF E
      <3> QED
        BY <1>4, <2>1, <2>2
    <2>4. m \in Latencies /\ Index(m) <= i /\ exact <= m
      BY <1>6, <2>3 DEF UpTo
    <2>5. b <= Index(m) /\ Index(m) \in Nat
      BY <1>7, <2>4, IndexMonotone, IndexOf
    <2> QED
      BY <1>8, <2>1, <2>4, <2>5
  <1>11. B \subseteq Int
    BY HistAssumption DEF Indices
  <1>12. Min(B) = b
    <2> HIDE DEF B, b
    <2> QED
      BY <1>9, <1>10, <1>11, MinIs
  <1> QED
    BY <1>7, <1>12

Quantiles == {<<50, 100>>, <<99, 100>>, <<999, 1000>>}

(* A rank is among the samples.                                            *)
LEMMA RankInRange ==
    ASSUME NEW q \in Quantiles, NEW total \in Nat \ {0}
    PROVE  Rank(q, total) \in 1 .. total
  <1> DEFINE c == (q[1] * total + q[2] - 1) \div q[2]
             m == Min({c, total})
  <1>1. c \in Int
    <2>1. CASE q = <<50, 100>>
      BY <2>1
    <2>2. CASE q = <<99, 100>>
      BY <2>2
    <2>3. CASE q = <<999, 1000>>
      BY <2>3
    <2> QED
      BY <2>1, <2>2, <2>3 DEF Quantiles
  <1>2. Rank(q, total) = Max({1, m})
    BY DEF Rank
  <1> HIDE DEF c
  <1>3. m \in Int /\ m <= total
    <2>1. CASE c <= total
      <3>1. m = c
        BY <1>1, <2>1, MinIs
      <3> QED
        BY <1>1, <2>1, <3>1
    <2>2. CASE total <= c
      <3>1. m = total
        BY <1>1, <2>2, MinIs
      <3> QED
        BY <3>1
    <2> QED
      BY <1>1, <2>1, <2>2
  <1> HIDE DEF m
  <1>4. Max({1, m}) = IF m <= 1 THEN 1 ELSE m
    BY <1>3 DEF Max
  <1> QED
    BY <1>2, <1>3, <1>4

--------------------------------------------------------------------------------
(* Workers that are past the gate, and hold a histogram if one is wanted   *)
Started == {w \in Workers : worker[w] \notin {"unborn", "parked"}}

(* The tallies account for every call and for every admission.             *)
TalliesAddUp ==
    /\ served  = SumFunctionOnSet([w \in Workers |-> tally[w].calls], Workers)
    /\ granted = SumFunctionOnSet([w \in Workers |-> tally[w].allowed], Workers)

(* A worker times each of its calls, hands over what it has tallied, and   *)
(* goes on to no other call after a late one.                              *)
WorkerOK(w) ==
    /\ Count(tally[w].hist, Buckets - 1) = IF percentiles THEN tally[w].calls ELSE 0
    /\ worker[w] \in {"leaving", "done"} => workers[w] = tally[w]
    /\ late[w] <= 1
    /\ late[w] = 1 => stop /\ worker[w] \in {"checking", "reporting", "leaving", "done"}

(* What was allocated since the baseline is due to the load, to the timer  *)
(* or to the runtime.                                                      *)
LoadAllocates ==
    driver # "spawning" =>
        mallocs = m0 + granted + (IF percentiles THEN Cardinality(Started) ELSE 0)
                    + overhead

(* The inductive invariant of a run                                        *)
RunInv ==
    /\ RunTypeOK
    /\ driver \in {"spawning", "arming", "opening"} => ~gate
    /\ ~gate => served = 0
    /\ served + Cardinality(InCall) <= MaxCalls
    /\ TalliesAddUp
    /\ \A w \in Workers : WorkerOK(w)
    /\ LoadAllocates
    /\ driver = "returned" => Waited /\ timer # "armed"
    /\ ReportIsExact

LEMMA FiniteParts ==
    /\ IsFiniteSet(Workers)
    /\ \A S \in SUBSET Workers : IsFiniteSet(S) /\ Cardinality(S) \in Nat
    /\ InCall \in SUBSET Workers /\ Started \in SUBSET Workers
  <1>1. IsFiniteSet(Workers)
    BY RunnerAssumption
  <1>2. ASSUME NEW S \in SUBSET Workers PROVE IsFiniteSet(S) /\ Cardinality(S) \in Nat
    BY <1>1, FS_Subset, FS_CardinalityType
  <1> QED
    BY <1>1, <1>2 DEF InCall, Started

LEMMA InitRunInv == RunInit => RunInv
  <1> SUFFICES ASSUME RunInit PROVE RunInv
    OBVIOUS
  <1>1. NoTally \in Tally /\ Empty \in Hist /\ Count(Empty, Buckets - 1) = 0
    BY EmptyCounts, FiniteIndices DEF NoTally, Tally
  <1>2. /\ driver = "spawning" /\ gate = FALSE /\ served = 0 /\ granted = 0
        /\ percentiles \in BOOLEAN /\ MaxCalls \in Nat
        /\ \A w \in Workers : worker[w] = "unborn" /\ tally[w] = NoTally /\ late[w] = 0
    BY RunnerAssumption DEF RunInit
  <1>3. RunTypeOK
    <2>1. /\ res \in [calls : Nat, allowed : Nat, allocs : Nat, hist : Hist]
          /\ tally \in [Workers -> Tally] /\ workers \in [Workers -> Tally]
      BY <1>1 DEF RunInit
    <2>2. /\ worker \in [Workers -> {"unborn", "parked", "checking", "calling",
                                     "reporting", "leaving", "done"}]
          /\ samples \in [Latencies -> Nat] /\ late \in [Workers -> Nat]
      BY DEF RunInit
    <2>3. mallocs = 0 /\ m0 = 0 /\ stop = FALSE /\ timer = "off" /\ overhead = 0
      BY DEF RunInit
    <2>4. mallocs \in Nat /\ m0 \in 0 .. mallocs /\ served \in 0 .. MaxCalls
          /\ granted \in 0 .. served /\ overhead \in Nat
      BY <1>2, <2>3
    <2> QED
      BY <1>2, <2>1, <2>2, <2>3, <2>4 DEF RunTypeOK
  <1>4. Cardinality(InCall) = 0
    <2>1. InCall = {}
      BY <1>2 DEF InCall
    <2> QED
      BY <2>1, FS_EmptySet
  <1>5. TalliesAddUp
    <2> DEFINE f == [w \in Workers |-> tally[w].calls]
               g == [w \in Workers |-> tally[w].allowed]
    <2>1. \A w \in Workers : f[w] = 0 /\ g[w] = 0
      BY <1>2 DEF NoTally
    <2> HIDE DEF f, g
    <2>2. SumFunctionOnSet(f, Workers) = 0 /\ SumFunctionOnSet(g, Workers) = 0
      BY <2>1, FiniteParts, SumZero
    <2> QED
      BY <1>2, <2>2 DEF TalliesAddUp, f, g
  <1>6. ASSUME NEW w \in Workers PROVE WorkerOK(w)
    BY <1>1, <1>2 DEF WorkerOK, NoTally
  <1> QED
    BY <1>2, <1>3, <1>4, <1>5, <1>6 DEF RunInv, LoadAllocates, ReportIsExact

(* While a worker is at work, the run has not returned.                    *)
LEMMA WorkBefore ==
    ASSUME RunInv, NEW w \in Workers, worker[w] # "done"
    PROVE  driver # "returned"
  BY DEF RunInv, Waited

(* Steps of the driver before the load, and of the timer                   *)
LEMMA SpawnRunInv ==
    ASSUME RunInv, NEW w \in Workers, Spawn(w)
    PROVE  RunInv'
  <1>1. /\ driver = "spawning" /\ worker[w] = "unborn"
        /\ worker' = [worker EXCEPT ![w] = "parked"] /\ mallocs' = mallocs + 1
        /\ UNCHANGED <<control, tally, workers, history>>
    BY DEF Spawn
  <1>2. RunTypeOK'
    BY <1>1 DEF RunInv, RunTypeOK, control, history
  <1>3. InCall' = InCall
    BY <1>1 DEF InCall, RunInv, RunTypeOK
  <1>4. TalliesAddUp'
    BY <1>1 DEF RunInv, TalliesAddUp, history
  <1>5. ASSUME NEW v \in Workers PROVE WorkerOK(v)'
    BY <1>1 DEF RunInv, RunTypeOK, WorkerOK, control, history
  <1>6. driver' = "spawning"
    BY <1>1 DEF control
  <1> QED
    BY <1>1, <1>2, <1>3, <1>4, <1>5, <1>6
       DEF RunInv, LoadAllocates, ReportIsExact, control, history

LEMMA BaselineRunInv ==
    ASSUME RunInv, Baseline
    PROVE  RunInv'
  <1>1. /\ driver = "spawning" /\ m0' = mallocs /\ driver' = "arming" /\ overhead' = 0
        /\ UNCHANGED <<percentiles, gate, timer, stop, mallocs, res, load>>
    BY DEF Baseline
  <1>2. RunTypeOK'
    BY <1>1 DEF RunInv, RunTypeOK, load, history
  <1>3. InCall' = InCall /\ Started' = Started
    BY <1>1 DEF InCall, Started, load
  <1>4. TalliesAddUp'
    BY <1>1 DEF RunInv, TalliesAddUp, load, history
  <1>5. ASSUME NEW v \in Workers PROVE WorkerOK(v)'
    BY <1>1 DEF RunInv, WorkerOK, load, history
  <1>6. ~gate /\ served = 0 /\ granted = 0
    <2>1. ~gate /\ served = 0 /\ granted \in 0 .. served
      BY <1>1 DEF RunInv, RunTypeOK
    <2> QED
      BY <2>1
  <1>7. Cardinality(Started) = 0
    <2>1. Started = {}
      BY <1>6 DEF Started, RunInv, RunTypeOK
    <2> QED
      BY <2>1, FS_EmptySet
  <1>8. LoadAllocates'
    <2>1. mallocs \in Nat /\ mallocs' = mallocs /\ m0' = mallocs /\ granted' = 0
          /\ Cardinality(Started)' = 0 /\ overhead' = 0
      BY <1>1, <1>3, <1>6, <1>7 DEF RunInv, RunTypeOK, load, history
    <2> QED
      BY <2>1 DEF LoadAllocates
  <1> QED
    BY <1>1, <1>2, <1>3, <1>4, <1>5, <1>8 DEF RunInv, ReportIsExact, load, history

(* Arming and opening move the driver on; only opening moves the gate, and *)
(* only the timer raises the flag.  What is allocated meanwhile is none of *)
(* the load's.                                                             *)
LEMMA GateRunInv ==
    ASSUME RunInv, Arm \/ Open \/ Fire \/ RuntimeAllocates
    PROVE  RunInv'
  <1> PICK n \in Nat : mallocs' = mallocs + n /\ overhead' = overhead + n
    <2>1. TimerCost \in Nat /\ mallocs \in Nat /\ overhead \in Nat
      BY RunnerAssumption DEF RunInv, RunTypeOK
    <2>2. CASE Arm
      BY <2>1, <2>2 DEF Arm, Overhead
    <2>3. CASE Fire
      BY <2>1, <2>3 DEF Fire, Overhead
    <2>4. CASE RuntimeAllocates
      BY <2>1, <2>4 DEF RuntimeAllocates, Overhead
    <2>5. CASE Open
      <3>1. mallocs' = mallocs + 0 /\ overhead' = overhead + 0
        BY <2>1, <2>5 DEF Open
      <3> QED
        BY <3>1
    <2> QED
      BY <2>2, <2>3, <2>4, <2>5
  <1>1. /\ UNCHANGED <<percentiles, m0, res, load>>
        /\ timer' \in {"off", "armed", "fired", "stopped"}
        /\ stop' \in BOOLEAN /\ (stop => stop')
        /\ gate' \in BOOLEAN /\ (gate => gate')
        /\ driver' \in {"spawning", "arming", "opening", "waiting", "returned"}
        /\ \/ driver' = driver /\ gate' = gate
           \/ driver = "arming" /\ driver' = "opening" /\ gate' = gate
           \/ driver = "opening" /\ driver' = "waiting" /\ gate' = TRUE
        /\ driver' # "returned"
    BY DEF Arm, Open, Fire, RuntimeAllocates, control, RunInv, RunTypeOK
  <1>2. RunTypeOK'
    BY <1>1 DEF RunInv, RunTypeOK, load
  <1>3. InCall' = InCall /\ Started' = Started
    BY <1>1 DEF InCall, Started, load
  <1>4. TalliesAddUp'
    BY <1>1 DEF RunInv, TalliesAddUp, load, history
  <1>5. ASSUME NEW v \in Workers PROVE WorkerOK(v)'
    BY <1>1 DEF RunInv, WorkerOK, load, history
  <1>6. LoadAllocates'
    <2>1. /\ m0' = m0 /\ granted' = granted /\ percentiles' = percentiles
          /\ driver # "spawning" <=> driver' # "spawning"
      BY <1>1 DEF load
    <2>2. mallocs \in Nat /\ m0 \in Nat /\ granted \in Nat /\ overhead \in Nat
          /\ Cardinality(Started) \in Nat
      BY FiniteParts DEF RunInv, RunTypeOK
    <2> QED
      BY <1>3, <2>1, <2>2 DEF RunInv, LoadAllocates
  <1> QED
    BY <1>1, <1>2, <1>3, <1>4, <1>5, <1>6 DEF RunInv, ReportIsExact, load

(* Steps of a worker other than its call                                   *)
LEMMA PassRunInv ==
    ASSUME RunInv, NEW w \in Workers, Pass(w)
    PROVE  RunInv'
  <1>1. /\ worker[w] = "parked" /\ gate
        /\ worker'  = [worker EXCEPT ![w] = "checking"]
        /\ mallocs' = mallocs + (IF percentiles THEN 1 ELSE 0)
        /\ UNCHANGED <<control, tally, workers, history>>
    BY DEF Pass
  <1>2. driver # "returned" /\ driver # "spawning"
    BY <1>1, WorkBefore DEF RunInv
  <1>3. RunTypeOK'
    BY <1>1 DEF RunInv, RunTypeOK, control, history
  <1>4. InCall' = InCall /\ Started' = Started \cup {w} /\ w \notin Started
    BY <1>1 DEF InCall, Started, RunInv, RunTypeOK
  <1>5. Cardinality(Started') = Cardinality(Started) + 1 /\ Cardinality(Started) \in Nat
    BY <1>4, FiniteParts, FS_AddElement
  <1>6. TalliesAddUp'
    BY <1>1 DEF RunInv, TalliesAddUp, history
  <1>7. ASSUME NEW v \in Workers PROVE WorkerOK(v)'
    BY <1>1 DEF RunInv, RunTypeOK, WorkerOK, control, history
  <1>8. LoadAllocates'
    <2>1. /\ mallocs = m0 + granted + (IF percentiles THEN Cardinality(Started) ELSE 0)
                         + overhead
          /\ mallocs \in Nat /\ m0 \in Nat /\ granted \in Nat /\ overhead \in Nat
      BY <1>2 DEF RunInv, RunTypeOK, LoadAllocates
    <2>2. m0' = m0 /\ granted' = granted /\ percentiles' = percentiles
          /\ overhead' = overhead
      BY <1>1 DEF control, history
    <2> QED
      BY <1>1, <1>5, <2>1, <2>2 DEF LoadAllocates
  <1> QED
    BY <1>1, <1>2, <1>3, <1>4, <1>6, <1>7, <1>8
       DEF RunInv, ReportIsExact, control, history

LEMMA GoOnRunInv ==
    ASSUME RunInv, NEW w \in Workers, GoOn(w)
    PROVE  RunInv'
  <1>1. /\ worker[w] = "checking" /\ ~stop
        /\ served + Cardinality(InCall) < MaxCalls
        /\ worker' = [worker EXCEPT ![w] = "calling"]
        /\ UNCHANGED <<control, tally, workers, mallocs, history>>
    BY DEF GoOn, Stopped
  <1>2. driver # "returned"
    BY <1>1, WorkBefore
  <1>3. RunTypeOK'
    BY <1>1 DEF RunInv, RunTypeOK, control, history
  <1>4. InCall' = InCall \cup {w} /\ Started' = Started /\ w \notin InCall
    BY <1>1 DEF InCall, Started, RunInv, RunTypeOK
  <1>5. (served + Cardinality(InCall) <= MaxCalls)'
    <2>1. Cardinality(InCall') = Cardinality(InCall) + 1 /\ Cardinality(InCall) \in Nat
      BY <1>4, FiniteParts, FS_AddElement
    <2>2. served \in Nat /\ MaxCalls \in Nat /\ served' = served
      BY <1>1, RunnerAssumption DEF RunInv, RunTypeOK, history
    <2> QED
      BY <1>1, <2>1, <2>2
  <1>6. TalliesAddUp'
    BY <1>1 DEF RunInv, TalliesAddUp, history
  <1>7. ASSUME NEW v \in Workers PROVE WorkerOK(v)'
    BY <1>1 DEF RunInv, RunTypeOK, WorkerOK, control, history
  <1>8. LoadAllocates'
    BY <1>1, <1>4 DEF RunInv, LoadAllocates, control, history
  <1> QED
    BY <1>1, <1>2, <1>3, <1>5, <1>6, <1>7, <1>8
       DEF RunInv, ReportIsExact, control, history

(* Leaving the loop, handing over the result, being done with it           *)
LEMMA EndRunInv ==
    ASSUME RunInv, NEW w \in Workers, Leave(w) \/ Report(w) \/ Done(w)
    PROVE  RunInv'
  <1>1. PICK from \in {"checking", "reporting", "leaving"},
             to \in {"reporting", "leaving", "done"} :
        /\ worker[w] = from /\ worker' = [worker EXCEPT ![w] = to]
        /\ from = "leaving" <=> to = "done"
        /\ \/ workers' = workers /\ to \in {"reporting", "done"}
           \/ workers' = [workers EXCEPT ![w] = tally[w]] /\ to = "leaving"
        /\ UNCHANGED <<control, tally, mallocs, history>>
    BY DEF Leave, Report, Done
  <1>2. driver # "returned"
    BY <1>1, WorkBefore
  <1>3. RunTypeOK'
    BY <1>1 DEF RunInv, RunTypeOK, control, history
  <1>4. InCall' = InCall /\ Started' = Started
    BY <1>1 DEF InCall, Started, RunInv, RunTypeOK
  <1>5. TalliesAddUp'
    BY <1>1 DEF RunInv, TalliesAddUp, history
  <1>6. ASSUME NEW v \in Workers PROVE WorkerOK(v)'
    <2>1. worker[v] \in {"unborn", "parked", "checking", "calling",
                         "reporting", "leaving", "done"}
          /\ worker \in [Workers -> {"unborn", "parked", "checking", "calling",
                                     "reporting", "leaving", "done"}]
          /\ workers \in [Workers -> Tally] /\ tally' = tally /\ stop' = stop
          /\ late' = late /\ percentiles' = percentiles
      BY <1>1 DEF RunInv, RunTypeOK, control, history
    <2>2. WorkerOK(v)
      BY DEF RunInv
    <2> QED
      BY <1>1, <2>1, <2>2 DEF WorkerOK
  <1>7. LoadAllocates'
    BY <1>1, <1>4 DEF RunInv, LoadAllocates, control, history
  <1> QED
    BY <1>1, <1>2, <1>3, <1>4, <1>5, <1>6, <1>7
       DEF RunInv, ReportIsExact, control, history

(* A call: one more is served, tallied, and timed if it is to be timed.    *)
LEMMA AllowRunInv ==
    ASSUME RunInv, NEW w \in Workers, Allow(w)
    PROVE  RunInv'
  <1> PICK ok \in BOOLEAN, ns \in Latencies :
        LET admitted == IF ok THEN 1 ELSE 0
        IN  /\ tally' = [tally EXCEPT ![w] =
                           [calls   |-> @.calls + 1,
                            allowed |-> @.allowed + admitted,
                            hist    |-> IF percentiles THEN observe(@.hist, ns)
                                                       ELSE @.hist]]
            /\ mallocs' = mallocs + admitted
            /\ granted' = granted + admitted
            /\ samples' = IF percentiles THEN [samples EXCEPT ![ns] = @ + 1]
                                         ELSE samples
    BY DEF Allow
  <1> DEFINE admitted == IF ok THEN 1 ELSE 0
             old == tally[w]
             h   == IF percentiles THEN observe(old.hist, ns) ELSE old.hist
             new == [calls |-> old.calls + 1, allowed |-> old.allowed + admitted, hist |-> h]
  <1>1. /\ worker[w] = "calling" /\ served' = served + 1
        /\ late' = IF stop THEN [late EXCEPT ![w] = @ + 1] ELSE late
        /\ worker' = [worker EXCEPT ![w] = "checking"]
        /\ UNCHANGED <<control, workers, overhead>>
    BY DEF Allow
  <1>2. /\ tally' = [tally EXCEPT ![w] = new]
        /\ mallocs' = mallocs + admitted /\ granted' = granted + admitted
        /\ samples' \in [Latencies -> Nat]
    BY DEF RunInv, RunTypeOK
  <1>3. admitted \in {0, 1}
    OBVIOUS
  <1>4. /\ old \in Tally /\ old.calls \in Nat /\ old.allowed \in Nat /\ old.hist \in Hist
        /\ tally \in [Workers -> Tally] /\ late \in [Workers -> Nat]
        /\ worker \in [Workers -> {"unborn", "parked", "checking", "calling",
                                   "reporting", "leaving", "done"}]
        /\ served \in Nat /\ granted \in Nat /\ granted <= served
        /\ mallocs \in Nat /\ m0 \in Nat /\ m0 <= mallocs /\ MaxCalls \in Nat
    BY RunnerAssumption DEF RunInv, RunTypeOK, Tally
  <1>5. /\ h \in Hist
        /\ Count(h, Buckets - 1) = IF percentiles THEN old.calls + 1 ELSE 0
    BY <1>4, ObserveCounts DEF RunInv, WorkerOK
  <1> HIDE DEF admitted, h
  <1>6. new \in Tally
    BY <1>3, <1>4, <1>5 DEF Tally
  <1>7. driver # "returned" /\ gate
    BY <1>1, WorkBefore DEF RunInv, RunTypeOK
  <1>8. driver # "spawning"
    BY <1>7 DEF RunInv
  <1>9. InCall' = InCall \ {w} /\ Started' = Started /\ w \in InCall
    BY <1>1, <1>4 DEF InCall, Started
  <1>10. (served + Cardinality(InCall) <= MaxCalls)' /\ served' <= MaxCalls
    <2>1. Cardinality(InCall') = Cardinality(InCall) - 1 /\ Cardinality(InCall) \in Nat
          /\ Cardinality(InCall') \in Nat
      BY <1>9, FiniteParts, FS_RemoveElement, FS_CardinalityType
    <2>2. served + Cardinality(InCall) <= MaxCalls
      BY DEF RunInv
    <2> QED
      BY <1>1, <1>4, <2>1, <2>2
  <1>11. RunTypeOK'
    <2>1. tally' \in [Workers -> Tally]
      BY <1>2, <1>4, <1>6
    <2>2. late' \in [Workers -> Nat]
      BY <1>1, <1>4
    <2>3. /\ mallocs' \in Nat /\ m0 \in 0 .. mallocs'
          /\ served' \in 0 .. MaxCalls /\ granted' \in 0 .. served'
      BY <1>1, <1>2, <1>3, <1>4, <1>10
    <2> QED
      BY <1>1, <1>2, <1>4, <1>7, <2>1, <2>2, <2>3 DEF RunInv, RunTypeOK, control
  <1>12. TalliesAddUp'
    <2> DEFINE f  == [v \in Workers |-> tally[v].calls]
               g  == [v \in Workers |-> tally[v].allowed]
               f2 == [v \in Workers |-> tally'[v].calls]
               g2 == [v \in Workers |-> tally'[v].allowed]
    <2>1. /\ \A v \in Workers : f[v] \in Nat /\ g[v] \in Nat
          /\ f2[w] = f[w] + 1 /\ g2[w] = g[w] + admitted
          /\ \A v \in Workers \ {w} : f2[v] = f[v] /\ g2[v] = g[v]
      BY <1>2, <1>4 DEF Tally
    <2>2. admitted \in Nat /\ 1 \in Nat /\ IsFiniteSet(Workers)
      BY <1>3, FiniteParts
    <2>3. served = SumFunctionOnSet(f, Workers) /\ granted = SumFunctionOnSet(g, Workers)
      BY DEF RunInv, TalliesAddUp
    <2> HIDE DEF f, g, f2, g2
    <2>4. SumFunctionOnSet(f2, Workers) = SumFunctionOnSet(f, Workers) + 1
      BY <2>1, <2>2, SumBump
    <2>5. SumFunctionOnSet(g2, Workers) = SumFunctionOnSet(g, Workers) + admitted
      BY <2>1, <2>2, SumBump
    <2> QED
      BY <1>1, <1>2, <2>3, <2>4, <2>5 DEF TalliesAddUp, f2, g2
  <1>13. ASSUME NEW v \in Workers PROVE WorkerOK(v)'
    <2>1. WorkerOK(v) /\ WorkerOK(w)
      BY DEF RunInv
    <2>2. percentiles' = percentiles /\ stop' = stop /\ workers' = workers
      BY <1>1 DEF control
    <2>3. CASE v = w
      <3>1. tally'[v] = new /\ worker'[v] = "checking" /\ late[w] = 0
            /\ late'[v] = IF stop THEN 1 ELSE 0
        BY <1>1, <1>2, <1>4, <2>1, <2>3 DEF WorkerOK
      <3> QED
        BY <1>5, <2>2, <3>1 DEF WorkerOK
    <2>4. CASE v # w
      <3>1. tally'[v] = tally[v] /\ worker'[v] = worker[v] /\ late'[v] = late[v]
        BY <1>1, <1>2, <1>4, <2>4
      <3> QED
        BY <2>1, <2>2, <3>1 DEF WorkerOK
    <2> QED
      BY <2>3, <2>4
  <1>14. LoadAllocates'
    <2>1. m0' = m0 /\ percentiles' = percentiles /\ driver' = driver
          /\ overhead' = overhead
      BY <1>1 DEF control
    <2>2. mallocs = m0 + granted + (IF percentiles THEN Cardinality(Started) ELSE 0)
                       + overhead
          /\ Cardinality(Started) \in Nat /\ overhead \in Nat
      BY <1>8, FiniteParts DEF RunInv, RunTypeOK, LoadAllocates
    <2> QED
      BY <1>2, <1>3, <1>4, <1>9, <2>1, <2>2 DEF LoadAllocates
  <1> QED
    BY <1>1, <1>7, <1>10, <1>11, <1>12, <1>13, <1>14
       DEF RunInv, ReportIsExact, control

(* The driver adds up what the workers, all of them done, have handed over.*)
LEMMA CollectRunInv ==
    ASSUME RunInv, Collect
    PROVE  RunInv'
  <1> DEFINE calls   == [w \in Workers |-> workers[w].calls]
             allowed == [w \in Workers |-> workers[w].allowed]
             hists   == [w \in Workers |-> workers[w].hist]
             last    == Buckets - 1
  <1>1. /\ driver = "waiting" /\ driver' = "returned"
        /\ timer' \in {"off", "fired", "stopped"}
        /\ UNCHANGED <<percentiles, gate, stop, mallocs, m0, load, overhead>>
        /\ \A w \in Workers : worker[w] = "done"
    BY DEF Collect, Waited, RunInv, RunTypeOK
  <1>2. res' = [calls |-> SumFunctionOnSet(calls, Workers),
                allowed |-> SumFunctionOnSet(allowed, Workers),
                allocs |-> mallocs - m0, hist |-> merge(hists)]
    BY DEF Collect, Sum, SumFunction
  <1>3. \A w \in Workers : /\ workers[w] = tally[w] /\ tally[w] \in Tally
                            /\ Count(tally[w].hist, last)
                                 = IF percentiles THEN tally[w].calls ELSE 0
    BY <1>1 DEF RunInv, RunTypeOK, WorkerOK
  <1>4. IsFiniteSet(Workers)
    BY FiniteParts
  <1>5. /\ served = SumFunctionOnSet(calls, Workers)
        /\ granted = SumFunctionOnSet(allowed, Workers)
    <2>1. calls = [w \in Workers |-> tally[w].calls]
          /\ allowed = [w \in Workers |-> tally[w].allowed]
      BY <1>3
    <2> QED
      BY <2>1 DEF RunInv, TalliesAddUp
  <1>6. /\ merge(hists) \in Hist
        /\ Count(merge(hists), last) = IF percentiles THEN served ELSE 0
    <2>1. hists \in [Workers -> Hist]
      BY <1>3 DEF Tally
    <2> DEFINE counts == [w \in Workers |-> Count(hists[w], last)]
    <2>2. \A w \in Workers : counts[w] = IF percentiles THEN calls[w] ELSE 0
      BY <1>3
    <2> HIDE DEF hists, calls
    <2>3. merge(hists) \in Hist
          /\ Count(merge(hists), last) = SumFunctionOnSet(counts, Workers)
      BY <1>4, <2>1, MergeCounts, FiniteIndices
    <2> HIDE DEF counts
    <2>4. CASE percentiles
      BY <1>4, <1>5, <2>2, <2>3, <2>4, SumSame
    <2>5. CASE ~percentiles
      BY <1>4, <2>2, <2>3, <2>5, SumZero
    <2> QED
      BY <2>3, <2>4, <2>5
  <1>7. mallocs - m0 = granted + (IF percentiles THEN Cardinality(Workers) ELSE 0)
                         + overhead
        /\ mallocs - m0 \in Nat /\ served \in Nat /\ granted \in Nat
    <2>1. Started = Workers
      BY <1>1 DEF Started
    <2>2. mallocs = m0 + granted + (IF percentiles THEN Cardinality(Workers) ELSE 0)
                       + overhead
          /\ mallocs \in Nat /\ m0 \in 0 .. mallocs /\ overhead \in Nat
          /\ served \in Nat /\ granted \in Nat
      BY <1>1, <2>1, RunnerAssumption DEF RunInv, RunTypeOK, LoadAllocates
    <2> QED
      BY <2>2, FiniteParts
  <1> HIDE DEF calls, allowed, hists
  <1>8. res' \in [calls : Nat, allowed : Nat, allocs : Nat, hist : Hist]
    BY <1>2, <1>5, <1>6, <1>7
  <1>9. RunTypeOK'
    BY <1>1, <1>8 DEF RunInv, RunTypeOK, load, history
  <1>10. InCall' = InCall /\ Started' = Started
    BY <1>1 DEF InCall, Started, load
  <1>11. TalliesAddUp'
    BY <1>1 DEF RunInv, TalliesAddUp, load, history
  <1>12. ASSUME NEW v \in Workers PROVE WorkerOK(v)'
    BY <1>1 DEF RunInv, WorkerOK, load, history
  <1>13. LoadAllocates'
    BY <1>1, <1>10 DEF RunInv, LoadAllocates, load, history
  <1>14. ReportIsExact'
    BY <1>1, <1>2, <1>5, <1>6, <1>7 DEF ReportIsExact, load, history
  <1> QED
    BY <1>1, <1>9, <1>10, <1>11, <1>12, <1>13, <1>14 DEF RunInv, Waited, load, history

LEMMA NextRunInv == RunInv /\ [RunNext]_runVars => RunInv'
  <1> SUFFICES ASSUME RunInv, [RunNext]_runVars PROVE RunInv'
    OBVIOUS
  <1>1. CASE Baseline
    BY <1>1, BaselineRunInv
  <1>2. CASE Arm \/ Open \/ Fire \/ RuntimeAllocates
    BY <1>2, GateRunInv
  <1>3. CASE Collect
    BY <1>3, CollectRunInv
  <1>4. ASSUME NEW w \in Workers, Spawn(w) PROVE RunInv'
    BY <1>4, SpawnRunInv
  <1>5. ASSUME NEW w \in Workers, Work(w) PROVE RunInv'
    BY <1>5, PassRunInv, GoOnRunInv, AllowRunInv, EndRunInv DEF Work
  <1>6. CASE UNCHANGED runVars
    BY <1>6 DEF runVars, history, RunInv, RunTypeOK, InCall, Started, TalliesAddUp,
                WorkerOK, LoadAllocates, Waited, ReportIsExact
  <1> QED
    BY <1>1, <1>2, <1>3, <1>4, <1>5, <1>6 DEF RunNext, DriverStep

(* The invariant of a run holds throughout, for any number of workers.     *)
THEOREM RunInvariant == RunSpec => []RunInv
  <1> QED
    BY InitRunInv, NextRunInv, PTL DEF RunSpec

(* Types; nobody is past the gate before it opens, so nothing is measured  *)
(* before the baseline is taken (runner.go:61, 89-99).                     *)
THEOREM RunTypeCorrect == RunSpec => []RunTypeOK
  <1>1. RunInv => RunTypeOK
    BY DEF RunInv
  <1> QED
    BY <1>1, RunInvariant, PTL

(* The report accounts for every call that was answered, every admission,  *)
(* every timed sample; its allocations are those of the load, of the timer *)
(* and of the runtime since the baseline, and none of a worker's start; for*)
(* any number of workers and histogram buckets (runner.go:25-30, 45-48,    *)
(* 89-121).                                                                *)
THEOREM ReportExact == RunSpec => []ReportIsExact
  <1>1. RunInv => ReportIsExact
    BY DEF RunInv
  <1> QED
    BY <1>1, RunInvariant, PTL

(* No worker ends more than one call after the flag was raised             *)
(* (runner.go:40-43).                                                      *)
THEOREM OneLateCall == RunSpec => []OneLateCallAtMost
  <1>1. RunInv => OneLateCallAtMost
    BY DEF RunInv, WorkerOK, OneLateCallAtMost
  <1> QED
    BY <1>1, RunInvariant, PTL

(* Bucket by bucket, the tallies and then the report count every sample.   *)
SampleInv ==
    percentiles =>
        \A i \in Indices :
            /\ SumFunctionOnSet(samples, UpTo(i))
                 = SumFunctionOnSet([w \in Workers |-> Count(tally[w].hist, i)], Workers)
            /\ driver = "returned"
                 => Count(res.hist, i) = SumFunctionOnSet(samples, UpTo(i))

LEMMA InitSampleInv == RunInit => SampleInv
  <1> SUFFICES ASSUME RunInit, NEW i \in Indices
               PROVE  SumFunctionOnSet(samples, UpTo(i))
                        = SumFunctionOnSet([w \in Workers |-> Count(tally[w].hist, i)], Workers)
    BY DEF SampleInv, RunInit
  <1> DEFINE counts == [w \in Workers |-> Count(tally[w].hist, i)]
  <1>1. IsFiniteSet(UpTo(i)) /\ IsFiniteSet(Workers)
    BY RunnerAssumption, FS_Subset DEF UpTo
  <1>2. \A ns \in UpTo(i) : samples[ns] = 0
    BY DEF UpTo, RunInit
  <1>3. \A w \in Workers : counts[w] = 0
    BY EmptyCounts DEF RunInit, NoTally
  <1> HIDE DEF counts
  <1>4. SumFunctionOnSet(counts, Workers) = 0
    BY <1>1, <1>3, SumZero
  <1>5. SumFunctionOnSet(samples, UpTo(i)) = 0
    BY <1>1, <1>2, SumZero
  <1> QED
    BY <1>4, <1>5 DEF counts

LEMMA AllowSampleInv ==
    ASSUME RunInv, SampleInv, NEW w \in Workers, Allow(w)
    PROVE  SampleInv'
  <1> PICK ok \in BOOLEAN, ns \in Latencies :
        LET admitted == IF ok THEN 1 ELSE 0
        IN  /\ tally' = [tally EXCEPT ![w] =
                           [calls   |-> @.calls + 1,
                            allowed |-> @.allowed + admitted,
                            hist    |-> IF percentiles THEN observe(@.hist, ns)
                                                       ELSE @.hist]]
            /\ samples' = IF percentiles THEN [samples EXCEPT ![ns] = @ + 1]
                                         ELSE samples
    BY DEF Allow
  <1>1. worker[w] = "calling" /\ UNCHANGED control
    BY DEF Allow
  <1>2. driver' # "returned" /\ percentiles' = percentiles
    BY <1>1, WorkBefore DEF control
  <1> SUFFICES ASSUME percentiles, NEW i \in Indices
               PROVE  SumFunctionOnSet(samples', UpTo(i))
                        = SumFunctionOnSet([v \in Workers |-> Count(tally'[v].hist, i)], Workers)
    BY <1>2 DEF SampleInv
  <1>3. /\ tally \in [Workers -> Tally] /\ samples \in [Latencies -> Nat]
        /\ \A v \in Workers : tally[v].hist \in Hist
    BY DEF RunInv, RunTypeOK, Tally
  <1> DEFINE h == tally[w].hist
             g == observe(h, ns)
             d == IF Index(ns) <= i THEN 1 ELSE 0
             c  == [v \in Workers |-> Count(tally[v].hist, i)]
             c2 == [v \in Workers |-> Count(tally'[v].hist, i)]
             s2 == [samples EXCEPT ![ns] = @ + 1]
             S  == UpTo(i)
  <1>4. /\ tally'[w].hist = g /\ samples' = s2
        /\ \A v \in Workers \ {w} : tally'[v] = tally[v]
    BY <1>3
  <1>5. Count(g, i) = Count(h, i) + d /\ d \in Nat
    BY <1>3, ObserveCounts
  <1>6. IsFiniteSet(S) /\ IsFiniteSet(Workers) /\ S \subseteq Latencies
    BY RunnerAssumption, FS_Subset DEF UpTo
  <1>7. \A v \in Workers : c[v] \in Nat
    <2>1. IsFiniteSet(0 .. i) /\ (0 .. i) \subseteq Indices
      BY FiniteIndices
    <2>2. ASSUME NEW k \in Hist PROVE Count(k, i) \in Nat
      <3> DEFINE T == 0 .. i
      <3>1. IsFiniteSet(T) /\ \A j \in T : k[j] \in Nat
        BY <2>1 DEF Hist
      <3> HIDE DEF T
      <3>2. SumFunctionOnSet(k, T) \in Nat
        BY <3>1, SumNat
      <3> QED
        BY <3>2 DEF Count, T
    <2> QED
      BY <1>3, <2>2
  <1>8. SumFunctionOnSet(c2, Workers) = SumFunctionOnSet(c, Workers) + d
    <2>1. c2[w] = c[w] + d /\ \A v \in Workers \ {w} : c2[v] = c[v]
      BY <1>4, <1>5
    <2> HIDE DEF c, c2, d
    <2> QED
      BY <1>5, <1>6, <1>7, <2>1, SumBump
  <1>9. SumFunctionOnSet(s2, S) = SumFunctionOnSet(samples, S) + d
    <2>1. /\ \A x \in S : samples[x] \in Nat
          /\ s2[ns] = samples[ns] + 1 /\ \A x \in Latencies \ {ns} : s2[x] = samples[x]
      BY <1>3, <1>6
    <2>2. ns \in S <=> Index(ns) <= i
      BY DEF UpTo
    <2> HIDE DEF S, s2
    <2>3. CASE ns \in S
      <3>1. d = 1 /\ 1 \in Nat
        BY <2>2, <2>3
      <3>2. \A x \in S \ {ns} : s2[x] = samples[x]
        BY <1>6, <2>1
      <3> HIDE DEF d
      <3>3. SumFunctionOnSet(s2, S) = SumFunctionOnSet(samples, S) + 1
        BY <1>6, <2>1, <2>3, <3>1, <3>2, SumBump
      <3> QED
        BY <3>1, <3>3
    <2>4. CASE ns \notin S
      <3>1. d = 0
        BY <2>2, <2>4
      <3>2. \A x \in S : s2[x] = samples[x]
        BY <1>6, <2>1, <2>4
      <3> HIDE DEF d
      <3>3. SumFunctionOnSet(s2, S) = SumFunctionOnSet(samples, S)
        BY <1>6, <3>2, SumSame
      <3>4. SumFunctionOnSet(samples, S) \in Nat
        BY <1>6, <2>1, SumNat
      <3> QED
        BY <3>1, <3>3, <3>4
    <2> QED
      BY <2>3, <2>4
  <1>10. SumFunctionOnSet(samples, S) = SumFunctionOnSet(c, Workers)
    BY DEF SampleInv
  <1> QED
    BY <1>4, <1>8, <1>9, <1>10

LEMMA CollectSampleInv ==
    ASSUME RunInv, SampleInv, Collect
    PROVE  SampleInv'
  <1> DEFINE hists == [w \in Workers |-> workers[w].hist]
  <1>1. /\ driver = "waiting" /\ UNCHANGED <<percentiles, load>>
        /\ \A w \in Workers : worker[w] = "done"
        /\ res'.hist = merge(hists)
    BY DEF Collect, Waited
  <1>2. tally' = tally /\ samples' = samples
    BY <1>1 DEF load, history
  <1>3. \A w \in Workers : workers[w] = tally[w] /\ tally[w].hist \in Hist
    BY <1>1 DEF RunInv, RunTypeOK, WorkerOK, Tally
  <1>4. hists = [w \in Workers |-> tally[w].hist] /\ hists \in [Workers -> Hist]
    BY <1>3
  <1>5. IsFiniteSet(Workers)
    BY FiniteParts
  <1>6. ASSUME NEW i \in Indices
        PROVE  Count(merge(hists), i)
                 = SumFunctionOnSet([w \in Workers |-> Count(tally[w].hist, i)], Workers)
    <2>1. [w \in Workers |-> Count(hists[w], i)] = [w \in Workers |-> Count(tally[w].hist, i)]
      BY <1>4
    <2> HIDE DEF hists
    <2>2. Count(merge(hists), i)
            = SumFunctionOnSet([w \in Workers |-> Count(hists[w], i)], Workers)
      BY <1>4, <1>5, MergeCounts
    <2> QED
      BY <2>1, <2>2
  <1> HIDE DEF hists
  <1> QED
    BY <1>1, <1>2, <1>6 DEF SampleInv

LEMMA NextSampleInv == RunInv /\ SampleInv /\ [RunNext]_runVars => SampleInv'
  <1> SUFFICES ASSUME RunInv, SampleInv, [RunNext]_runVars PROVE SampleInv'
    OBVIOUS
  <1>1. CASE UNCHANGED <<percentiles, tally, samples, res>>
             /\ (driver' = "returned" => driver = "returned")
    BY <1>1 DEF SampleInv
  <1>2. CASE Baseline \/ Arm \/ Open \/ Fire \/ RuntimeAllocates
    BY <1>1, <1>2 DEF Baseline, Arm, Open, Fire, RuntimeAllocates, load, control
  <1>3. CASE Collect
    BY <1>3, CollectSampleInv
  <1>4. ASSUME NEW w \in Workers, Allow(w) PROVE SampleInv'
    BY <1>4, AllowSampleInv
  <1>5. ASSUME NEW w \in Workers,
               Spawn(w) \/ Pass(w) \/ GoOn(w) \/ Leave(w) \/ Report(w) \/ Done(w)
        PROVE  SampleInv'
    BY <1>1, <1>5 DEF Spawn, Pass, GoOn, Leave, Report, Done, control, history
  <1>6. CASE UNCHANGED runVars
    BY <1>1, <1>6 DEF runVars, history
  <1> QED
    BY <1>2, <1>3, <1>4, <1>5, <1>6 DEF RunNext, DriverStep, Work

LEMMA ReportedQuantile ==
    ASSUME RunInv, SampleInv, driver = "returned", percentiles, served > 0,
           NEW q \in Quantiles
    PROVE  LET exact == Sample(Rank(q, served))
           IN  exact \in Latencies /\ quantile(res.hist, q) = bucketUpper(Index(exact))
  <1> DEFINE h     == res.hist
             rank  == Rank(q, served)
             exact == Sample(rank)
  <1>1. h \in Hist /\ samples \in [Latencies -> Nat] /\ served \in Nat \ {0}
    BY DEF RunInv, RunTypeOK
  <1>2. Count(h, Buckets - 1) = served
    BY DEF RunInv, ReportIsExact
  <1>3. \A i \in Indices : Count(h, i) = SumFunctionOnSet(samples, UpTo(i))
    BY DEF SampleInv
  <1>4. SumFunctionOnSet(samples, Latencies) = served
    <2>1. UpTo(Buckets - 1) = Latencies
      <3>1. \A ns \in Latencies : Index(ns) <= Buckets - 1
        BY IndexOf, HistAssumption DEF Indices
      <3> QED
        BY <3>1 DEF UpTo
    <2> QED
      BY <1>2, <1>3, <2>1, FiniteIndices
  <1>5. rank \in Nat \ {0} /\ rank <= served
    <2>1. rank \in 1 .. served
      BY <1>1, RankInRange
    <2> HIDE DEF rank
    <2> QED
      BY <1>1, <2>1
  <1>6. exact = Min({ns \in Latencies :
                       SumFunctionOnSet(samples, {l \in Latencies : l <= ns}) >= rank})
    BY DEF Sample
  <1>7. quantile(h, q) = bucketUpper(Min({i \in Indices : Count(h, i) >= rank}))
    BY <1>1, <1>2 DEF quantile
  <1> HIDE DEF h, rank, exact
  <1>8. exact \in Latencies /\ Min({i \in Indices : Count(h, i) >= rank}) = Index(exact)
    BY <1>1, <1>3, <1>4, <1>5, <1>6, BucketOfRank
  <1> QED
    BY <1>7, <1>8 DEF h, rank, exact

(* A reported percentile is never below the true one and less than twice   *)
(* it, over all workers (report.go:61-67, 106-133), for any latencies that *)
(* fit the buckets.                                                        *)
THEOREM QuantileExact == RunSpec => []QuantileWithinFactorTwo
  <1>1. RunInv /\ SampleInv => QuantileWithinFactorTwo
    <2> SUFFICES ASSUME RunInv, SampleInv, driver = "returned", percentiles, served > 0,
                        NEW q \in Quantiles
                 PROVE  LET exact == Sample(Rank(q, served))
                        IN  /\ exact <= quantile(res.hist, q)
                            /\ exact > 0 => quantile(res.hist, q) < 2 * exact
                            /\ exact = 0 => quantile(res.hist, q) = 0
      BY DEF QuantileWithinFactorTwo, Quantiles
    <2> DEFINE exact == Sample(Rank(q, served))
    <2>1. exact \in Latencies /\ quantile(res.hist, q) = bucketUpper(Index(exact))
      BY ReportedQuantile
    <2> HIDE DEF exact
    <2>2. /\ exact <= quantile(res.hist, q)
          /\ exact > 0 => quantile(res.hist, q) < 2 * exact
          /\ exact = 0 => quantile(res.hist, q) = 0
      BY <2>1, UpperOf
    <2> QED
      BY <2>2 DEF exact
  <1>2. RunSpec => []SampleInv
    BY InitSampleInv, NextSampleInv, RunInvariant, PTL DEF RunSpec
  <1> QED
    BY <1>1, <1>2, RunInvariant, PTL

--------------------------------------------------------------------------------
(* The command line: from here on, BenchConfig and BenchReport.            *)
Row     == [text : Algos, denied : BOOLEAN]
AnyLine == Row \cup {Line(t) : t \in {"note", "warning", "context", "header", "separator"}}

(* What has been let through and is yet to be made does not panic.         *)
ConfigInv ==
    /\ phase = "parsing" => algos = Expand(args.algo)
    /\ phase = "converting" => ~Refused /\ Wanted("atomic")
    /\ phase \in {"making", "driving"} /\ Wanted("atomic")
          => args.rate = NaN \/ ~AtomicPanics(args.rate, args.capacity)
    /\ phase = "driving" => algos # <<>> /\ lim.algo = Head(algos)

(* What has been written and what is still to be written make up the table,*)
(* or the lines that precede the tabwriter's share of it.                  *)
ReportInv ==
    /\ phase \notin {"writing", "flushing", "rendered", "failed"}
          => out = <<>> /\ todo = <<>>
    /\ phase = "writing" => out \o todo = IF form.markdown THEN Table ELSE Preamble
    /\ phase = "flushing" => out \o todo = Table /\ ~form.markdown
    /\ phase = "failed" => out \o todo \in {Table, Preamble}
    /\ phase = "rendered" => out = Table

BenchInv ==
    /\ TypeOK
    /\ algos \in Seq(Algos) /\ rows \in Seq(Row)
    /\ out \in Seq(AnyLine) /\ todo \in Seq(AnyLine)
    /\ NumbersNeverPanic
    /\ RefusalsAreNeeded
    /\ ConfigInv
    /\ ReportInv

LEMMA ConfigSizes ==
    /\ MaxSpan \in Nat /\ MaxSpan > 1 /\ Denom \in Nat \ {0} /\ Second \in Nat \ {0}
    /\ MaxInt \in Nat /\ MaxInt > MaxSpan /\ MinInt \in Int /\ MinInt < 0
    /\ \A c \in Capacities : c \in Int /\ MinInt <= c /\ c <= MaxInt
    /\ Inf \notin Int /\ NaN \notin Int /\ Inf # NaN
    /\ \A r \in Rates : r \in Int \/ r = Inf \/ r = NaN
    /\ \A word \in OutOfRange : /\ word \in Int /\ MinInt <= word /\ word <= MaxInt
                                /\ word < 0 \/ word > MaxSpan
  BY ConfigAssumption, ConversionAssumption DEF MaxInt, MinInt

(* A positive rate has a period that is a natural number.                  *)
LEMMA PeriodNat ==
    ASSUME NEW r \in Int, r > 0
    PROVE  Period(r) \in Nat
  <1>1. Second * Denom \in Nat
    BY ConfigSizes
  <1> DEFINE a == 2 * Second * Denom + r
             b == 2 * r
  <1>2. a \in Nat /\ b \in Nat \ {0}
    <2>1. 2 * Second * Denom = 2 * (Second * Denom)
      BY ConfigSizes
    <2> QED
      BY <1>1, <2>1
  <1>3. Period(r) = a \div b
    BY ConfigSizes DEF Period
  <1> HIDE DEF a, b
  <1> QED
    BY <1>2, <1>3

(* Where a period that does not fit is converted to no word that could be  *)
(* one, the check of the span divides by no zero and lets a capacity       *)
(* through just when the constructor does.                                 *)
LEMMA SpanChecked ==
    ASSUME NEW r \in Int, r > 0, Period(r) >= 1, NEW nanos \in ToInt(Period(r)),
           NEW c \in Int, c >= 1
    PROVE  /\ nanos # 0
           /\ (c > Quotient(MaxSpan, nanos)) <=> AtomicPanics(r, c)
  <1> DEFINE P == Period(r)
  <1>1. P \in Nat /\ P >= 1 /\ P # NaN /\ P # Inf /\ IsNumber(P)
    BY PeriodNat, ConfigSizes DEF IsNumber
  <1>2. AtomicPanics(r, c) <=> P > MaxSpan \/ c > MaxSpan \div P
    BY <1>1, ConfigSizes DEF AtomicPanics, NotPositive, PeriodBelow, PeriodAbove
  <1> HIDE DEF P
  <1>3. CASE P <= MaxInt
    <2>1. nanos = P
      BY <1>1, <1>3, ConfigSizes DEF ToInt, P
    <2>2. Quotient(MaxSpan, nanos) = MaxSpan \div P
      BY <1>1, <2>1 DEF Quotient
    <2>3. P > MaxSpan => MaxSpan \div P = 0
      BY <1>1, ConfigSizes
    <2> QED
      BY <1>1, <1>2, <2>1, <2>2, <2>3
  <1>4. CASE P > MaxInt
    <2>1. nanos \in Int /\ (nanos < 0 \/ nanos > MaxSpan)
      BY <1>1, <1>4, ConfigSizes DEF ToInt, P
    <2>2. CASE nanos > MaxSpan
      <3>1. MaxSpan \div nanos = 0
        BY <2>1, <2>2, ConfigSizes
      <3>2. Quotient(MaxSpan, nanos) = 0
        BY <2>1, <2>2, <3>1, ConfigSizes DEF Quotient
      <3> QED
        BY <1>1, <1>2, <1>4, <2>1, <2>2, <3>2, ConfigSizes
    <2>3. CASE nanos < 0
      <3> DEFINE b == -nanos
      <3>1. b \in Nat /\ b > 0
        BY <2>1, <2>3
      <3> HIDE DEF b
      <3>2. MaxSpan \div b \in Nat
        BY <3>1, ConfigSizes
      <3>3. Quotient(MaxSpan, nanos) = -(MaxSpan \div b)
        BY <2>1, <2>3, ConfigSizes DEF Quotient, b
      <3> QED
        BY <1>1, <1>2, <1>4, <2>3, <3>2, <3>3, ConfigSizes
    <2> QED
      BY <2>1, <2>2, <2>3
  <1> QED
    BY <1>1, <1>3, <1>4, ConfigSizes

(* A rate that the sliding window is refused for has no limit that fits.   *)
LEMMA LimitRefused ==
    ASSUME NEW r \in Rates, ~NotPositive(r), BelowOne(r) \/ BeyondInt(r)
    PROVE  Truncated(r) \notin 1 .. MaxInt
  <1>1. CASE r \notin Int
    BY <1>1, ConfigSizes DEF Truncated, IsNumber
  <1>2. CASE r \in Int
    <2>1. r > 0 /\ IsNumber(r) /\ Truncated(r) = r \div Denom
      BY <1>2, ConfigSizes DEF NotPositive, IsNumber, Truncated
    <2>2. CASE BelowOne(r)
      <3>1. r \div Denom = 0
        BY <1>2, <2>1, <2>2, ConfigSizes DEF BelowOne
      <3> QED
        BY <2>1, <3>1
    <2>3. CASE BeyondInt(r)
      <3>1. r > (MaxInt + 1) * Denom
        BY <1>2, <2>3, ConfigSizes DEF BeyondInt
      <3>2. ASSUME NEW q \in Int, q = r \div Denom PROVE q > MaxInt
        <4>1. r < (q + 1) * Denom
          BY <1>2, <3>2, ConfigSizes
        <4>2. (MaxInt + 1) * Denom < (q + 1) * Denom
          BY <1>2, <3>1, <4>1, ConfigSizes
        <4> QED
          BY <4>2, ConfigSizes
      <3>3. r \div Denom \in Int
        BY <1>2, ConfigSizes
      <3> QED
        BY <2>1, <3>2, <3>3, ConfigSizes
    <2> QED
      BY <2>2, <2>3
  <1> QED
    BY <1>1, <1>2

(* A converted float is a word.                                            *)
LEMMA ToIntWord ==
    ASSUME NEW x, NEW n \in ToInt(x)
    PROVE  n \in MinInt .. MaxInt
  BY ConfigSizes DEF ToInt

(* The algorithms are the five of AllAlgos, alone or all of them.          *)
LEMMA AlgosAre ==
    /\ \A a \in Algos \cup {"all", "unknown"} : Expand(a) \in Seq(Algos)
    /\ \A a \in {"token", "sliding", "leaky", "lockfree", "atomic"} : a \in Algos
    /\ Algos \subseteq {"token", "sliding", "leaky", "lockfree", "atomic"}
  <1>1. DOMAIN AllAlgos = 1 .. 5
    BY DEF AllAlgos
  <1>2. Algos = {"token", "sliding", "leaky", "lockfree", "atomic"}
    <2>1. /\ AllAlgos[1] = "token" /\ AllAlgos[2] = "sliding" /\ AllAlgos[3] = "leaky"
          /\ AllAlgos[4] = "lockfree" /\ AllAlgos[5] = "atomic"
      BY DEF AllAlgos
    <2>2. 1 .. 5 = {1, 2, 3, 4, 5}
      OBVIOUS
    <2>3. Algos = {AllAlgos[i] : i \in {1, 2, 3, 4, 5}}
      BY <1>1, <2>2 DEF Algos
    <2> HIDE DEF AllAlgos
    <2> QED
      BY <2>1, <2>3, Zenon
  <1>3. AllAlgos \in Seq(Algos)
    BY <1>2 DEF AllAlgos
  <1> QED
    BY <1>2, <1>3 DEF Expand

(* Until a report begins, its variables stay as they are.                  *)
LEMMA NoReport ==
    ASSUME BenchInv, UNCHANGED <<form, todo, out>>,
           phase \notin {"writing", "flushing", "rendered", "failed"},
           phase' \notin {"writing", "flushing", "rendered", "failed"}
    PROVE  ReportInv' /\ (out \in Seq(AnyLine) /\ todo \in Seq(AnyLine))'
  BY DEF BenchInv, ReportInv

(* Nor do the configuration and the rows.                                  *)
LEMMA NoConfig ==
    ASSUME BenchInv, UNCHANGED <<args, algos, lim, form, rows>>,
           phase' \in {"helped", "refused", "panicked", "writing", "flushing", "rendered",
                       "failed", "converting", "making", "driving"}
    PROVE  TypeOK' /\ (algos \in Seq(Algos) /\ rows \in Seq(Row))'
  BY DEF BenchInv, TypeOK

LEMMA ArgTypes ==
    ASSUME TypeOK
    PROVE  /\ args.rate \in Rates /\ args.capacity \in Capacities
           /\ args.algo \in Algos \cup {"all", "unknown"}
           /\ args.capacity \in MinInt .. MaxInt
  BY ConfigSizes DEF TypeOK, CommandLine

LEMMA InitBenchInv == Init => BenchInv
  <1> SUFFICES ASSUME Init PROVE BenchInv
    OBVIOUS
  <1> USE DEF Init, ReportInit
  <1>1. algos \in Seq(Algos) /\ algos = Expand(args.algo)
    BY AlgosAre DEF CommandLine
  <1>2. [i \in DOMAIN rows |-> rows[i].text] \o algos = algos
    <2>1. [i \in DOMAIN rows |-> rows[i].text] = <<>>
      OBVIOUS
    <2> QED
      BY <1>1, <2>1, ConcatEmptySeq
  <1>3. 0 \in MinInt .. MaxInt
    BY ConfigSizes
  <1>4. TypeOK
    BY <1>1, <1>2, <1>3 DEF TypeOK
  <1> QED
    BY <1>1, <1>4 DEF BenchInv, NumbersNeverPanic, RefusalsAreNeeded, ConfigInv, ReportInv

LEMMA HelpInv == BenchInv /\ Help => BenchInv'
  <1> SUFFICES ASSUME BenchInv, Help PROVE BenchInv'
    OBVIOUS
  <1>1. ReportInv' /\ (out \in Seq(AnyLine) /\ todo \in Seq(AnyLine))'
    BY NoReport DEF Help, report
  <1>2. TypeOK' /\ (algos \in Seq(Algos) /\ rows \in Seq(Row))'
    BY NoConfig DEF Help, report
  <1> QED
    BY <1>1, <1>2 DEF BenchInv, Help, NumbersNeverPanic, RefusalsAreNeeded, ConfigInv

LEMMA RefuseInv == BenchInv /\ Refuse => BenchInv'
  <1> SUFFICES ASSUME BenchInv, Refuse PROVE BenchInv'
    OBVIOUS
  <1>1. ReportInv' /\ (out \in Seq(AnyLine) /\ todo \in Seq(AnyLine))'
    BY NoReport DEF Refuse, report
  <1>2. TypeOK' /\ (algos \in Seq(Algos) /\ rows \in Seq(Row))'
    BY NoConfig DEF Refuse, report
  <1>3. args.rate \in Rates
    BY ArgTypes DEF BenchInv
  <1>4. /\ UNCHANGED <<args, algos>>
        /\ BadFlags \/ SlidingRefuses \/ AtomicRefuses
    BY DEF Refuse, Refused
  <1>5. \/ BadFlags
        \/ Wanted("sliding") /\ Truncated(args.rate) \notin 1..MaxInt
        \/ Wanted("atomic") /\ AtomicPanics(args.rate, args.capacity)
    BY <1>3, <1>4, LimitRefused DEF BadFlags, SlidingRefuses, AtomicRefuses, AtomicPanics
  <1>6. RefusalsAreNeeded'
    BY <1>4, <1>5 DEF RefusalsAreNeeded, BadFlags, Wanted
  <1> QED
    BY <1>1, <1>2, <1>6 DEF BenchInv, Refuse, NumbersNeverPanic, ConfigInv

LEMMA AcceptInv == BenchInv /\ Accept => BenchInv'
  <1> SUFFICES ASSUME BenchInv, Accept PROVE BenchInv'
    OBVIOUS
  <1>1. ReportInv' /\ (out \in Seq(AnyLine) /\ todo \in Seq(AnyLine))'
    BY NoReport DEF Accept, report
  <1>2. TypeOK' /\ (algos \in Seq(Algos) /\ rows \in Seq(Row))'
    BY NoConfig DEF Accept, report
  <1>3. UNCHANGED <<args, algos>> /\ ~Refused
        /\ phase' = IF Wanted("atomic") THEN "converting" ELSE "making"
    BY DEF Accept
  <1>4. (Wanted("atomic"))' = Wanted("atomic") /\ Refused' = Refused
    BY <1>3 DEF Wanted, Refused, BadFlags, SlidingRefuses, AtomicRefuses
  <1>5. ConfigInv'
    BY <1>3, <1>4 DEF ConfigInv
  <1> QED
    BY <1>1, <1>2, <1>3, <1>5 DEF BenchInv, NumbersNeverPanic, RefusalsAreNeeded

LEMMA CheckSpanInv == BenchInv /\ CheckSpan => BenchInv'
  <1> SUFFICES ASSUME BenchInv, CheckSpan PROVE BenchInv'
    OBVIOUS
  <1>1. ReportInv' /\ (out \in Seq(AnyLine) /\ todo \in Seq(AnyLine))'
    BY NoReport DEF CheckSpan, report
  <1>2. TypeOK' /\ (algos \in Seq(Algos) /\ rows \in Seq(Row))'
    BY NoConfig DEF CheckSpan, report
  <1>3. PICK nanos \in ToInt(Period(args.rate)) :
            phase' = IF nanos = 0 THEN "panicked"
                     ELSE IF TooWide(nanos) THEN "refused" ELSE "making"
    BY DEF CheckSpan
  <1>4. ~Refused /\ Wanted("atomic") /\ UNCHANGED <<args, algos>>
    BY DEF CheckSpan, BenchInv, ConfigInv
  <1>5. (Wanted("atomic"))' = Wanted("atomic")
    BY <1>4 DEF Wanted
  <1> DEFINE r == args.rate
             c == args.capacity
  <1>6. r \in Rates /\ c \in Int /\ c >= 1
    BY <1>4, ArgTypes DEF BenchInv, Refused, BadFlags
  <1>7. r # NaN => nanos # 0 /\ (TooWide(nanos) <=> AtomicPanics(r, c))
    <2>1. SUFFICES ASSUME r # NaN
                   PROVE  nanos # 0 /\ (TooWide(nanos) <=> AtomicPanics(r, c))
      OBVIOUS
    <2>2. ~NotPositive(r) /\ ~(Period(r) < 1)
      BY <1>4, <2>1 DEF Refused, BadFlags, AtomicRefuses, PeriodBelow
    <2>3. r # Inf
      BY <1>6, <2>1, <2>2 DEF Period
    <2>4. r \in Int /\ r > 0
      BY <1>6, <2>1, <2>2, <2>3, ConfigSizes DEF NotPositive, IsNumber
    <2>5. Period(r) >= 1
      BY <2>2, <2>4, PeriodNat
    <2> QED
      BY <1>3, <1>6, <2>4, <2>5, SpanChecked DEF TooWide
  <1>8. NumbersNeverPanic'
    BY <1>3, <1>4, <1>7 DEF NumbersNeverPanic
  <1>9. r = NaN => AtomicPanics(r, c)
    BY DEF AtomicPanics
  <1>10. RefusalsAreNeeded'
    BY <1>3, <1>4, <1>5, <1>7, <1>9 DEF RefusalsAreNeeded
  <1>11. ConfigInv'
    BY <1>3, <1>4, <1>5, <1>7 DEF ConfigInv
  <1> QED
    BY <1>1, <1>2, <1>8, <1>10, <1>11 DEF BenchInv

LEMMA MakeSlidingInv == BenchInv /\ MakeSliding => BenchInv'
  <1> SUFFICES ASSUME BenchInv, MakeSliding PROVE BenchInv'
    OBVIOUS
  <1>1. ReportInv' /\ (out \in Seq(AnyLine) /\ todo \in Seq(AnyLine))'
    BY NoReport DEF MakeSliding, report
  <1>2. lim' \in [algo : Algos \cup {"none"}, limit : MinInt..MaxInt]
    BY ToIntWord, AlgosAre DEF MakeSliding
  <1>3. TypeOK' /\ (algos \in Seq(Algos) /\ rows \in Seq(Row))'
    BY <1>2 DEF MakeSliding, report, BenchInv, TypeOK
  <1>4. /\ UNCHANGED <<args, algos>> /\ phase = "making" /\ phase' = "driving"
        /\ algos # <<>> /\ lim'.algo = Head(algos)
    BY DEF MakeSliding
  <1>5. ConfigInv'
    BY <1>4 DEF BenchInv, ConfigInv, Wanted
  <1> QED
    BY <1>1, <1>3, <1>4, <1>5 DEF BenchInv, NumbersNeverPanic, RefusalsAreNeeded

(* The constructor of the atomic bucket gets what has passed the checks.   *)
LEMMA MakeAtomicInv == BenchInv /\ MakeAtomic => BenchInv'
  <1> SUFFICES ASSUME BenchInv, MakeAtomic PROVE BenchInv'
    OBVIOUS
  <1>1. phase' \in {"panicked", "driving"}
    BY DEF MakeAtomic
  <1>2. ReportInv' /\ (out \in Seq(AnyLine) /\ todo \in Seq(AnyLine))'
    BY <1>1, NoReport DEF MakeAtomic, report
  <1>3. /\ UNCHANGED <<args, algos>> /\ phase = "making"
        /\ algos # <<>> /\ Head(algos) = "atomic"
    BY DEF MakeAtomic
  <1>4. Wanted("atomic")
    <2>1. algos \in Seq(Algos)
      BY DEF BenchInv
    <2>2. 1 \in DOMAIN algos /\ algos[1] = "atomic"
      BY <1>3, <2>1
    <2> QED
      BY <2>2 DEF Wanted
  <1>5. args.rate = NaN \/ ~AtomicPanics(args.rate, args.capacity)
    BY <1>3, <1>4 DEF BenchInv, ConfigInv
  <1>6. NumbersNeverPanic'
    BY <1>3, <1>5 DEF MakeAtomic, NumbersNeverPanic
  <1>7. lim' \in [algo : Algos \cup {"none"}, limit : MinInt..MaxInt]
    <2>1. lim \in [algo : Algos \cup {"none"}, limit : MinInt..MaxInt]
      BY DEF BenchInv, TypeOK
    <2>2. args.capacity \in MinInt .. MaxInt /\ "atomic" \in Algos
      BY ArgTypes, AlgosAre DEF BenchInv
    <2>3. lim' \in {lim, [algo |-> "atomic", limit |-> args.capacity]}
      BY DEF MakeAtomic
    <2> QED
      BY <2>1, <2>2, <2>3
  <1>8. TypeOK' /\ (algos \in Seq(Algos) /\ rows \in Seq(Row))'
    BY <1>1, <1>7 DEF MakeAtomic, report, BenchInv, TypeOK
  <1>9. phase' = "driving" => lim'.algo = Head(algos)
    BY <1>3 DEF MakeAtomic
  <1>10. ConfigInv'
    BY <1>1, <1>3, <1>9 DEF BenchInv, ConfigInv, Wanted
  <1> QED
    BY <1>1, <1>2, <1>6, <1>8, <1>10 DEF BenchInv, RefusalsAreNeeded

LEMMA MakeAnyInv == BenchInv /\ MakeAny => BenchInv'
  <1> SUFFICES ASSUME BenchInv, MakeAny PROVE BenchInv'
    OBVIOUS
  <1>1. ReportInv' /\ (out \in Seq(AnyLine) /\ todo \in Seq(AnyLine))'
    BY NoReport DEF MakeAny, report
  <1>2. Head(algos) \in Algos
    BY HeadTailProperties DEF MakeAny, BenchInv
  <1>3. lim' \in [algo : Algos \cup {"none"}, limit : MinInt..MaxInt]
    BY <1>2, ArgTypes DEF MakeAny, BenchInv
  <1>4. TypeOK' /\ (algos \in Seq(Algos) /\ rows \in Seq(Row))'
    BY <1>3 DEF MakeAny, report, BenchInv, TypeOK
  <1>5. /\ UNCHANGED <<args, algos>> /\ phase = "making" /\ phase' = "driving"
        /\ algos # <<>> /\ lim'.algo = Head(algos)
    BY DEF MakeAny
  <1>6. ConfigInv'
    BY <1>5 DEF BenchInv, ConfigInv, Wanted
  <1> QED
    BY <1>1, <1>4, <1>5, <1>6 DEF BenchInv, NumbersNeverPanic, RefusalsAreNeeded

(* The head of one sequence goes to the end of another.                    *)
LEMMA MoveHead ==
    ASSUME NEW S, NEW s \in Seq(S), NEW t \in Seq(S), t # <<>>
    PROVE  /\ Append(s, Head(t)) \in Seq(S) /\ Tail(t) \in Seq(S)
           /\ Append(s, Head(t)) \o Tail(t) = s \o t
  <1> DEFINE h == Head(t)
  <1>1. h \in S /\ Tail(t) \in Seq(S) /\ <<h>> \in Seq(S)
    BY HeadTailProperties
  <1>2. <<h>> \o Tail(t) = t
    <2>1. Len(t) \in Nat \ {0} /\ h = t[1]
      BY EmptySeq
    <2>2. SubSeq(t, 1, Len(t)) = <<t[1]>> \o SubSeq(t, 1 + 1, Len(t))
      BY <2>1, SubSeqRecursiveFirst
    <2>3. SubSeq(t, 1, Len(t)) = t /\ Tail(t) = SubSeq(t, 2, Len(t))
      BY SubSeqFull, TailIsSubSeq
    <2> QED
      BY <2>1, <2>2, <2>3
  <1>3. Append(s, h) = s \o <<h>> /\ Append(s, h) \in Seq(S)
    BY <1>1, AppendIsConcat, AppendProperties
  <1>4. (s \o <<h>>) \o Tail(t) = s \o (<<h>> \o Tail(t))
    BY <1>1, ConcatAssociative
  <1> QED
    BY <1>1, <1>2, <1>3, <1>4

(* The row of the algorithm at the head goes to the end of the rows: the   *)
(* texts of the rows and the algorithms still to come spell the same list. *)
LEMMA NextRow ==
    ASSUME NEW rs \in Seq(Row), NEW as \in Seq(Algos), as # <<>>,
           NEW row \in Row, row.text = Head(as)
    PROVE  [i \in DOMAIN Append(rs, row) |-> Append(rs, row)[i].text] \o Tail(as)
             = [i \in DOMAIN rs |-> rs[i].text] \o as
  <1> DEFINE rs2 == Append(rs, row)
             n   == Len(rs)
             t   == [i \in DOMAIN rs |-> rs[i].text]
             t2  == [i \in DOMAIN rs2 |-> rs2[i].text]
             t3  == Append(t, row.text)
  <1>1. n \in Nat /\ DOMAIN rs = 1 .. n /\ \A i \in 1 .. n : rs[i] \in Row
    BY LenProperties, ElementOfSeq
  <1>2. /\ rs2 \in Seq(Row) /\ Len(rs2) = n + 1 /\ rs2[n + 1] = row
        /\ \A i \in 1 .. n : rs2[i] = rs[i]
    BY <1>1
  <1>3. DOMAIN rs2 = 1 .. n + 1 /\ \A i \in 1 .. n + 1 : rs2[i] \in Row
    BY <1>2, LenProperties, ElementOfSeq
  <1> HIDE DEF rs2
  <1>4. \A x \in Row : x.text \in Algos
    BY DEF Row
  <1>5. t \in Seq(Algos) /\ Len(t) = n /\ \A i \in 1 .. n : t[i] = rs[i].text
    BY <1>1, <1>4
  <1>6. t2 \in Seq(Algos) /\ Len(t2) = n + 1 /\ \A i \in 1 .. n + 1 : t2[i] = rs2[i].text
    BY <1>1, <1>3, <1>4
  <1> HIDE DEF t, t2, n
  <1>7. /\ t3 \in Seq(Algos) /\ Len(t3) = n + 1
        /\ \A i \in 1 .. n : t3[i] = t[i]
        /\ t3[n + 1] = row.text
    <2>1. t \in Seq(Algos) /\ row.text \in Algos
      BY <1>4, <1>5
    <2>2. /\ Append(t, row.text) \in Seq(Algos)
          /\ Len(Append(t, row.text)) = Len(t) + 1
          /\ \A i \in 1 .. Len(t) : Append(t, row.text)[i] = t[i]
          /\ Append(t, row.text)[Len(t) + 1] = row.text
      BY <2>1, AppendProperties
    <2> QED
      BY <1>5, <2>2 DEF t3
  <1> HIDE DEF t3
  <1>8. ASSUME NEW i \in 1 .. n + 1 PROVE t2[i] = t3[i]
    <2>1. CASE i = n + 1
      BY <1>2, <1>6, <1>7, <2>1
    <2>2. CASE i # n + 1
      <3>1. i \in 1 .. n
        BY <1>1, <2>2
      <3> QED
        BY <1>2, <1>5, <1>6, <1>7, <3>1
    <2> QED
      BY <2>1, <2>2
  <1>9. t2 = t3
    BY <1>6, <1>7, <1>8, SeqEqual
  <1>10. t3 \o Tail(as) = t \o as
    BY <1>5, MoveHead DEF t3
  <1> QED
    BY <1>9, <1>10 DEF t, t2, rs2

LEMMA DriveInv == BenchInv /\ Drive => BenchInv'
  <1> SUFFICES ASSUME BenchInv, Drive PROVE BenchInv'
    OBVIOUS
  <1>1. ReportInv' /\ (out \in Seq(AnyLine) /\ todo \in Seq(AnyLine))'
    BY NoReport DEF Drive
  <1>2. /\ phase = "driving" /\ phase' = "making" /\ UNCHANGED <<args, lim, form>>
        /\ algos' = Tail(algos)
    BY DEF Drive
  <1>3. /\ algos \in Seq(Algos) /\ rows \in Seq(Row)
        /\ algos # <<>> /\ lim.algo = Head(algos)
    BY <1>2 DEF BenchInv, ConfigInv
  <1>4. PICK d \in BOOLEAN : rows' = Append(rows, [text |-> lim.algo, denied |-> d])
    BY DEF Drive, Measured
  <1> DEFINE row == [text |-> lim.algo, denied |-> d]
  <1>5. /\ Head(algos) \in Algos /\ Tail(algos) \in Seq(Algos)
        /\ Len(Tail(algos)) = Len(algos) - 1
        /\ \A i \in 1 .. Len(Tail(algos)) : Tail(algos)[i] = algos[i + 1]
    BY <1>3, HeadTailProperties
  <1>6. row \in Row /\ row.text = Head(algos) /\ rows' = Append(rows, row)
    BY <1>3, <1>4, <1>5 DEF Row
  <1> HIDE DEF row
  <1>7. rows' \in Seq(Row)
    BY <1>3, <1>6
  <1>8. [i \in DOMAIN rows' |-> rows'[i].text] \o algos'
            = [i \in DOMAIN rows |-> rows[i].text] \o algos
    BY <1>2, <1>3, <1>6, NextRow
  <1>9. TypeOK'
    BY <1>2, <1>8 DEF BenchInv, TypeOK
  <1>10. (Wanted("atomic"))' => Wanted("atomic")
    <2>1. SUFFICES ASSUME NEW i \in DOMAIN Tail(algos), Tail(algos)[i] = "atomic"
                   PROVE  Wanted("atomic")
      BY <1>2 DEF Wanted
    <2>2. i \in 1 .. Len(Tail(algos)) /\ DOMAIN algos = 1 .. Len(algos) /\ Len(algos) \in Nat
      BY <1>3, <1>5, LenProperties
    <2>3. i + 1 \in DOMAIN algos /\ algos[i + 1] = "atomic"
      BY <1>5, <2>1, <2>2
    <2> QED
      BY <2>3 DEF Wanted
  <1>11. ConfigInv'
    BY <1>2, <1>10 DEF BenchInv, ConfigInv
  <1> QED
    BY <1>1, <1>2, <1>5, <1>7, <1>9, <1>11 DEF BenchInv, NumbersNeverPanic, RefusalsAreNeeded

--------------------------------------------------------------------------------
(* The report.                                                             *)
(* What stands between the lines above the table and its rows              *)
Header == IF form.markdown THEN <<Line("header"), Line("separator")>> ELSE <<Line("header")>>

LEMMA TableLines ==
    ASSUME rows \in Seq(Row)
    PROVE  /\ Preamble \in Seq(AnyLine) /\ Header \in Seq(AnyLine)
           /\ rows \in Seq(AnyLine) /\ Header \o rows \in Seq(AnyLine)
           /\ Table = Preamble \o (Header \o rows) /\ Table \in Seq(AnyLine)
  <1>1. \A t \in {"note", "warning", "context", "header", "separator"} : Line(t) \in AnyLine
    BY DEF AnyLine
  <1>2. rows \in Seq(AnyLine)
    BY SeqMonotonic DEF AnyLine
  <1>3. Header \in Seq(AnyLine)
    BY <1>1 DEF Header
  <1>4. Preamble \in Seq(AnyLine)
    <2> DEFINE a == IF form.percentiles THEN <<Line("note")>> ELSE <<>>
               b == IF CountDenied(rows) > 0 THEN <<Line("warning")>> ELSE <<>>
               c == <<Line("context")>>
    <2>1. a \in Seq(AnyLine) /\ b \in Seq(AnyLine) /\ c \in Seq(AnyLine)
      BY <1>1
    <2>2. Preamble = a \o b \o c
      BY DEF Preamble
    <2> HIDE DEF a, b, c
    <2> QED
      BY <2>1, <2>2, ConcatProperties
  <1>5. Table = Preamble \o (Header \o rows)
    BY DEF Table, Header
  <1> QED
    BY <1>2, <1>3, <1>4, <1>5, ConcatProperties

(* While the report is written, the variables of the configuration rest.   *)
LEMMA NoWork ==
    ASSUME BenchInv, UNCHANGED <<args, algos, lim, form, rows>>,
           phase' \in {"writing", "flushing", "rendered", "failed"}
    PROVE  /\ TypeOK' /\ (algos \in Seq(Algos) /\ rows \in Seq(Row))'
           /\ NumbersNeverPanic' /\ RefusalsAreNeeded' /\ ConfigInv'
           /\ Preamble' = Preamble /\ Table' = Table
  <1>1. TypeOK' /\ (algos \in Seq(Algos) /\ rows \in Seq(Row))'
    BY NoConfig
  <1>2. Preamble' = Preamble
    BY DEF Preamble, CountDenied, Line
  <1>3. Table' = Table
    BY <1>2 DEF Table, Line
  <1> QED
    BY <1>1, <1>2, <1>3 DEF NumbersNeverPanic, RefusalsAreNeeded, ConfigInv

LEMMA RenderInv == BenchInv /\ Render => BenchInv'
  <1> SUFFICES ASSUME BenchInv, Render PROVE BenchInv'
    OBVIOUS
  <1>1. /\ phase = "making" /\ phase' = "writing" /\ out' = out
        /\ UNCHANGED <<args, algos, lim, form, rows>>
        /\ todo' = Preamble \o (IF form.markdown THEN Header \o rows ELSE <<>>)
    BY DEF Render, BeginReport, Header
  <1>2. out = <<>> /\ rows \in Seq(Row)
    BY <1>1 DEF BenchInv, ReportInv
  <1>3. /\ Preamble \in Seq(AnyLine) /\ Preamble \o <<>> = Preamble
        /\ Table = Preamble \o (Header \o rows) /\ Table \in Seq(AnyLine)
    BY <1>2, TableLines, ConcatEmptySeq
  <1>4. todo' = IF form.markdown THEN Table ELSE Preamble
    BY <1>1, <1>3
  <1>5. todo' \in Seq(AnyLine) /\ <<>> \o todo' = todo'
    BY <1>3, <1>4, ConcatEmptySeq
  <1>6. /\ TypeOK' /\ (algos \in Seq(Algos) /\ rows \in Seq(Row))'
        /\ NumbersNeverPanic' /\ RefusalsAreNeeded' /\ ConfigInv'
        /\ Preamble' = Preamble /\ Table' = Table
    BY <1>1, NoWork
  <1>7. ReportInv'
    BY <1>1, <1>2, <1>4, <1>5, <1>6 DEF ReportInv
  <1> QED
    BY <1>1, <1>5, <1>6, <1>7 DEF BenchInv

LEMMA FlushInv ==
    BenchInv /\ Flush /\ UNCHANGED <<args, algos, lim>> => BenchInv'
  <1> SUFFICES ASSUME BenchInv, Flush, UNCHANGED <<args, algos, lim>> PROVE BenchInv'
    OBVIOUS
  <1>1. /\ phase = "writing" /\ phase' = "flushing" /\ out' = out /\ ~form.markdown
        /\ UNCHANGED <<args, algos, lim, form, rows>>
        /\ todo = <<>> /\ todo' = Header \o rows
    BY DEF Flush, Header
  <1>2. out \in Seq(AnyLine) /\ rows \in Seq(Row) /\ out \o todo = Preamble
    BY <1>1 DEF BenchInv, ReportInv
  <1>3. out = Preamble
    BY <1>1, <1>2, ConcatEmptySeq
  <1>4. todo' \in Seq(AnyLine) /\ out \o todo' = Table
    BY <1>1, <1>2, <1>3, TableLines
  <1>5. /\ TypeOK' /\ (algos \in Seq(Algos) /\ rows \in Seq(Row))'
        /\ NumbersNeverPanic' /\ RefusalsAreNeeded' /\ ConfigInv'
        /\ Table' = Table
    BY <1>1, NoWork
  <1>6. ReportInv'
    BY <1>1, <1>4, <1>5 DEF ReportInv
  <1> QED
    BY <1>1, <1>4, <1>5, <1>6 DEF BenchInv

LEMMA WriteInv ==
    BenchInv /\ Write /\ UNCHANGED <<args, algos, lim>> => BenchInv'
  <1> SUFFICES ASSUME BenchInv, Write, UNCHANGED <<args, algos, lim>> PROVE BenchInv'
    OBVIOUS
  <1>1. /\ phase \in {"writing", "flushing"} /\ phase' = phase
        /\ UNCHANGED <<args, algos, lim, form, rows>>
        /\ todo # <<>> /\ out' = Append(out, Head(todo)) /\ todo' = Tail(todo)
    BY DEF Write, Writing
  <1>2. out \in Seq(AnyLine) /\ todo \in Seq(AnyLine)
    BY DEF BenchInv
  <1>3. out' \in Seq(AnyLine) /\ todo' \in Seq(AnyLine) /\ out' \o todo' = out \o todo
    BY <1>1, <1>2, MoveHead
  <1>4. /\ TypeOK' /\ (algos \in Seq(Algos) /\ rows \in Seq(Row))'
        /\ NumbersNeverPanic' /\ RefusalsAreNeeded' /\ ConfigInv'
        /\ Preamble' = Preamble /\ Table' = Table
    BY <1>1, NoWork
  <1>5. ReportInv'
    BY <1>1, <1>3, <1>4 DEF BenchInv, ReportInv
  <1> QED
    BY <1>3, <1>4, <1>5 DEF BenchInv

LEMMA WriteFailsInv ==
    BenchInv /\ WriteFails /\ UNCHANGED <<args, algos, lim>> => BenchInv'
  <1> SUFFICES ASSUME BenchInv, WriteFails, UNCHANGED <<args, algos, lim>> PROVE BenchInv'
    OBVIOUS
  <1>1. /\ phase \in {"writing", "flushing"} /\ phase' = "failed"
        /\ UNCHANGED <<args, algos, lim, form, rows, todo, out>>
    BY DEF WriteFails, Writing
  <1>2. /\ TypeOK' /\ (algos \in Seq(Algos) /\ rows \in Seq(Row))'
        /\ NumbersNeverPanic' /\ RefusalsAreNeeded' /\ ConfigInv'
        /\ Preamble' = Preamble /\ Table' = Table
    BY <1>1, NoWork
  <1>3. ReportInv'
    BY <1>1, <1>2 DEF BenchInv, ReportInv
  <1> QED
    BY <1>1, <1>2, <1>3 DEF BenchInv

LEMMA EndReportInv ==
    BenchInv /\ EndReport /\ UNCHANGED <<args, algos, lim>> => BenchInv'
  <1> SUFFICES ASSUME BenchInv, EndReport, UNCHANGED <<args, algos, lim>> PROVE BenchInv'
    OBVIOUS
  <1>1. /\ phase = (IF form.markdown THEN "writing" ELSE "flushing") /\ phase' = "rendered"
        /\ UNCHANGED <<args, algos, lim, form, rows, todo, out>> /\ todo = <<>>
    BY DEF EndReport
  <1>2. out \in Seq(AnyLine) /\ out \o todo = Table
    BY <1>1 DEF BenchInv, ReportInv
  <1>3. out = Table
    BY <1>1, <1>2, ConcatEmptySeq
  <1>4. /\ TypeOK' /\ (algos \in Seq(Algos) /\ rows \in Seq(Row))'
        /\ NumbersNeverPanic' /\ RefusalsAreNeeded' /\ ConfigInv'
        /\ Table' = Table
    BY <1>1, NoWork
  <1>5. ReportInv'
    BY <1>1, <1>3, <1>4 DEF ReportInv
  <1> QED
    BY <1>1, <1>4, <1>5 DEF BenchInv

LEMMA NextBenchInv == BenchInv /\ [Next]_vars => BenchInv'
  <1> SUFFICES ASSUME BenchInv, [Next]_vars PROVE BenchInv'
    OBVIOUS
  <1>1. CASE Help \/ Refuse \/ Accept \/ CheckSpan
    BY <1>1, HelpInv, RefuseInv, AcceptInv, CheckSpanInv
  <1>2. CASE MakeSliding \/ MakeAtomic \/ MakeAny \/ Drive
    BY <1>2, MakeSlidingInv, MakeAtomicInv, MakeAnyInv, DriveInv
  <1>3. CASE Render
    BY <1>3, RenderInv
  <1>4. CASE ReportStep /\ UNCHANGED <<args, algos, lim>>
    BY <1>4, FlushInv, WriteInv, WriteFailsInv, EndReportInv DEF ReportStep
  <1>5. CASE UNCHANGED vars
    <2>1. /\ UNCHANGED <<args, algos, lim, phase, form, rows, todo, out>>
      BY <1>5 DEF vars
    <2>2. /\ TypeOK' /\ (algos \in Seq(Algos) /\ rows \in Seq(Row))'
          /\ (out \in Seq(AnyLine) /\ todo \in Seq(AnyLine))'
      BY <2>1 DEF BenchInv, TypeOK
    <2>3. NumbersNeverPanic' /\ RefusalsAreNeeded'
      BY <2>1 DEF BenchInv, NumbersNeverPanic, RefusalsAreNeeded, BadFlags, Wanted
    <2>4. Refused' = Refused
      BY <2>1 DEF Refused, BadFlags, SlidingRefuses, AtomicRefuses, Wanted
    <2>5. ConfigInv'
      BY <2>1, <2>4 DEF BenchInv, ConfigInv, Wanted
    <2>6. Preamble' = Preamble /\ Table' = Table
      BY <2>1 DEF Preamble, CountDenied, Table, Line
    <2>7. ReportInv'
      BY <2>1, <2>6 DEF BenchInv, ReportInv
    <2> QED
      BY <2>2, <2>3, <2>5, <2>7 DEF BenchInv
  <1> QED
    BY <1>1, <1>2, <1>3, <1>4, <1>5 DEF Next

(* The invariant of the configuration and of the rendering holds           *)
(* throughout.                                                             *)
THEOREM BenchInvariant == Spec => []BenchInv
  <1>1. Init => BenchInv
    BY InitBenchInv
  <1>2. BenchInv /\ [Next]_vars => BenchInv'
    BY NextBenchInv
  <1> QED
    BY <1>1, <1>2, PTL DEF Spec

(* The variables keep their types, and rows and algorithms still to come   *)
(* always spell the list that -algo asked for (main.go:218-241).           *)
THEOREM ConfigTypeCorrect == Spec => []TypeOK
  <1>1. BenchInv => TypeOK
    BY DEF BenchInv
  <1> QED
    BY <1>1, BenchInvariant, PTL

(* Neither parseConfig nor a constructor that it lets a configuration      *)
(* through to panics, but for a rate that is no number (main.go:75-79,     *)
(* 155-160), provided that a period which fits no word is converted to a   *)
(* negative one or to one above the span (ConversionAssumption).           *)
THEOREM NeverPanics == Spec => []NumbersNeverPanic
  <1>1. BenchInv => NumbersNeverPanic
    BY DEF BenchInv
  <1> QED
    BY <1>1, BenchInvariant, PTL

(* parseConfig refuses no well-formed command line that the constructors   *)
(* would take (main.go:141-175).                                           *)
THEOREM RefusedForCause == Spec => []RefusalsAreNeeded
  <1>1. BenchInv => RefusalsAreNeeded
    BY DEF BenchInv
  <1> QED
    BY <1>1, BenchInvariant, PTL

(* What stands first in a concatenation is its beginning.                  *)
LEMMA FirstPart ==
    ASSUME NEW S, NEW s \in Seq(S), NEW t \in Seq(S)
    PROVE  s = SubSeq(s \o t, 1, Len(s))
  <1>1. CASE s = <<>>
    <2>1. SubSeq(s \o t, 1, 0) = <<>>
      BY SubSeqEmpty
    <2> QED
      BY <1>1, <2>1, EmptySeq
  <1>2. CASE s # <<>>
    <2>1. Len(s) \in Nat \ {0}
      BY <1>2, EmptySeq
    <2>2. SubSeq(s \o t, 1, Len(s)) = SubSeq(s, 1, Len(s))
      BY <2>1, SubSeqOfConcat1
    <2> QED
      BY <2>2, SubSeqFull
  <1> QED
    BY <1>1, <1>2

(* out is the beginning of the table.                                      *)
LEMMA Beginning ==
    ASSUME BenchInv
    PROVE  \E rest \in Seq(AnyLine) : out \o rest = Table
  <1>1. /\ out \in Seq(AnyLine) /\ todo \in Seq(AnyLine) /\ rows \in Seq(Row)
        /\ ReportInv
    BY DEF BenchInv
  <1>2. /\ Preamble \in Seq(AnyLine) /\ Table \in Seq(AnyLine)
        /\ Header \o rows \in Seq(AnyLine) /\ Table = Preamble \o (Header \o rows)
    BY <1>1, TableLines
  <1>3. CASE out \o todo = Table
    BY <1>1, <1>3
  <1>4. CASE out \o todo = Preamble
    <2> DEFINE lines == Header \o rows
    <2> HIDE DEF lines
    <2>1. lines \in Seq(AnyLine)
      BY <1>2 DEF lines
    <2>2. (out \o todo) \o lines = out \o (todo \o lines)
      BY <1>1, <2>1, ConcatAssociative
    <2>3. todo \o lines \in Seq(AnyLine)
      BY <1>1, <2>1, ConcatProperties
    <2> QED
      BY <1>2, <1>4, <2>2, <2>3 DEF lines
  <1>5. CASE out = <<>>
    BY <1>2, <1>5, ConcatEmptySeq
  <1>6. CASE out = Table
    BY <1>2, <1>6, ConcatEmptySeq, EmptySeq
  <1> QED
    BY <1>1, <1>3, <1>4, <1>5, <1>6 DEF ReportInv

(* Whatever has been written is the beginning of the table, and a report   *)
(* that ends without an error is the whole of it (main.go:218-241,         *)
(* report.go:204-272), with any number of rows and wherever a write fails. *)
THEOREM ReportCompleteOrError == Spec => []CompleteOrError
  <1>1. ASSUME BenchInv PROVE CompleteOrError
    <2>1. PICK rest \in Seq(AnyLine) : out \o rest = Table
      BY <1>1, Beginning
    <2>2. out \in Seq(AnyLine) /\ (phase = "rendered" => out = Table)
      BY <1>1 DEF BenchInv, ReportInv
    <2>3. out = SubSeq(out \o rest, 1, Len(out))
      BY <2>1, <2>2, FirstPart
    <2> QED
      BY <2>1, <2>2, <2>3 DEF CompleteOrError
  <1> QED
    BY <1>1, BenchInvariant, PTL

(* The lines above the table are no rows, and the warning is among them    *)
(* when there is a row with denials.                                       *)
LEMMA PreambleWarns ==
    ASSUME rows \in Seq(Row)
    PROVE  /\ Len(Preamble) \in Nat
           /\ \A i \in 1 .. Len(Preamble) : ~Preamble[i].denied
           /\ \A i \in 1 .. Len(Header) : ~Header[i].denied
           /\ (\E i \in DOMAIN rows : rows[i].denied)
                 => \E j \in 1 .. Len(Preamble) : Preamble[j] = Line("warning")
  <1> DEFINE D == {i \in DOMAIN rows : rows[i].denied}
             a == IF form.percentiles THEN <<Line("note")>> ELSE <<>>
             b == IF CountDenied(rows) > 0 THEN <<Line("warning")>> ELSE <<>>
             c == <<Line("context")>>
  <1>1. Preamble = a \o b \o c
    BY DEF Preamble
  <1>2. \A t : ~Line(t).denied
    BY DEF Line
  <1>3. D # {} => CountDenied(rows) > 0
    <2>1. IsFiniteSet(DOMAIN rows)
      BY LenProperties, FS_Interval
    <2>2. IsFiniteSet(D)
      BY <2>1, FS_Subset
    <2>3. Cardinality(D) \in Nat /\ (Cardinality(D) = 0 <=> D = {})
      BY <2>2, FS_CardinalityType, FS_EmptySet
    <2> QED
      BY <2>3 DEF CountDenied
  <1>4. \A i \in 1 .. Len(Header) : ~Header[i].denied
    BY <1>2 DEF Header
  <1>5. /\ Len(Preamble) \in Nat
        /\ \A i \in 1 .. Len(Preamble) : ~Preamble[i].denied
    BY <1>1, <1>2
  <1>6. CountDenied(rows) > 0
            => \E j \in 1 .. Len(Preamble) : Preamble[j] = Line("warning")
    <2>1. SUFFICES ASSUME CountDenied(rows) > 0
                   PROVE  \E j \in 1 .. Len(Preamble) : Preamble[j] = Line("warning")
      OBVIOUS
    <2> DEFINE w == Line("warning")
    <2>2. Preamble = (a \o <<w>>) \o c
      BY <1>1, <2>1
    <2>3. CASE form.percentiles
      <3>1. a = <<Line("note")>>
        BY <2>3
      <3> HIDE DEF a, w
      <3>2. 2 \in 1 .. Len(Preamble) /\ Preamble[2] = w
        BY <2>2, <3>1
      <3> QED
        BY <3>2 DEF w
    <2>4. CASE ~form.percentiles
      <3>1. a = <<>>
        BY <2>4
      <3> HIDE DEF a, w
      <3>2. 1 \in 1 .. Len(Preamble) /\ Preamble[1] = w
        BY <2>2, <3>1
      <3> QED
        BY <3>2 DEF w
    <2> QED
      BY <2>3, <2>4
  <1> QED
    BY <1>3, <1>4, <1>5, <1>6

(* A row with denials never reaches the reader without the warning above   *)
(* it, wherever the output breaks off (report.go:34-45).                   *)
THEOREM Warned == Spec => []WarnedBeforeRows
  <1>1. ASSUME BenchInv PROVE WarnedBeforeRows
    <2>1. PICK rest \in Seq(AnyLine) : out \o rest = Table
      BY <1>1, Beginning
    <2>2. out \in Seq(AnyLine) /\ rows \in Seq(Row)
      BY <1>1 DEF BenchInv
    <2>3. /\ Preamble \in Seq(AnyLine) /\ Header \in Seq(AnyLine) /\ rows \in Seq(AnyLine)
          /\ Header \o rows \in Seq(AnyLine) /\ Table = Preamble \o (Header \o rows)
      BY <2>2, TableLines
    <2>4. SUFFICES ASSUME NEW i \in DOMAIN out, out[i].denied
                   PROVE  \E j \in 1 .. (i - 1) : out[j] = Line("warning")
      BY DEF WarnedBeforeRows
    <2> DEFINE p == Len(Preamble)
               h == Len(Header)
    <2>5. /\ Len(out) \in Nat /\ DOMAIN out = 1 .. Len(out) /\ p \in Nat /\ h \in Nat
          /\ Len(rows) \in Nat /\ DOMAIN rows = 1 .. Len(rows) /\ Len(rest) \in Nat
      BY <2>1, <2>2, <2>3, LenProperties
    <2>6. \A k \in 1 .. Len(out) : out[k] = Table[k] /\ k <= Len(Table)
      BY <2>1, <2>2, <2>5, ConcatProperties
    <2>7. /\ Len(Table) = p + (h + Len(rows))
          /\ \A k \in 1 .. p : Table[k] = Preamble[k]
          /\ \A k \in p + 1 .. Len(Table) : Table[k] = (Header \o rows)[k - p]
      BY <2>3, <2>5, ConcatProperties
    <2>8. \A k \in 1 .. h + Len(rows) :
              (Header \o rows)[k] = IF k <= h THEN Header[k] ELSE rows[k - h]
      BY <2>3, <2>5, ConcatProperties
    <2>9. i > p /\ i <= Len(Table) /\ (Header \o rows)[i - p].denied
      <3>1. i \in Nat \ {0} /\ i <= Len(Table) /\ Table[i].denied
        BY <2>4, <2>5, <2>6
      <3>2. i > p
        BY <2>2, <2>5, <2>7, <3>1, PreambleWarns
      <3>3. i \in p + 1 .. Len(Table)
        BY <2>5, <2>7, <3>1, <3>2
      <3> QED
        BY <2>7, <3>1, <3>2, <3>3
    <2>10. \E k \in DOMAIN rows : rows[k].denied
      BY <2>2, <2>5, <2>7, <2>8, <2>9, PreambleWarns
    <2>11. PICK j \in 1 .. p : Preamble[j] = Line("warning")
      BY <2>2, <2>10, PreambleWarns
    <2>12. j \in 1 .. i - 1 /\ out[j] = Line("warning")
      BY <2>5, <2>6, <2>7, <2>9, <2>11
    <2> QED
      BY <2>12
  <1> QED
    BY <1>1, BenchInvariant, PTL
================================================================================
