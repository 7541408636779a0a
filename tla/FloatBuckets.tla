----------------------------- MODULE FloatBuckets ------------------------------
(***************************************************************************)
(* The four limiters that count in float64, called one call at a time, and *)
(* beside each the same books in exact arithmetic: they record what the    *)
(* limiter admitted, and are asked for their own verdict at every call.    *)
(* The other modules take sums and products to be exact; this one asks     *)
(* when the rounding can be seen in a verdict, which is what admitEpsilon  *)
(* (internal/limiter/limiter.go) is there to prevent.                      *)
(*                                                                         *)
(* A client picks a configuration and makes up to MaxCalls calls, up to    *)
(* MaxGap ticks before each.  A configuration of kind "spend" makes every  *)
(* call on a TokenBucket and on a LockFreeTokenBucket; "fill" calls a      *)
(* LeakyBucket, "slide" a SlidingWindow.                                   *)
(***************************************************************************)
EXTENDS Float64, FiniteSets

CONSTANTS
    Configs,     \* records [kind, capacity, rate, batches]; the rate is
                 \* infinite or rate / RateScale units a second
    RateScale,   \* what a rate is a multiple of: every finite rate is a
                 \* multiple of a small enough power of 1/2
    MaxGap,      \* bound on the ticks between two calls
    MaxCalls,    \* bound on the calls of a client
    EpsilonRel,  \* admitEpsilonRel, in quanta
    Window       \* length of the sliding window, in ticks

(* Ticks, and units a rate adds to a bucket, from one end of a run to the  *)
(* other; an infinite rate adds infinity, which is not a magnitude.        *)
Ticks     == MaxCalls * MaxGap
Influx(c) ==
    IF c.rate = Inf THEN 0
    ELSE (Magnitude(c.rate) * (Ticks \div TicksPerSecond + 1)) \div RateScale + 1

(* The exact books count in parts of a unit, of which a rate adds          *)
(* config.rate in a tick.                                                  *)
Parts == TicksPerSecond * RateScale

(* Counts, and the seconds of a run, are integers that a float64 holds     *)
(* exactly; the slack is small; what a rate adds in a tick is not          *)
(* subnormal and nothing overflows to infinity; and a token bucket has no  *)
(* negative rate.                                                          *)
ASSUME FloatBucketsAssumption ==
    /\ {MaxCalls, MaxGap, EpsilonRel} \subseteq Nat
    /\ 512 * EpsilonRel <= Scale
    /\ Ticks \div TicksPerSecond < 2^Precision
    /\ Window \in Nat \ {0} /\ 2 * Scale >= 2^Precision * Window
    /\ RateScale \in Nat \ {0}
    /\ \A c \in Configs :
        /\ c.kind \in {"spend", "fill", "slide"}
        /\ c.capacity \in Nat \ {0} /\ 2 * c.capacity <= 2^Precision
        /\ c.rate \in Int \cup {Inf}
        /\ c.rate \in {0, Inf} \/ Magnitude(c.rate) * Scale >= 2^Precision * Parts
        /\ c.kind = "spend" => c.rate = Inf \/ c.rate >= 0
        /\ c.batches \subseteq 1..2^Precision /\ c.batches # {}
        /\ \A n \in c.batches :
             2 * (2 * c.capacity + n + Influx(c) + Ticks \div TicksPerSecond + 1) * Scale
               < 2^(Precision + MaxExponent)

VARIABLES
    config,     \* the limiter under test
    calls,      \* calls made so far
    tokens,     \* TokenBucket.tokens
    free,       \* the LockFreeTokenBucket's snapshot: its tokens and its age
    level,      \* LeakyBucket.level
    window,     \* SlidingWindow: ticks since windowStart, prevCount, currCount
    exact,      \* history: the TokenBucket's credit or the LeakyBucket's level
                \* by exact arithmetic, in parts
    freeExact,  \* history: the same for the snapshot of the LockFreeTokenBucket
    verdicts,   \* the answers to the last call, beside those of the exact books
    covered     \* the slack of that call covers the drift of all of them

vars == <<config, calls, tokens, free, level, window,
          exact, freeExact, verdicts, covered>>

Capacity == Float(config.capacity)

(* Mutant: no slack, the comparisons as they were first written.           *)
NoSlack(n) == 0

(* Mutant: the slack before it was scaled, the same for every operand.     *)
AbsoluteSlack(n) == EpsilonRel

AdmitEpsilon(n) == Times(n, 1, EpsilonRel)

(* What the rate adds, or drains, in d ticks                               *)
Accrued(d) == Times(config.rate, RateScale, Seconds(d))

(* Mutant: the refill forgets the capacity.                                *)
RefilledUncapped(t, d) == Plus(t, Accrued(d))

(* The token level t after a refill of d ticks                             *)
Refilled(t, d) == Least(Capacity, Plus(t, Accrued(d)))

Affords(t, n) == AtLeast(Plus(t, AdmitEpsilon(n)), Float(n))

Spent(t, n) == Plus(t, -Float(n))

(* The level after a leak of d ticks: only a positive product drains.      *)
Leaked(d) ==
    LET leaked == Accrued(d)
    IN  IF ~AtLeast(leaked, 1) THEN level
        ELSE IF AtLeast(leaked, level) THEN 0 ELSE Plus(level, -leaked)

(* Whether u units fit a limit that fills up.                              *)
Fits(u) == AtLeast(Plus(Capacity, AdmitEpsilon(config.capacity)), u)

(* The fixed windows rolled forward by d ticks                             *)
Rolled(d) ==
    LET into   == window.into + d
        passed == into \div Window
    IN  IF passed = 0 THEN [window EXCEPT !.into = into]
        ELSE [into |-> into % Window,
              prev |-> IF passed = 1 THEN window.curr ELSE 0,
              curr |-> 0]

(* prevCount * overlap + currCount, with overlap the share of the previous *)
(* window still in sight; the counts are integers and exact.               *)
Estimate(w) ==
    Plus(Times(w.prev, 1, Nearest((Window - w.into) * Scale, Window)),
         Float(w.curr))

(* An answer to a call for n units of which the exact books hold credit    *)
(* (den to a unit): admission is due if they cover the call, and within    *)
(* reason if they do with one slack and as much again for the drift.       *)
Verdict(said, credit, den, n, slack) ==
    [said    |-> said,
     due     |-> credit >= n * den,
     lenient |-> (credit - n * den) * Scale + 2 * slack * den >= 0]

(* A rounding is off by one part in 2^Precision at most: the slack of an   *)
(* operand is worth that many roundings of it.                             *)
Reach == (EpsilonRel * 2^Precision) \div Scale

(* The drift of k calls on operands of count units, ten roundings a call   *)
Drift(k, count) == 10 * k * count

Reply(answers, drift, operand) ==
    /\ calls'    = calls + 1
    /\ verdicts' = answers
    /\ covered'  = (drift <= operand * Reach)

(* The exact credit e after d ticks; an infinite rate fills the bucket as  *)
(* soon as any time has passed.                                            *)
ExactCredit(e, d) ==
    LET full == config.capacity * Parts
    IN  CASE config.rate = Inf -> IF d > 0 THEN full ELSE e
          [] OTHER -> IF e + config.rate * d > full THEN full ELSE e + config.rate * d

ExactLevel(d) ==
    CASE config.rate = Inf -> IF d > 0 THEN 0 ELSE exact
      [] OTHER -> LET drained == IF config.rate > 0 THEN config.rate * d ELSE 0
                  IN  IF exact < drained THEN 0 ELSE exact - drained

(* AllowN(n) on the token bucket and its lock-free twin, d ticks later.    *)
(* A denial persists the refill in the first and not in the second.        *)
Spend(d, n) ==
    LET t == Refilled(tokens, d)
        f == Refilled(free.tokens, free.age + d)
        c == ExactCredit(exact, d)
        e == ExactCredit(freeExact, free.age + d)
        cost == n * Parts
        most == IF n > config.capacity THEN n ELSE config.capacity
    IN  /\ config.kind = "spend"
        /\ tokens' = IF Affords(t, n) THEN Spent(t, n) ELSE t
        /\ exact'  = IF Affords(t, n) THEN c - cost ELSE c
        /\ free'   = IF Affords(f, n) THEN [tokens |-> Spent(f, n), age |-> 0]
                                      ELSE [free EXCEPT !.age = @ + d]
        /\ freeExact' = IF Affords(f, n) THEN e - cost ELSE freeExact
        /\ Reply({ Verdict(Affords(t, n), c, Parts, n, n * EpsilonRel),
                   Verdict(Affords(f, n), e, Parts, n, n * EpsilonRel) },
                 Drift(calls + 1, most), n)
        /\ UNCHANGED <<config, level, window>>

(* AllowN(n) on the leaky bucket.                                          *)
Fill(d, n) ==
    LET l  == Leaked(d)
        ok == Fits(Plus(l, Float(n)))
        e  == ExactLevel(d)
        room  == config.capacity * Parts - e
        slack == config.capacity * EpsilonRel
    IN  /\ config.kind = "fill"
        /\ level' = IF ok THEN Plus(l, Float(n)) ELSE l
        /\ exact' = IF ok THEN e + n * Parts ELSE e
        /\ Reply({ Verdict(ok, room, Parts, n, slack) },
                 Drift(calls + 1, config.capacity), config.capacity)
        /\ UNCHANGED <<config, tokens, free, window, freeExact>>

(* AllowN(n) on the sliding window, whose counts are integers and do not   *)
(* drift.                                                                  *)
Slide(d, n) ==
    LET w  == Rolled(d)
        ok == Fits(Plus(Estimate(w), Float(n)))
        room  == (config.capacity - w.curr) * Window - w.prev * (Window - w.into)
        slack == config.capacity * EpsilonRel
    IN  /\ config.kind = "slide"
        /\ window' = IF ok THEN [w EXCEPT !.curr = @ + n] ELSE w
        /\ Reply({ Verdict(ok, room, Window, n, slack) }, Drift(1, config.capacity), config.capacity)
        /\ UNCHANGED <<config, tokens, free, level, exact, freeExact>>

Init ==
    /\ config \in Configs
    /\ calls = 0
    /\ tokens = Capacity
    /\ free   = [tokens |-> Capacity, age |-> 0]
    /\ level  = 0
    /\ window = [into |-> 0, prev |-> 0, curr |-> 0]
    /\ exact  = IF config.kind = "spend" THEN config.capacity * Parts ELSE 0
    /\ freeExact = exact
    /\ verdicts = {} /\ covered = FALSE

Next ==
    /\ calls < MaxCalls
    /\ \E d \in 0..MaxGap, n \in config.batches : Spend(d, n) \/ Fill(d, n) \/ Slide(d, n)

Spec == Init /\ [][Next]_vars

--------------------------------------------------------------------------------
(* The state holds float64 values, and no bucket above its capacity.       *)
TypeOK ==
    /\ config \in Configs /\ calls \in 0..MaxCalls
    /\ verdicts \subseteq [said : BOOLEAN, due : BOOLEAN, lenient : BOOLEAN]
    /\ covered \in BOOLEAN
    /\ \A x \in {tokens, free.tokens, level} : Representable(x)
    /\ \A t \in {tokens, free.tokens} : ~AtLeast(t, Capacity + 1)
    /\ free.age \in Nat /\ {exact, freeExact} \subseteq Int
    /\ window.into \in 0..(Window - 1) /\ {window.prev, window.curr} \subseteq Nat

(* Rounding denies nothing that is due, and lets through nothing that the  *)
(* exact books would not with twice the slack.                             *)
Faithful(v) == (v.due => v.said) /\ (v.said => v.lenient)

(* A bucket that spends, at a finite rate, answers as exact arithmetic     *)
(* does while the drift of its calls is below the slack of the batch: the  *)
(* documented ceiling (limiter.go:43-54).                                  *)
SpendIsExact ==
    config.kind = "spend" /\ config.rate # Inf /\ covered
        => \A v \in verdicts : Faithful(v)

(* A limiter that fills up answers as exact arithmetic does at a small and *)
(* at a large capacity, a negative and an infinite rate included, while    *)
(* its drift is below the slack of the capacity (limiter.go:30-45,         *)
(* leakybucket.go:45-53).                                                  *)
FillIsExact ==
    config.kind \in {"fill", "slide"} /\ covered
        => \A v \in verdicts : Faithful(v)

(* The two token buckets answer alike (lockfree_tokenbucket.go:81-90).     *)
ObservablyEquivalent ==
    config.kind = "spend" => Cardinality({v.said : v \in verdicts}) <= 1
================================================================================
