------------------------------ MODULE BenchConfig ------------------------------
(***************************************************************************)
(* The bench from its command line to its exit (cmd/bench/main.go):        *)
(* parseConfig validates, makeLimiter maps the configuration to each       *)
(* constructor, the rows are measured in order and BenchReport writes      *)
(* them.  parseConfig restates by hand the conditions under which          *)
(* NewAtomicTokenBucket panics.                                            *)
(*                                                                         *)
(* A word holds -2*MaxSpan .. 2*MaxSpan - 1, MaxSpan playing 1 << 62.      *)
(* A rate is a number of 1/Denom units per second, or Inf or NaN; quotients*)
(* are exact.  Converting a float that does not fit a word is unspecified  *)
(* in Go; what it yields is a parameter, and 0 also for NaN.               *)
(***************************************************************************)
EXTENDS BenchReport

CONSTANTS
    Rates,       \* the values of -rate, in units of 1/Denom
    Denom,       \* what a rate of 1 is
    Inf, NaN,    \* the float values that are no numbers
    Capacities,  \* the values of -capacity
    Second,      \* nanoseconds in a second
    MaxSpan,     \* maxBucketSpanNanos
    OutOfRange   \* what converting a float that does not fit a word can yield

ASSUME ConfigAssumption ==
    /\ Rates \ {Inf, NaN} \subseteq Int
    /\ Inf \notin Int /\ NaN \notin Int /\ Inf # NaN
    /\ Denom \in Nat \ {0} /\ Second \in Nat \ {0} /\ MaxSpan \in Nat \ {0, 1}
    /\ Capacities \subseteq -2 * MaxSpan .. 2 * MaxSpan - 1

(* No outcome may pass for a period that the one-word bucket could take.   *)
(* The compilers yield the least or the largest word; the language promises*)
(* neither.                                                                *)
ASSUME ConversionAssumption ==
    /\ OutOfRange \subseteq -2 * MaxSpan .. 2 * MaxSpan - 1
    /\ \A word \in OutOfRange : word < 0 \/ word > MaxSpan

VARIABLES
    args,   \* the command line
    algos,  \* algorithms that are still to be measured, in order
    lim     \* the limiter being measured: its algorithm and its limit

report == <<form, rows, todo, out>>
vars   == <<args, algos, lim, phase, form, rows, todo, out>>

AllAlgos == <<"token", "sliding", "leaky", "lockfree", "atomic">>
Algos    == {AllAlgos[i] : i \in DOMAIN AllAlgos}

(* flags stands for what is independent of all other checks: "bad" syntax, *)
(* -format, -goroutines or -duration, or a call for "help".                *)
CommandLine == [algo : Algos \cup {"all", "unknown"}, rate : Rates,
                capacity : Capacities, flags : {"good", "bad", "help"}]

Expand(algo) == IF algo = "all" THEN AllAlgos
                ELSE IF algo \in Algos THEN <<algo>> ELSE <<>>

Wanted(algo) == \E i \in DOMAIN algos : algos[i] = algo

MaxInt == 2 * MaxSpan - 1
MinInt == -2 * MaxSpan

IsNumber(x) == x \notin {Inf, NaN}

(* What converting float x to an integer can yield                         *)
ToInt(x) == IF IsNumber(x) /\ x \in MinInt..MaxInt THEN {x}
            ELSE IF x = NaN THEN OutOfRange \cup {0} ELSE OutOfRange

(* Division of integers, b # 0, as Go has it for a >= 0                    *)
Quotient(a, b) == IF b > 0 THEN a \div b ELSE -(a \div (-b))

(* math.Round(1e9 / rate) of a rate that passed the check of its sign      *)
Period(rate) == IF rate = NaN THEN NaN
                ELSE IF rate = Inf THEN 0
                ELSE (2 * Second * Denom + rate) \div (2 * rate)

(* int(rate)                                                               *)
Truncated(rate) == IF IsNumber(rate) THEN rate \div Denom ELSE rate

(* Comparisons of floats; all of them are false of NaN.                    *)
NotPositive(rate) == IsNumber(rate) /\ rate <= 0
BelowOne(rate)    == IsNumber(rate) /\ rate < Denom
PeriodBelow(rate, bound) == rate # NaN /\ Period(rate) < bound
PeriodAbove(rate, bound) == rate # NaN /\ Period(rate) > bound

(* math.MaxInt64 becomes 1 << 63 when compared with a float.               *)
BeyondInt(rate) == rate = Inf \/ (IsNumber(rate) /\ rate > (MaxInt + 1) * Denom)

--------------------------------------------------------------------------------
BadFlags == \/ args.flags = "bad"
            \/ args.algo = "unknown"
            \/ NotPositive(args.rate)
            \/ args.capacity < 1

SlidingRefuses == Wanted("sliding") /\ (BelowOne(args.rate) \/ BeyondInt(args.rate))

(* Mutant: a period of exactly one nanosecond is taken for too short.      *)
AtomicRefusesOne ==
    Wanted("atomic") /\ ~NotPositive(args.rate) /\ PeriodBelow(args.rate, 2)

AtomicRefuses ==
    Wanted("atomic") /\ ~NotPositive(args.rate) /\ PeriodBelow(args.rate, 1)

Refused == BadFlags \/ SlidingRefuses \/ AtomicRefuses

(* Mutant: the span is compared as a float, which rounds its product down. *)
TooWideAsFloat(nanosPerToken) ==
    args.capacity * nanosPerToken > MaxSpan + 1

TooWide(nanosPerToken) == args.capacity > Quotient(MaxSpan, nanosPerToken)

(* -h: the usage is printed, and main exits with success.                  *)
Help ==
    /\ phase = "parsing"
    /\ args.flags = "help"
    /\ phase' = "helped"
    /\ UNCHANGED <<args, algos, lim, report>>

(* parseConfig returns an error.                                           *)
Refuse ==
    /\ phase = "parsing"
    /\ args.flags # "help" /\ Refused
    /\ phase' = "refused"
    /\ UNCHANGED <<args, algos, lim, report>>

(* parseConfig accepts, unless the span of the atomic bucket is yet to be  *)
(* checked.                                                                *)
Accept ==
    /\ phase = "parsing"
    /\ args.flags # "help" /\ ~Refused
    /\ phase' = IF Wanted("atomic") THEN "converting" ELSE "making"
    /\ UNCHANGED <<args, algos, lim, report>>

(* int64(period), and the check of the span, which divides by it           *)
CheckSpan ==
    /\ phase = "converting"
    /\ \E nanosPerToken \in ToInt(Period(args.rate)) :
        phase' = IF nanosPerToken = 0 THEN "panicked"
                 ELSE IF TooWide(nanosPerToken) THEN "refused" ELSE "making"
    /\ UNCHANGED <<args, algos, lim, report>>

(* NewSlidingWindow(int(cfg.rate), ...)                                    *)
MakeSliding ==
    /\ phase = "making" /\ algos # <<>> /\ Head(algos) = "sliding"
    /\ \E limit \in ToInt(Truncated(args.rate)) :
        lim' = [algo |-> "sliding", limit |-> limit]
    /\ phase' = "driving"
    /\ UNCHANGED <<args, algos, report>>

(* When NewAtomicTokenBucket panics; a period of at most MaxSpan converts  *)
(* to itself.                                                              *)
AtomicPanics(rate, capacity) ==
    \/ rate = NaN
    \/ NotPositive(rate)
    \/ PeriodBelow(rate, 1)
    \/ PeriodAbove(rate, MaxSpan)
    \/ capacity > 0 /\ capacity > MaxSpan \div Period(rate)

MakeAtomic ==
    /\ phase = "making" /\ algos # <<>> /\ Head(algos) = "atomic"
    /\ IF AtomicPanics(args.rate, args.capacity)
       THEN phase' = "panicked" /\ UNCHANGED lim
       ELSE phase' = "driving" /\ lim' = [algo |-> "atomic", limit |-> args.capacity]
    /\ UNCHANGED <<args, algos, report>>

(* The other constructors take any parameters.                             *)
MakeAny ==
    /\ phase = "making" /\ algos # <<>> /\ Head(algos) \notin {"sliding", "atomic"}
    /\ lim'   = [algo |-> Head(algos), limit |-> args.capacity]
    /\ phase' = "driving"
    /\ UNCHANGED <<args, algos, report>>

Measured(algo) == rows' \in {Append(rows, [text |-> algo, denied |-> d]) : d \in BOOLEAN}

(* Mutant: the loop stays at its first algorithm.                          *)
DriveFirst ==
    /\ phase = "driving"
    /\ Measured(lim.algo)
    /\ phase' = "making"
    /\ UNCHANGED <<args, algos, lim, form, todo, out>>

(* runOne measures the limiter, with or without denials; BenchRunner       *)
(* models it.                                                              *)
Drive ==
    /\ phase = "driving"
    /\ Measured(lim.algo)
    /\ algos' = Tail(algos)
    /\ phase' = "making"
    /\ UNCHANGED <<args, lim, form, todo, out>>

(* Every algorithm is measured: the table is rendered.                     *)
Render ==
    /\ phase = "making" /\ algos = <<>>
    /\ BeginReport
    /\ UNCHANGED <<args, algos, lim>>

Init ==
    /\ ReportInit
    /\ args \in CommandLine
    /\ phase = "parsing"
    /\ algos = Expand(args.algo)
    /\ lim   = [algo |-> "none", limit |-> 0]

Next == \/ Help \/ Refuse \/ Accept \/ CheckSpan
        \/ MakeSliding \/ MakeAtomic \/ MakeAny
        \/ Drive \/ Render
        \/ ReportStep /\ UNCHANGED <<args, algos, lim>>

Spec == Init /\ [][Next]_vars

--------------------------------------------------------------------------------
(* Types, and the rows follow the fixed order of the algorithms.           *)
TypeOK ==
    /\ args \in CommandLine /\ form \in Form
    /\ phase \in {"parsing", "helped", "refused", "converting", "making", "panicked",
                  "driving", "writing", "flushing", "rendered", "failed"}
    /\ [i \in DOMAIN rows |-> rows[i].text] \o algos = Expand(args.algo)
    /\ lim \in [algo : Algos \cup {"none"}, limit : MinInt..MaxInt]

(* Whatever the numbers on the command line, parseConfig lets nothing      *)
(* through that a constructor panics on, nor panics itself                 *)
(* (main.go:75-79, 155-160), by ConversionAssumption: a period that does   *)
(* not fit is converted before it is bounded (main.go:176).                *)
NumbersNeverPanic == phase = "panicked" => args.rate = NaN

(* Nor does it refuse what the constructors would take: every refusal of a *)
(* well-formed command line is for a sliding limit that denies everything  *)
(* or does not fit, or for a panic of NewAtomicTokenBucket.                *)
RefusalsAreNeeded ==
    phase = "refused" =>
        \/ BadFlags
        \/ Wanted("sliding") /\ Truncated(args.rate) \notin 1..MaxInt
        \/ Wanted("atomic") /\ AtomicPanics(args.rate, args.capacity)

(* No float is converted to an integer it does not fit (main.go:144-146,   *)
(* 165-168: the period "is confirmed >= 1 above, so converting it to int64 *)
(* here is safe").                                                         *)
ConversionsFit ==
    /\ phase = "converting" => Period(args.rate) \in MinInt..MaxInt
    /\ phase = "driving" /\ lim.algo = "sliding"
           => Truncated(args.rate) \in MinInt..MaxInt
================================================================================
