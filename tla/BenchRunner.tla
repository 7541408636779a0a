------------------------------ MODULE BenchRunner ------------------------------
(***************************************************************************)
(* runOne of cmd/bench/runner.go: workers parked behind a start gate call  *)
(* one limiter until a timer raises a stop flag; each tallies in locals    *)
(* and writes its result once; the driver waits for all of them and adds   *)
(* the results up.                                                         *)
(*                                                                         *)
(* The limiter is any Limiter: it may answer either way.  An admission     *)
(* allocates once, as the snapshot design does, and so does the start of a *)
(* goroutine and a histogram.  The counter of allocations is the process's:*)
(* the timer adds to it, and the runtime at any moment.  The variables     *)
(* served, granted, samples, late and overhead are history: what really    *)
(* happened, to compare the report with.                                   *)
(***************************************************************************)
EXTENDS LatencyHist, FiniteSets

CONSTANTS
    Workers,    \* cfg.goroutines of them
    Latencies,  \* what the stopwatch around a call can show, in ns
    TimerCost,  \* what time.AfterFunc allocates: the Timer and its closure
    MaxRuntime, \* bound: the runtime allocates no more once overhead is this
    MaxCalls    \* bound: no call starts once this many were made

(* A latency is an int64 in the code, and so below 2^63 with 64 buckets.   *)
ASSUME RunnerAssumption ==
    /\ IsFiniteSet(Workers) /\ Workers # {}
    /\ IsFiniteSet(Latencies) /\ Latencies \subseteq Int
    /\ \A ns \in Latencies : ns < 2^(Buckets - 1)
    /\ {TimerCost, MaxRuntime, MaxCalls} \subseteq Nat

VARIABLES
    percentiles,  \* cfg.percentiles
    driver,       \* where runOne is
    gate,         \* startGate is open
    timer,        \* the time.AfterFunc timer
    stop,         \* the stop flag
    worker,       \* where each goroutine is
    tally,        \* its locals calls, allowed and h
    workers,      \* its workerResult
    mallocs,      \* runtime.MemStats.Mallocs
    m0,           \* the baseline of it
    res,          \* the result of the run
    served,       \* history: calls the limiter answered
    granted,      \* history: those it granted
    samples,      \* history: how often each latency was measured
    late,         \* history: calls of each worker that began before stop and
                  \*          ended after it, or began after it
    overhead      \* history: what the timer and the runtime allocated since
                  \*          the baseline

history == <<served, granted, samples, late, overhead>>
control == <<percentiles, driver, gate, timer, stop, m0, res>>
load    == <<worker, tally, workers, served, granted, samples, late>>
runVars == <<percentiles, driver, gate, timer, stop, worker, tally, workers,
             mallocs, m0, res, history>>

Tally   == [calls : Nat, allowed : Nat, hist : Hist]
NoTally == [calls |-> 0, allowed |-> 0, hist |-> Empty]

--------------------------------------------------------------------------------
(* go func(w *workerResult) {...}(&workers[i])                             *)
Spawn(w) ==
    /\ driver = "spawning"
    /\ worker[w] = "unborn"
    /\ worker'  = [worker EXCEPT ![w] = "parked"]
    /\ mallocs' = mallocs + 1
    /\ UNCHANGED <<control, tally, workers, history>>

(* ReadMemStats(&m0), once all goroutines are started                      *)
Baseline ==
    /\ driver = "spawning"
    /\ \A w \in Workers : worker[w] # "unborn"
    /\ m0'     = mallocs
    /\ overhead' = 0
    /\ driver' = "arming"
    /\ UNCHANGED <<percentiles, gate, timer, stop, mallocs, res, load>>

(* Allocations that are not the load's                                     *)
Overhead(n) ==
    /\ mallocs'  = mallocs + n
    /\ overhead' = overhead + n

(* time.AfterFunc, whose timer is allocated after the baseline             *)
Arm ==
    /\ driver = "arming"
    /\ timer'  = "armed"
    /\ Overhead(TimerCost)
    /\ driver' = "opening"
    /\ UNCHANGED <<percentiles, gate, stop, m0, res, load>>

(* Mutant: the timer is stopped as soon as the load has started.           *)
OpenStoppingTimer ==
    /\ driver = "opening"
    /\ gate'   = TRUE
    /\ driver' = "waiting"
    /\ timer'  = IF timer = "armed" THEN "stopped" ELSE timer
    /\ UNCHANGED <<percentiles, stop, mallocs, m0, res, load, overhead>>

(* startGate.Done()                                                        *)
Open ==
    /\ driver = "opening"
    /\ gate'   = TRUE
    /\ driver' = "waiting"
    /\ UNCHANGED <<percentiles, timer, stop, mallocs, m0, res, load, overhead>>

(* The callback runs in a goroutine of its own, a new one or one reused.   *)
Fire ==
    /\ timer = "armed"
    /\ timer' = "fired"
    /\ stop'  = TRUE
    /\ \E n \in 0..1 : Overhead(n)
    /\ UNCHANGED <<percentiles, driver, gate, m0, res, load>>

(* The runtime allocates something, until nobody reads the counter again   *)
(* (runner.go:45-46).                                                      *)
RuntimeAllocates ==
    /\ driver # "returned" /\ overhead < MaxRuntime
    /\ Overhead(1)
    /\ UNCHANGED <<control, load>>

--------------------------------------------------------------------------------
(* Mutant: nobody waits at the gate.                                       *)
PassUnguarded(w) ==
    /\ worker[w] = "parked"
    /\ worker'  = [worker EXCEPT ![w] = "checking"]
    /\ mallocs' = mallocs + (IF percentiles THEN 1 ELSE 0)
    /\ UNCHANGED <<control, tally, workers, history>>

(* startGate.Wait() returns; the histogram is allocated after it.          *)
Pass(w) ==
    /\ worker[w] = "parked"
    /\ gate
    /\ worker'  = [worker EXCEPT ![w] = "checking"]
    /\ mallocs' = mallocs + (IF percentiles THEN 1 ELSE 0)
    /\ UNCHANGED <<control, tally, workers, history>>

(* Mutant: the flag is looked at before every other call only.             *)
StoppedEveryOther(w) == stop /\ tally[w].calls % 2 = 0

(* stop.Load()                                                             *)
Stopped(w) == stop

InCall == {w \in Workers : worker[w] = "calling"}

GoOn(w) ==
    /\ worker[w] = "checking"
    /\ ~Stopped(w)
    /\ served + Cardinality(InCall) < MaxCalls
    /\ worker' = [worker EXCEPT ![w] = "calling"]
    /\ UNCHANGED <<control, tally, workers, mallocs, history>>

Leave(w) ==
    /\ worker[w] = "checking"
    /\ Stopped(w)
    /\ worker' = [worker EXCEPT ![w] = "reporting"]
    /\ UNCHANGED <<control, tally, workers, mallocs, history>>

(* lim.Allow(), timed if percentiles are wanted, counted in locals         *)
Allow(w) ==
    /\ worker[w] = "calling"
    /\ \E ok \in BOOLEAN, ns \in Latencies :
        LET admitted == IF ok THEN 1 ELSE 0
        IN  /\ tally' = [tally EXCEPT ![w] =
                           [calls   |-> @.calls + 1,
                            allowed |-> @.allowed + admitted,
                            hist    |-> IF percentiles THEN observe(@.hist, ns)
                                                       ELSE @.hist]]
            /\ mallocs' = mallocs + admitted
            /\ granted' = granted + admitted
            /\ samples' = IF percentiles THEN [samples EXCEPT ![ns] = @ + 1]
                                         ELSE samples
    /\ served' = served + 1
    /\ late'   = IF stop THEN [late EXCEPT ![w] = @ + 1] ELSE late
    /\ worker' = [worker EXCEPT ![w] = "checking"]
    /\ UNCHANGED <<control, workers, overhead>>

(* w.hist, w.calls and w.allowed are written.                              *)
Report(w) ==
    /\ worker[w] = "reporting"
    /\ workers' = [workers EXCEPT ![w] = tally[w]]
    /\ worker'  = [worker EXCEPT ![w] = "leaving"]
    /\ UNCHANGED <<control, tally, mallocs, history>>

(* The deferred wg.Done()                                                  *)
Done(w) ==
    /\ worker[w] = "leaving"
    /\ worker' = [worker EXCEPT ![w] = "done"]
    /\ UNCHANGED <<control, tally, workers, mallocs, history>>

--------------------------------------------------------------------------------
(* Mutant: the driver goes on when the first worker is done.               *)
WaitedForOne == \E w \in Workers : worker[w] = "done"

(* wg.Wait() returns.                                                      *)
Waited == \A w \in Workers : worker[w] = "done"

(* Adding up one field over all workers                                    *)
Sum(field) == SumFunction([w \in Workers |-> workers[w][field]])

(* wg.Wait(), ReadMemStats(&m1), and the results added up; the timer is    *)
(* stopped on return.                                                      *)
Collect ==
    /\ driver = "waiting"
    /\ Waited
    /\ res' = [calls   |-> Sum("calls"),
               allowed |-> Sum("allowed"),
               allocs  |-> mallocs - m0,
               hist    |-> merge([w \in Workers |-> workers[w].hist])]
    /\ driver' = "returned"
    /\ timer'  = IF timer = "armed" THEN "stopped" ELSE timer
    /\ UNCHANGED <<percentiles, gate, stop, mallocs, m0, load, overhead>>

RunInit ==
    /\ percentiles \in BOOLEAN
    /\ driver  = "spawning"
    /\ gate    = FALSE
    /\ timer   = "off"
    /\ stop    = FALSE
    /\ worker  = [w \in Workers |-> "unborn"]
    /\ tally   = [w \in Workers |-> NoTally]
    /\ workers = [w \in Workers |-> NoTally]
    /\ mallocs = 0
    /\ m0      = 0
    /\ res     = [calls |-> 0, allowed |-> 0, allocs |-> 0, hist |-> Empty]
    /\ served  = 0
    /\ granted = 0
    /\ samples = [ns \in Latencies |-> 0]
    /\ late    = [w \in Workers |-> 0]
    /\ overhead = 0

DriverStep == Baseline \/ Arm \/ Open \/ Collect \/ \E w \in Workers : Spawn(w)

Work(w) == Pass(w) \/ GoOn(w) \/ Leave(w) \/ Allow(w) \/ Report(w) \/ Done(w)

RunNext == DriverStep \/ Fire \/ RuntimeAllocates \/ \E w \in Workers : Work(w)

(* The driver and every worker get to run, and the timer fires in the end. *)
Fairness ==
    /\ WF_runVars(DriverStep) /\ WF_runVars(Fire)
    /\ \A w \in Workers : WF_runVars(Work(w))

RunSpec == RunInit /\ [][RunNext]_runVars
FairRunSpec == RunSpec /\ Fairness

--------------------------------------------------------------------------------
(* Types, and nobody is past the gate before it opens.                      *)
RunTypeOK ==
    /\ percentiles \in BOOLEAN /\ gate \in BOOLEAN /\ stop \in BOOLEAN
    /\ driver \in {"spawning", "arming", "opening", "waiting", "returned"}
    /\ timer \in {"off", "armed", "fired", "stopped"}
    /\ worker \in [Workers -> {"unborn", "parked", "checking", "calling",
                               "reporting", "leaving", "done"}]
    /\ \A w \in Workers : worker[w] \notin {"unborn", "parked"} => gate
    /\ tally \in [Workers -> Tally] /\ workers \in [Workers -> Tally]
    /\ mallocs \in Nat /\ m0 \in 0..mallocs
    /\ res \in [calls : Nat, allowed : Nat, allocs : Nat, hist : Hist]
    /\ served \in 0..MaxCalls /\ granted \in 0..served
    /\ samples \in [Latencies -> Nat] /\ late \in [Workers -> Nat]
    /\ overhead \in Nat

(* The report accounts for every call the limiter answered, every          *)
(* admission and every timed sample.  Its allocations are those of the     *)
(* load, none missed, and of the timer and the runtime since the baseline, *)
(* none of them due to the start of a worker (runner.go:25-30, 45-48,      *)
(* 89-90).                                                                 *)
ReportIsExact ==
    driver = "returned" =>
        /\ res.calls = served
        /\ res.allowed = granted
        /\ Count(res.hist, Buckets - 1) = IF percentiles THEN served ELSE 0
        /\ res.allocs = granted + (IF percentiles THEN Cardinality(Workers) ELSE 0)
                          + overhead

(* A raised flag stops a worker within the one call it may be in           *)
(* (runner.go:40-43).                                                      *)
OneLateCallAtMost == \A w \in Workers : late[w] <= 1

(* The sample of the given rank among all that were measured               *)
Sample(rank) ==
    Min({ns \in Latencies : SumFunctionOnSet(samples, {l \in Latencies : l <= ns}) >= rank})

(* A reported percentile is never below the true one and less than twice   *)
(* it, merged over all workers (report.go:61-67).                          *)
QuantileWithinFactorTwo ==
    driver = "returned" /\ percentiles /\ served > 0 =>
        \A q \in {<<50, 100>>, <<99, 100>>, <<999, 1000>>} :
            LET exact == Sample(Rank(q, served))
            IN  /\ exact <= quantile(res.hist, q)
                /\ exact > 0 => quantile(res.hist, q) < 2 * exact
                /\ exact = 0 => quantile(res.hist, q) = 0

(* The run ends: the timer fires and the workers notice (runner.go:40-43). *)
RunReturns == <>(driver = "returned")
================================================================================
