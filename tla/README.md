# A TLA+ model of ratelimit-lab

ratelimit-lab is a Go library of five in-memory rate limiters behind one port
(`internal/limiter`) and a benchmark that drives them (`cmd/bench`). The modules in this directory
model every algorithm and the benchmark's control flow, TLC checks them on small instances, and
TLAPS proves for every instance what the token-bucket family promises and that all four of its
members keep the promise, the sliding window's exact rollover and bounded overshoot, that rounding
changes no verdict while its drift is below the slack, and of the benchmark its report, its
percentiles, its configuration checks and its table.

## 1. Inventory

| Part | State | Operations | Interacts through |
|---|---|---|---|
| Limiter port and Clock (`limiter.go`) | none; the clock never goes back | `Allow`, `AllowN(n)`, `Now`, `Since` | callers are goroutines; every limiter reads the one clock |
| TokenBucket (`tokenbucket.go`) | `tokens`, `last`, a mutex | `AllowN`: lock, read clock, refill, decide, unlock | mutex |
| LockFreeTokenBucket (`lockfree_tokenbucket.go`) | a pointer to an immutable `(tokens, last)` | `AllowN`: load, read clock, decide, CAS or retry | pointer CAS, garbage collector |
| AtomicTokenBucket (`atomic_tokenbucket.go`) | one int64 `vt`, the instant of zero credit | `AllowN`: early refusal, read clock once, load, decide, CAS or retry | value CAS |
| LeakyBucket (`leakybucket.go`) | `level`, `last`, a mutex | `AllowN`: lock, read clock, leak, decide, unlock | mutex |
| SlidingWindow (`slidingwindow.go`) | `windowStart`, `prevCount`, `currCount`, a mutex | `AllowN`: lock, read clock, roll windows, estimate, decide, unlock | mutex |
| Float arithmetic and admitEpsilon (`limiter.go`) | none | the slack that compensates float rounding at a boundary | every float comparison |
| Bench configuration (`cmd/bench/main.go`) | the command line, the list of algorithms | `parseConfig`, `makeLimiter`, `run` | the constructors, whose panics it must anticipate |
| Bench runner (`cmd/bench/runner.go`) | start gate, stop flag, timer, tallies | `runOne` | worker goroutines, a timer callback, the limiter |
| Latency histogram (`cmd/bench/report.go`) | 64 counters | `observe`, `merge`, `quantile` | one per worker, merged by the driver |
| Derived figures (`report.go`) | none | `derive`, `countDenied` | the counters of a result |
| Report rendering (`report.go`) | the output so far, the tabwriter's buffer | `renderText`, `renderMarkdown` | standard output, which may fail |
| Memory layout, Go benchmarks | none | padding, `Benchmark*` | – |

What is hard here:

- *Interleaving.* Time passes, and other callers act, between any two steps of a call. The mutex
  limiters must read the clock under the lock. The pointer-CAS bucket denies on a snapshot that may
  be stale and never re-checks it. The one-word bucket reads the clock once and may decide with a
  reading that is older than the last admission.
- *ABA.* One CAS compares addresses, the other compares values. The first relies on the garbage
  collector, the second on `vt` never coming back to a value.
- *Bounds over a lifetime.* A slack is forgiven on each comparison, and must not add up.
- *Laziness.* Refill, leak and window rollover happen only when somebody calls, after any idle time.
- *Integer limits.* `n * T` and `now - capT` in int64; a period that does not fit one.
- *Float limits.* A level that is an ULP short at an exact boundary; a slack below half an ULP; `0 * Inf`.
- *Partial output.* A write that fails halfway through a table that must not mislead.
- *Progress.* A mutex released on every path, CAS loops that end, a benchmark that stops.

What makes each part correct: the burst-plus-rate bound over every trailing interval for the bucket
family (and its counterpart, that credit is lost to admissions alone); the overshoot a sliding
window really has; exact counters under lazy rollover; agreement of `parseConfig` with the
constructors in both directions; a report that accounts for every call; a table that is complete or an
error; verdicts that rounding does not change.

## 2. Modules

```
LimiterPort ── TokenBucketContract ── TokenBucketContractProofs
     │                  ▲  ▲  ▲  ▲
     │                  │  │  │  └─ LeakyBucket  (refinement: room = credit)
     │                  │  │  └─ AtomicTokenBucket   (late decisions allowed)
     │                  │  └─ LockFreeTokenBucket
     │                  └─ TokenBucket
     └─ MutexPort ── TokenBucket, LeakyBucket, SlidingWindow
LatencyHist ── BenchRunner       BenchReport ── BenchConfig       Float64 ── FloatBuckets

TokenBucketProofs ─────────┐
LeakyBucketProofs ─────────┤
LockFreeTokenBucketProofs ─┤
AtomicTokenBucketProofs ───┴─ INSTANCE TokenBucketContractProofs
SlidingWindowProofs ── EXTENDS SlidingWindow
FloatBucketsProofs ── EXTENDS FloatBuckets
BenchProofs ── EXTENDS BenchConfig, BenchRunner
```

**LimiterPort.** A caller `p` rests at `ready`, `allowed` or `denied` (the verdict of its last call),
makes a call with `n` from `Batches` (`Call`), and ends it with `Grant` or `Refuse`. `n <= 0` is
granted on the spot (`CallNothing`). `clock` ticks at any moment (`Tick`). The history variable
`since[s]` counts the units admitted by calls that took a time `t >= s`; `inv[p]` is when the call
was made. No limiter reads either.

**TokenBucketContract.** The abstract specification. A call in progress (`busy`) takes effect in one
step, at a time `t` between its invocation and now: it is admitted if the credit at `t` plus the
slack covers the batch, denied if it does not. `Backdating` says whether `t` may lie before the last
admission. A denial may keep the accrual it computed or leave it for later; the answer is the same.

**MutexPort** holds what the three mutex limiters share: `Enter`, `Acquire` (lock, then the clock
reading under the lock), and the verdict with the deferred unlock. **TokenBucket**, **LeakyBucket**
and **SlidingWindow** add the arithmetic of the decision (`Spend`/`Deny`, `Pour`/`Deny`,
`Count`/`Deny`); each is one step, because nobody else can touch the state while the mutex is held.

**LockFreeTokenBucket** has one action per atomic operation: `Load`, `Prepare` or `Deny` (clock
reading and `nextLockFreeState`), `Swap` or `Retry`. Snapshots live at addresses from `Addr`; an
address is reused as soon as neither the shared pointer nor a caller holds it, so ABA is possible in
the model whenever the collector's promise does not prevent it.

**AtomicTokenBucket** likewise: `DenyTooLarge`, `ReadClock`, `Load` or `Deny`, `Swap` or `Retry`.
All arithmetic wraps at a word of `-2*MaxSpan .. 2*MaxSpan-1`. `lin` is a history variable, the
latest reading any admission used; credit at that time is `lin - vt`, which is the refinement mapping.

**LatencyHist** and **BenchRunner** are `runOne`: `Spawn`, `Baseline` (MemStats), `Arm` (timer), `Open`
(gate), `Fire` (the callback), the worker's `Pass`, `GoOn`, `Allow`, `Leave`, `Report`, `Done`, and
`Collect` (wait, read MemStats, merge). The limiter may answer either way. The counter of allocations is the
process's: `Arm` adds the timer and its closure (`TimerCost`), which come after the baseline, `Fire` may add a
goroutine, and `RuntimeAllocates` stands for the runtime, at any moment (`runner.go:45-48` calls the figure
approximate). What really happened (`served`, `granted`, `samples`, `late`, and `overhead`, the allocations that
are not the load's) is kept apart from what the program tallies. BenchRunner's
specification is `RunSpec`, with `RunInit`, `RunNext` and `RunTypeOK`, so that one module of proofs can
extend it and BenchConfig together.

**BenchConfig** is `run`: `Help`, `Refuse`, `Accept`, `CheckSpan` (the conversion of the period and the
check of the span), `MakeSliding`, `MakeAtomic`, `MakeAny`, `Drive`, `Render`. What a conversion to int64 yields
that does not fit is a parameter, `OutOfRange`, because Go leaves it unspecified. `AtomicPanics` is
translated from the constructor, the refusals from `parseConfig`. `Drive` stands for all of `runOne` and
leaves a row that has denials or has none; what is in a row is BenchRunner's subject.

**BenchReport** is what `Render` starts: `Preamble` is the note, the warning and the context line, and then
`Write` and `WriteFails` say of each line whether it reached the output. In markdown the rows follow
line by line; in text they wait in the tabwriter until `Flush`. `EndReport` is a renderer that returns
nil, and the phases `refused`, `failed`, `rendered` and `helped` are the exit statuses 1, 1, 0 and 0.

**Float64** and **FloatBuckets** take up what the other modules leave out. Float64 is IEEE arithmetic with
`Precision` bits in place of 53: finite values are integers in quanta, each operation rounds its exact
result to nearest even, infinity and NaN behave as Go's operators and `min` have it, and `Seconds` is
`time.Duration.Seconds`. A rate is infinite or `rate / RateScale`, which every finite float64 is with a power of two
for `RateScale`. FloatBuckets runs the decisions of the four float limiters on it, one call after
another (each call is atomic or linearizes as such in the other modules). `Spend` makes each call on a
TokenBucket and on a LockFreeTokenBucket, whose refills differ in their roundings, since only the
first keeps the refill of a denial; `Fill` is the leaky bucket and `Slide` the sliding window.

Beside each limiter FloatBuckets keeps the same books in exact arithmetic (`exact`, `freeExact`). They record
what the limiter admitted, not what they would have admitted themselves, so a verdict within the slack
that differs does not set the two apart for good, and the books say at every call what the exact answer
is: admission is `due` if they cover the batch, and `lenient` if they do with one slack and as much again for
the drift. A verdict is `Faithful` if it grants what is due and nothing that is not lenient.
Rounding adds up, call by call (`Drift`: ten roundings of the largest operand), and the slack is worth so many
roundings and no more (`Reach`); `covered` says that the drift of the calls so far is within it. That is the
ceiling the source concedes on the spend side (`limiter.go:43-54`), where the slack is that of the batch and
the drift that of the capacity. Between two calls up to `MaxGap` ticks pass.

### Abstractions

- *Quanta.* Credit is counted in integers: `Unit` quanta to a token, `Rate` quanta per tick. The code
  uses float64 (except AtomicTokenBucket, which is exact). `Eps / Unit` stands for `admitEpsilonRel`.
  In the runs it is far larger than 1e-9: an instance in which the slack is a visible quantum, so
  that its effects are not hidden below the resolution. With `Unit = 4`, `Rate = 3` a token is never
  a whole number of ticks, so the slack does decide admissions. Rounding is FloatBuckets' subject.
- *Sliding window.* The comparison is multiplied by `Window` on both sides, which makes it exact. `Eps / Window`
  stands for `admitEpsilonRel`; from a limit of 1e9 on, which is the bench's default rate, the slack is worth a
  request or more.
- *Clock.* It stops at `Horizon`. Nothing in the code depends on that; a bound on time bounds the
  credit that can accrue and makes the state space finite.
- *Mutants.* Definitions commented "Mutant:" are not part of the model. Each is a variant of the
  definition after it, with one plausible mistake, that makes a property fail.
- *Constructors.* Limiters start as their constructors leave them; a nonpositive capacity is
  covered for AtomicTokenBucket and a nonpositive rate for LeakyBucket (checked in the run `floats`),
  which treat them specially.
  TokenBucket, LockFreeTokenBucket and LeakyBucket are modelled for `Capacity \in Nat`.

## 3. Runs

| Run | Instance | What it shows |
|---|---|---|
| contract | 2 callers, batches -1..3, a bucket of 2 tokens, 4 ticks, late decisions | `Accounting`, `DebtBound`, `WindowBound` |
| tokenbucket | 2 callers, batches 0..3, capacity 2, 4 ticks | the mutex bucket implements the contract without late decisions; `BurstIsServed`; every call returns |
| lockfree | 2 callers, batches 0..2, 5 addresses, 2 ticks | no ABA; a lost swap means somebody was admitted; a stale snapshot never understates the bucket; the contract; `BurstIsServed`; every call returns |
| atomic | 2 callers, T = 3, capacity 2, a five-bit word, a batch whose cost overflows it | nothing wraps; `vt` advances by a token at a time; the contract with late decisions; every call returns |
| atomic_burst | the same | `BurstIsServed` fails, see findings |
| leaky | 2 callers, batches 0..3, capacity 2 | the contract upside down: one slack of overflow in a lifetime, room lost to admissions alone |
| sliding | 2 callers, limit 2, a slack of 4/3 of a request, window 3, 7 ticks | lazy rollover is exact; the overlap is a fraction; the overshoot bound |
| bench_config | rates on both sides of every boundary, 11 capacities, a six-bit word, conversions that yield -32, -1, 17 or 31 where they do not fit; rows with and without denials, both formats, a write failing anywhere | `parseConfig` and the constructors agree, in both directions; the table is complete or an error; denials never show without the warning |
| bench_conversion | three tiny rates | a period is converted to an int64 it does not fit, see findings |
| bench_runner | 2 workers, 3 calls, latencies up to 6 ns, 4 buckets, a timer of 2 allocations, one or two more by the runtime | the report is exact; one late call per worker at most; percentiles within a factor of two; the run ends |
| floats | 17 bits; capacities 2 and 64 (spend and fill), 5 and 60 (sliding); rates 0.75, 1, 30.5, 31, -0.75 and infinite; 12 calls, up to 3 ticks before each | no verdict departs from exact books while the drift is below the slack; no level exceeds its capacity |
| float_infinity | a token bucket and its lock-free twin with an infinite rate | they answer differently, see findings |

*Why these bounds are enough.* Two callers give every interleaving of a load, a competing swap and a
retry; with a third batch size one of them can be denied while the other is admitted. The horizon is
long enough for the bucket to run dry and refill past its capacity, and in the sliding runs for none,
one or two windows to pass between two calls. Batches include one beyond the capacity. In
`lockfree` a caller holds at most two snapshots, so `2 * |Procs| + 1` addresses never run out and are
constantly reused. Symmetry is used only where no liveness is checked.

In `floats` the constants keep the proportions of the code: the slack of one unit (2^-11) is far above
an ULP at capacity 2 and below half an ULP at capacity 64, as 1e-9 is at 1 and at 2^25. Ticks of a third of
a second are not binary fractions, which is where drift comes from; rates are in quarters, so that what accrues
in a whole second need not be whole. The slack is worth 64 roundings
(`Reach`), of which a call takes ten: the first six calls are covered where the limit fills up, and where it is spent by
batches of the capacity, the first three for a single unit at capacity 2, and none for a single unit at capacity 64,
which is the documented ceiling. Six calls are enough to fill or drain a bucket to the very boundary in steps
and to be asked there. In float64 the same slack is worth nine million roundings. Twelve calls go beyond what is
covered, for the type invariant. Both earlier versions of the code fail in this instance: without slack, and with
the same slack for every operand.

The sliding window's type comment promises at most `limit` in any trailing window and concedes the
approximation a few lines further down (`slidingwindow.go:8-10`, `:21-23`); a late burst followed by
calls late in the next window does exceed it, and `TrailingOvershootBounded` states by how much: an admission
is within the limit and its slack (`Allowance`), and what the estimate forgot is the dropped share of the
previous window, which held at most the whole units of an allowance (`Quota`). The run has a slack
of more than one request, so that the two are not the limit.

*Fairness.* `Fairness` gives every goroutine inside a call weak fairness, which is what the preemptive
Go scheduler provides, and strong fairness for taking a mutex, which `sync.Mutex` provides by handing
over to a waiter that has starved for a millisecond. Nobody is obliged to make a call and the clock
need not tick. In the bench the timer fires eventually. `EveryCallReturns` of the CAS loops rests on
the finite horizon: each lost swap is somebody's admission, and a bucket that accrues a finite credit
grants finitely many. Against an unbounded supply the loops are lock-free, not wait-free, as the
source says: `LostSwapMeansProgress` and `VirtualTimeAdvances` are the safety half of that.

### Findings

1. **A late reading can be denied a batch that always fitted** (`atomic_burst`). In AtomicTokenBucket a
   call that read the clock before another call was admitted at a later reading sees a `vt` clamped to
   that later reading. It can be denied although the bucket held enough at every instant of its call.
   The comment (`atomic_tokenbucket.go:193-205`, `:280-282`) calls this a linearization at the call's own
   reading. What does hold is `ImplementsContract` with `Backdating`: the verdict is that of the later
   credit read backwards along the rate. The loss is at most the accrual between the two readings.
2. **An infinite rate poisons one token bucket and not the other** (`float_infinity`). At the very reading
   it was built at, or at any repeated one, TokenBucket computes `0 * Inf = NaN`, `min` hands the NaN on,
   and the bucket denies for ever. LockFreeTokenBucket does not keep the refill of a denial and
   recovers with the next tick. `lockfree_tokenbucket.go:87-92` calls the two observably equivalent but for
   configurations on the epsilon threshold. `leakybucket.go:51-53` documents NaN and infinity for the
   leaky bucket, and there the code keeps its word.
3. **A period is converted before it is bounded above** (`bench_conversion`). `main.go:165-172` calls
   `int64(period)` safe because `period >= 1`. A tiny rate overflows it. As long as the conversion then yields no
   possible period, as the least and the largest word are not, the configuration is refused all the same
   (`NumbersNeverPanic`, under `ConversionAssumption`). The language does not promise it: a conversion that
   yielded 1 would pass the span check, and the constructor, which bounds the float, would panic.
   Two relatives are among the rates of `bench_config`: `-rate=NaN` passes every comparison of
   `parseConfig` (with `-algo=atomic`, a compiler that converts NaN to 0 makes the span check divide by
   zero), which is why `NumbersNeverPanic` speaks of numbers and exempts NaN; and for `sliding` a rate
   of exactly 2^63 passes `> math.MaxInt64`, whose float value it is, and reaches the constructor.

## 4. Proofs

`TokenBucketContractProofs` proves about the contract, for all `Procs`, `Batches`, `Horizon`, `Unit`,
`Rate`, `CapQ`, `Slack` and either value of `Backdating`, from `PortAssumption` and
`ContractAssumption` alone:

| Theorem | Statement |
|---|---|
| `TypeCorrect` | `Spec => []TypeOK` |
| `AccountingHolds` | `Spec => []Accounting` |
| `DebtBounded` | `Spec => []DebtBound` |
| `WindowBounded` | `Spec => []WindowBound` |
| `BurstServed` | `Spec => BurstIsServed` |

*The argument.* `WindowBound` is not inductive: from a state in which it holds and the credit is
arbitrary, one more admission breaks it. The invariant is `TypeOK /\ Accounting /\ DebtBound`.
`Accounting` says that for every time `s` up to the last decision, the units admitted since `s` plus
the credit still held are at most a full bucket plus the accrual since `s`. Settling at a later time
adds the same accrual to both sides or cuts the credit at the rim; spending moves quanta from the
credit to the admissions; a late decision leaves the settled credit alone and is checked against
less. With `credit >= -MaxSlack` from `DebtBound` the window bound follows: one slack for the whole
interval, not one per call. The other half of `Accounting`, `since[0] * Unit + credit >= CapQ`, says
credit is lost to admissions only, and gives `BurstIsServed` where decisions are not late.

**AtomicTokenBucketProofs**, for all `Procs`, `Batches`, `Horizon`, `T`, `Capacity` and `MaxSpan`, from
`PortAssumption` and `AtomicAssumption` (what the constructor checks, and that the clock counts
nanoseconds that fit an int64):

| Theorem | Statement |
|---|---|
| `TypeCorrect`, `ReadingsLead`, `ArithmeticExact` | `Spec => []TypeOK`, `[]NeverAheadOfReadings`, `[]ExactArithmetic` |
| `WordAdvances` | `Spec => VirtualTimeAdvances` |
| `AtomicImplementsContract` | `Spec => ImplementsContract`, the contract with late decisions |
| `BurstPlusRate` | `since[s] * T <= CapT + (lin - s)` at all times, for every `s` up to `lin` |

*The argument.* The four hang together and are proved from one invariant, `IInv`. A value once loaded
is a lower bound of `vt` (`seen <= vt`), because `vt` only grows; the early refusal bounds the cost
of a batch by a full bucket, half the positive range of a word at most, and the clamp bounds what is
subtracted from a reading; so nothing wraps, what is installed is at most the call's own reading, and
at least a token above the value found. `lin - CapT <= vt` (the bucket is not more than full at the
latest reading) makes the clamp of a late call coincide with the contract's reading of the credit
backwards, which is what the refinement needs of `Swap`: `SwapSettles`.

**TokenBucketProofs**, for all constants, from `PortAssumption` and `TokenBucketAssumption`:

| Theorem | Statement |
|---|---|
| `TypeCorrect` | `Spec => []TypeOK`, mutual exclusion included |
| `TokenBucketImplementsContract` | `Spec => ImplementsContract`, the contract without late decisions |
| `BurstPlusRate` | since any `s` up to `last` no more is admitted than capacity, accrual and one slack |
| `DebtBounded` | `-(Eps * MaxBatch) <= tokens /\ tokens <= Capacity * Unit`, always |
| `BurstServed` | `Spec => BurstIsServed` |

*The argument.* The strengthening is that the holder of the mutex has a reading no older than the last
refill. It is inductive because the reading is taken under the lock, when `last <= clock`, and
only the holder moves `last`. The first part of the module proves that each step of the port and its mutex keeps
mutual exclusion and the reading within the call; `LeakyBucketProofs` and `SlidingWindowProofs` begin with
the same lemmas. A verdict then settles the contract's books at the reading; entering, waiting and
locking are stutters.

**LeakyBucketProofs**, for all constants, from `PortAssumption` and `LeakyBucketAssumption`:

| Theorem | Statement |
|---|---|
| `TypeCorrect` | `Spec => []TypeOK`; the level never falls below empty |
| `LeakyBucketImplementsContract` | `Spec => ImplementsContract`, the contract without late decisions |
| `MeterBound` | since any `s` up to `last` no more is admitted than capacity, drain and one slack |
| `OverflowBounded` | `level <= Capacity * Unit + AdmitEpsilon`, always |

*The argument.* It is that of TokenBucket, upside down: room is credit, and what drains per tick is `Rate` or
nothing where the rate is not positive. `DrainedIs` shows that a level which stops at empty is a credit
which stops at the rim. `OverflowBounded` is the contract's `DebtBound` read through that mapping.

**LockFreeTokenBucketProofs**, for all constants, `Addr` included, from `PortAssumption` and
`LockFreeAssumption` (`Nil` is no snapshot):

| Theorem | Statement |
|---|---|
| `TypeCorrect`, `AddressesIdentify`, `LockFreedom`, `StaleIsSound` | `Spec => []TypeOK`, `[]NoABA`, `[]LostSwapMeansProgress`, `[]StaleOverestimates` |
| `LockFreeImplementsContract` | `Spec => ImplementsContract`, the contract without late decisions |
| `BurstPlusRate` | since any `s` up to the last admission no more is admitted than capacity, accrual and one slack |
| `BurstServed` | `Spec => BurstIsServed` |

*The argument.* None of the three safety invariants is inductive. `NoABA` needs that the address of a
snapshot about to be installed is known to nobody else (`Fresh`), which is what `Free` grants at
allocation and no step can undo while it is held. `StaleOverestimates` speaks of now, and must be known of
all later times to survive a tick; and it must survive a swap by somebody else, which is the
source's remark that clamping is associative: `SpendingLowers`, refilling in two steps and spending in
between leaves no more than refilling in one. So a caller that holds a snapshot knows (`Loaded`) that it is
still published or that the count of admissions has moved on, and that it does not understate the bucket at
any time from the last admission on. A caller about to swap knows besides (`Derived`) that what it
installs was computed from what it loaded at a time of its call. A swap then finds what it was computed
from, which makes it the contract's admission; a denial on the stale snapshot is one on the published
snapshot at the same reading.

In these four modules the bounds at the end come from `TokenBucketContractProofs` itself, instantiated
with the refinement mapping (`Proved`): its assumptions are shown to hold of the mapped constants
(`AssumptionsHold`) and its specification to be the one implemented (`SameContract`). Each states the
few lemmas about the port that it needs at its top.

**SlidingWindowProofs**, for all constants, from `PortAssumption` and `SlidingWindowAssumption` (the
constructor's `window >= 1`; the limit may be zero or negative, and the slack worth any number of requests):

| Theorem | Statement |
|---|---|
| `TypeCorrect` | `Spec => []TypeOK` |
| `LazyRolloverExact` | `Spec => []LazyRolloverIsExact` |
| `OverlapFraction` | `Spec => []OverlapIsFraction` |
| `OvershootBounded` | `Spec => []TrailingOvershootBounded` |

*The argument.* That the counters are exact is inductive only together with `NothingAhead`: a call that rolls
two windows forward sets both counters to zero, which is right because nothing was admitted from the end of
the current window on; and with the holder's reading not before the window's start, since a rollover by a
negative number of windows is not one. `RollIInv` does the rollover once, for an admission of `n` units or a
denial (of 0). The overshoot needs two facts that the counters do not show. Either of them is at most the
limit with its slack, and so, being an integer, at most `Quota` (`QuotaIs`, `FitsQuota`). And the last admission into
the current window was checked at some time `t` of that window against the counters as they still stand
(`Charged`), with `prevCount` weighted by `Window - (t - windowStart)`. A trailing window that reaches back
before `windowStart` has seen at most `prevCount + currCount`. What the estimate dropped of that is
`prevCount` times the ticks from `windowStart` to `t`, of which there are at most `Window - 2`: that is
`Dropped`.

**BenchProofs**, about the runner for any finite number of workers and any number of calls, from
`HistAssumption` and `RunnerAssumption` (a latency is an int64, and 64 buckets cover it):

| Theorem | Statement |
|---|---|
| `RunTypeCorrect` | `RunSpec => []RunTypeOK` |
| `ReportExact` | `RunSpec => []ReportIsExact` |
| `OneLateCall` | `RunSpec => []OneLateCallAtMost` |
| `QuantileExact` | `RunSpec => []QuantileWithinFactorTwo` |

*The argument.* `ReportIsExact` speaks of a run that has returned; while it goes on (`RunInv`), the calls served
and granted are the sums of the workers' locals (`TalliesAddUp`); a worker that is leaving has handed over all
it has tallied, and one that made a late call makes no other (`WorkerOK`); and since the baseline nothing was
allocated but by the load, the timer and the runtime, because the gate is shut until then and goroutines are
spawned before (`LoadAllocates`). `SampleInv` says the same of each bucket: the samples that belong to the buckets up to `i`
are as many as the tallies, and then the report, have counted there. So the sample of a rank falls in the
bucket at which the counters reach the rank (`BucketOfRank`), whose bounds are a factor of two apart
(`UpperOf`). Two things that look like induction over data are done without it. A property of
`SumFunctionOnSet` is shown by taking a smallest part of the set for which it fails (`Minimal`, from the
library's `WFMin`), and what is needed of `2^i` is read off the cardinality of a power set (`Powers`).

About the configuration and the table, for all rates, capacities, words and periods, from
`ConfigAssumption` and `ConversionAssumption` (converting a float that does not fit yields no word between 0 and
the largest span, which no one-word bucket could take for a period or for none):

| Theorem | Statement |
|---|---|
| `ConfigTypeCorrect` | `Spec => []TypeOK` |
| `NeverPanics`, `RefusedForCause` | `Spec => []NumbersNeverPanic`, `[]RefusalsAreNeeded` |
| `ReportCompleteOrError` | `Spec => []CompleteOrError` |
| `Warned` | `Spec => []WarnedBeforeRows` |

*The argument.* `ConfigInv` carries what was checked at one step to the step that relies on it: a configuration
that is being driven, and whose list holds `atomic`, is one that constructor takes, NaN apart. That the
two agree is `SpanChecked`: where a period does not fit the word, `ConversionAssumption` says that the check
divides by no zero and finds the span too long, and where it fits, the check refuses a capacity just when the
constructor would. The converse,
that nothing is refused needlessly, includes `LimitRefused` for the sliding window's limit. `ReportInv`
says that what has been written and what is still to be written make up the table together, or, before
the tabwriter's share of it is due, the preamble; each write moves one line from the one to the other
(`MoveHead`, `NextRow`), and a failure ends it. The warning stands in the preamble, so any beginning of
the table that shows a row with denials shows it too (`Beginning`, `PreambleWarns`).

**FloatBucketsProofs**, for every precision of at least ten bits, every range of exponents, `RateScale`, set of
configurations, `MaxGap`, `MaxCalls`, slack and window length, from `FloatAssumption` and
`FloatBucketsAssumption`:

| Theorem | Statement |
|---|---|
| `TypeCorrect` | `Spec => []TypeOK`: levels are float64 values, and no refill lifts a bucket above its capacity |
| `SpendExact` | `Spec => []SpendIsExact` |
| `FillExact` | `Spec => []FillIsExact` |
| `DriftBounded` | ten roundings of the capacity a call, one part in 2^`Precision` each, bound how far a level is from the exact books |

What they assume, and the theorems do not speak of beyond it: counts, and the seconds of a run, are integers that
a float64 holds exactly; the slack is at most 1/512; a capacity is positive; a rate is zero, infinite, or
`rate / RateScale`, whole or not, such that what it adds in a tick is not subnormal (in float64, with ticks of a
nanosecond, not closer to zero than about 1e-298); nothing overflows to infinity unless the rate is infinite; a
tick and a share of a window are not subnormal; and a token bucket has no negative rate. NaN and minus infinity are
no rates here. float64 and `admitEpsilonRel` satisfy what concerns them, with a quantum of 2^-1074.

*The argument.* All of it rests on one fact about an operation: its result is off by one part in
2^`Precision` at most (`Rounding` for sums and products, `Quotients` for a division). The fact needs an exponent for
every number, whose existence is shown by `LeastNumber` (the library's `WFMin` over intervals, in place of an
induction), and powers of two that divide each other (`PowerOfSum`, `PowerDivides`), so that values of fewer bits are
not rounded at all (`FewBits`) and order survives (`RoundingKeepsOrder`). After that the errors are linear:
`Off(a, b, e)` says that `a` and `b` are at most `e` parts in 2^`Precision` apart, and it adds up (`OffSum`,
`OffMinus`), scales and survives `min` with a rim (`CutOff`). The seconds of a call are off by three roundings, its
accrual by five (`Elapsed`, `Accrual`, which divides by `RateScale` and so needs the product to be normal), the
refilled level by seven of the capacity and the level after the
admission by ten (`RefillDrift`, `SpendDrift`; `LeakDrift`, `FillDrift`). Cutting a refill at the capacity is what keeps
a long idle time, whose accrual has a large error, from adding more than that.

The invariant is `DInv`: each level is a float64 value of bounded size, and within the drift of `calls` calls
of the exact books. None of the three invariants is inductive without it: the verdict of the next call
depends on how far the level has drifted, of which the last verdict says nothing. It needs besides that a level
falls below zero by a small share of the capacity only (`IsTokens`) and exceeds it by no more (`IsLevel`),
since otherwise a slack relative to the batch or the capacity would not bound it. With an infinite rate the
token level may be not a number (`Sound`), which `TypeOK` allows and the second finding is about; the leaky
bucket's may not. `CoveredIs` turns `covered` into the inequality that `SpendVerdict`, `FillVerdict` and
`SlideVerdict` need of drift and slack. The sliding window has no drift, since its counts are integers.

*Only model-checked.* Liveness, which is out of the prover's reach: `EveryCallReturns` and `RunReturns`. Every other
property of a passing run is a theorem.

## 5. Not modelled

- Fused multiply-add, which the Go compiler may use on other architectures than amd64.
- Memory layout and cache-line padding: cost, not behaviour.
- `realClock`'s use of the monotonic reading, beyond its promise not to go back. A clock that goes
  back is outside the `Clock` contract.
- Which part of the runtime allocates during a bench run. It may allocate at any moment, so the allocation figure is
  exact only up to that and to the timer, which is allocated after the baseline (`runner.go:45-48`, `:93-95`).
- `elapsed` and the quotients `derive` makes of it: throughput, average latency, allocations per call.
- The cells of a row and their layout; blank lines; the wording of messages.
- The Go benchmarks, which assert nothing.

## 6. Plan

Done: the models and runs above, rounding and rendering included; the proofs of the contract, of the
four limiters that implement it, of the sliding window, of rounding and of the benchmark. Left, in this order:

1. In FloatBuckets, a capacity of zero or below, which the leaky bucket and the sliding window take, and rates of
   NaN, minus infinity or so near zero that their product with a tick is subnormal.
2. Fused multiply-add: the same bounds with one rounding less, on the architectures where Go uses it.
3. The quotients of `derive`, with the rounding of Float64.
