--------------------------- MODULE AtomicTokenBucket ---------------------------
(***************************************************************************)
(* The token bucket in one atomic word                                     *)
(* (internal/limiter/atomic_tokenbucket.go).  The word vt is the instant   *)
(* at which the credit is zero; credit is clock time minus vt, clamped to  *)
(* a full bucket.                                                          *)
(*                                                                         *)
(* A tick is a nanosecond, T ticks emit a token, and all arithmetic is     *)
(* that of a signed word, which wraps.  MaxSpan plays maxBucketSpanNanos   *)
(* (1 << 62): the word holds -2*MaxSpan .. 2*MaxSpan - 1, as int64 does.   *)
(* The history variable lin is the latest clock reading of any admission.  *)
(***************************************************************************)
EXTENDS LimiterPort

CONSTANTS
    T,         \* nanosPerToken, the emission interval
    Capacity,  \* capacity as given to the constructor; may be nonpositive
    MaxSpan    \* maxBucketSpanNanos

(* What NewAtomicTokenBucket lets through, and clock readings that fit a   *)
(* time.Duration.                                                          *)
ASSUME AtomicAssumption ==
    /\ T \in Nat \ {0}
    /\ MaxSpan \in Nat
    /\ T <= MaxSpan
    /\ Capacity \in Int
    /\ Capacity * T <= MaxSpan
    /\ Horizon < 2 * MaxSpan

VARIABLES
    vt,    \* the shared word: when the credit is zero
    now,   \* nowNs of each call in progress, 0 before it is read
    seen,  \* the value of vt each call has loaded, 0 before that
    lin    \* history: the latest reading an admission has used

vars == <<clock, pc, arg, inv, since, vt, now, seen, lin>>

Word == -2 * MaxSpan .. 2 * MaxSpan - 1

(* The value an int64 operation leaves in a word                           *)
Wrap(x) == IF x \in Word THEN x ELSE ((x + 2 * MaxSpan) % (4 * MaxSpan)) - 2 * MaxSpan

CapT == IF Capacity > 0 THEN Capacity * T ELSE 0

Need(p) == Wrap(arg[p] * T)

Floor(p) == Wrap(now[p] - CapT)

(* Mutant: no clamp, an idle bucket keeps accruing.                        *)
EffUnclamped(p, v) == v

(* An older virtual time than the floor would credit more than a full      *)
(* bucket.                                                                 *)
Eff(p, v) == IF v < Floor(p) THEN Floor(p) ELSE v

Avail(p, v) == Wrap(now[p] - Eff(p, v))

(* The word to install                                                     *)
NextVT(p) == Wrap(Eff(p, seen[p]) + Need(p))

Advance == Tick /\ UNCHANGED <<vt, now, seen, lin>>

Enter(p) == Call(p, "entered") /\ UNCHANGED <<vt, now, seen, lin>>

EnterNothing(p) == CallNothing(p) /\ UNCHANGED <<vt, now, seen, lin>>

(* Mutant: the batch is compared with nothing.                             *)
TooLargeNever(p) == FALSE

TooLarge(p) == arg[p] > Capacity

(* A batch beyond the capacity is refused before anything is computed.     *)
DenyTooLarge(p) ==
    /\ pc[p] = "entered"
    /\ TooLarge(p)
    /\ Refuse(p)
    /\ UNCHANGED <<vt, now, seen, lin>>

(* elapsedNanos(): the one clock reading of the call.  It is not negative, *)
(* the clock being no earlier than the origin.                             *)
ReadClock(p) ==
    /\ pc[p] = "entered"
    /\ ~TooLarge(p)
    /\ now' = [now EXCEPT ![p] = clock]
    /\ pc'  = [pc EXCEPT ![p] = "loading"]
    /\ UNCHANGED <<clock, arg, inv, since, vt, seen, lin>>

(* Mutant: one tick short is enough.                                       *)
EnoughOffByOne(p) == Avail(p, vt) >= Need(p) - 1

Enough(p) == Avail(p, vt) >= Need(p)

(* vt.Load() finds credit for the batch.                                   *)
Load(p) ==
    /\ pc[p] = "loading"
    /\ Enough(p)
    /\ seen' = [seen EXCEPT ![p] = vt]
    /\ pc'   = [pc EXCEPT ![p] = "swapping"]
    /\ UNCHANGED <<clock, arg, inv, since, vt, now, lin>>

(* vt.Load() finds too little: denied without a CAS.                       *)
Deny(p) ==
    /\ pc[p] = "loading"
    /\ ~Enough(p)
    /\ Refuse(p)
    /\ now' = [now EXCEPT ![p] = 0]
    /\ UNCHANGED <<vt, seen, lin>>

(* Mutant: a plain store in place of the CAS.                              *)
SwapBlindly(p) ==
    /\ pc[p] = "swapping"
    /\ vt'  = NextVT(p)
    /\ lin' = IF now[p] > lin THEN now[p] ELSE lin
    /\ Grant(p, now[p])
    /\ now'  = [now EXCEPT ![p] = 0]
    /\ seen' = [seen EXCEPT ![p] = 0]

(* CompareAndSwap finds the value it loaded.                               *)
Swap(p) ==
    /\ pc[p] = "swapping"
    /\ vt = seen[p]
    /\ vt'  = NextVT(p)
    /\ lin' = IF now[p] > lin THEN now[p] ELSE lin
    /\ Grant(p, now[p])
    /\ now'  = [now EXCEPT ![p] = 0]
    /\ seen' = [seen EXCEPT ![p] = 0]

(* Mutant: the loop swaps again without loading.                           *)
RetryWithoutLoad(p) ==
    /\ pc[p] = "swapping"
    /\ vt # seen[p]
    /\ UNCHANGED vars

(* CompareAndSwap lost: load again, keep the clock reading.                *)
Retry(p) ==
    /\ pc[p] = "swapping"
    /\ vt # seen[p]
    /\ seen' = [seen EXCEPT ![p] = 0]
    /\ pc'   = [pc EXCEPT ![p] = "loading"]
    /\ UNCHANGED <<clock, arg, inv, since, vt, now, lin>>

Init ==
    /\ PortInit
    /\ vt   = -CapT
    /\ now  = [p \in Procs |-> 0]
    /\ seen = [p \in Procs |-> 0]
    /\ lin  = 0

Step(p) ==
    DenyTooLarge(p) \/ ReadClock(p) \/ Load(p) \/ Deny(p) \/ Swap(p) \/ Retry(p)

Next == Advance \/ \E p \in Procs : Enter(p) \/ EnterNothing(p) \/ Step(p)

(* The Go scheduler runs every goroutine in a loop now and then.           *)
Fairness == \A p \in Procs : WF_vars(Step(p))

Spec == Init /\ [][Next]_vars
FairSpec == Spec /\ Fairness

--------------------------------------------------------------------------------
InFlight(p) == pc[p] \in {"loading", "swapping"}

TypeOK ==
    /\ PortTypeOK({"entered", "loading", "swapping"})
    /\ vt \in Word
    /\ now \in [Procs -> Time]
    /\ seen \in [Procs -> Word]
    /\ lin \in Time

(* Nothing wraps on the way to a verdict: the early refusal bounds the     *)
(* cost, the clamp bounds the credit                                       *)
(* (atomic_tokenbucket.go:239-240, 276-282).                               *)
ExactArithmetic ==
    \A p \in Procs : InFlight(p) =>
        /\ arg[p] * T \in Word
        /\ now[p] - CapT \in Word
        /\ now[p] - Eff(p, vt) \in Word
        /\ pc[p] = "swapping" => Eff(p, seen[p]) + Need(p) \in Word

(* The word only moves forward, by a token or more, so a value once loaded *)
(* never comes back and the CAS cannot suffer ABA                          *)
(* (atomic_tokenbucket.go:231-233).                                        *)
VirtualTimeAdvances == [][vt' # vt => vt' >= vt + T]_vars

(* The instant of zero credit is never ahead of the latest reading an      *)
(* admission used, which bounds how negative a late reader's credit can be *)
(* (atomic_tokenbucket.go:279-282).                                        *)
NeverAheadOfReadings == vt <= lin /\ lin <= clock

(* One word is enough to implement the contract, with verdicts dated back  *)
(* to the reading of the call.                                             *)
Contract == INSTANCE TokenBucketContract WITH
    pc         <- [p \in Procs |-> IF pc[p] \in Resting THEN pc[p] ELSE "busy"],
    credit     <- lin - vt,
    last       <- lin,
    Unit       <- T,
    Rate       <- 1,
    CapQ       <- CapT,
    Slack      <- [n \in Batches |-> 0],
    MaxSlack   <- 0,
    Backdating <- TRUE

ImplementsContract == Contract!Spec

(* The loop ends: the cost of each lost swap is somebody's admission, and  *)
(* up to the horizon a finite credit accrues.                              *)
EveryCallReturns == \A p \in Procs : pc[p] \notin Resting ~> pc[p] \in Resting

(* The bucket starts full: no batch is denied while it and everything      *)
(* admitted so far fit a full bucket.                                      *)
BurstIsServed ==
    [][\A p \in Procs : Deny(p) => since[0] + arg[p] > Capacity]_vars
================================================================================
