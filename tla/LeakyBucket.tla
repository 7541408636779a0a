------------------------------ MODULE LeakyBucket ------------------------------
(***************************************************************************)
(* The mutex-guarded leaky bucket used as a meter                          *)
(* (internal/limiter/leakybucket.go): the level drains with time, and a    *)
(* batch is poured if it does not overflow.                                *)
(*                                                                         *)
(* The level is counted in quanta, Unit to a request, and Rate quanta      *)
(* drain per tick; the constructor accepts a Rate that is not positive.    *)
(* admitEpsilon(capacity) is Eps * Capacity quanta whatever the batch.     *)
(***************************************************************************)
EXTENDS MutexPort

CONSTANTS
    Unit,      \* quanta per request
    Rate,      \* quanta that drain per tick
    Capacity,  \* capacity in requests
    Eps        \* admission slack per request of the capacity, in quanta

ASSUME LeakyBucketAssumption ==
    /\ Unit \in Nat \ {0}
    /\ Rate \in Int
    /\ Capacity \in Nat
    /\ Eps \in Nat

VARIABLES
    level,  \* what is in the bucket, in quanta
    last    \* the time of the last leak

bucketVars == <<level, last>>
vars == <<clock, pc, arg, inv, since, mu, now, level, last>>

AdmitEpsilon == Eps * Capacity

(* Mutant: the drained level is not floored at empty.                      *)
DrainedBelowEmpty(t) == level - Rate * (t - last)

(* The level at time t.  Nothing drains unless the product is positive.    *)
Drained(t) ==
    LET leaked == Rate * (t - last)
    IN  IF leaked <= 0 THEN level
        ELSE IF level <= leaked THEN 0 ELSE level - leaked

Overflows(p) ==
    Drained(now[p]) + arg[p] * Unit > Capacity * Unit + AdmitEpsilon

Pour(p) ==
    /\ pc[p] = "holding"
    /\ ~Overflows(p)
    /\ level' = Drained(now[p]) + arg[p] * Unit
    /\ last'  = now[p]
    /\ Allow(p)

(* Mutant: a denial moves the timestamp but drops the leak.                *)
DenyDroppingLeak(p) ==
    /\ pc[p] = "holding"
    /\ Overflows(p)
    /\ level' = level
    /\ last'  = now[p]
    /\ Refusal(p)

(* A denial keeps the leak it computed.                                    *)
Deny(p) ==
    /\ pc[p] = "holding"
    /\ Overflows(p)
    /\ level' = Drained(now[p])
    /\ last'  = now[p]
    /\ Refusal(p)

Init ==
    /\ MutexInit
    /\ level = 0
    /\ last  = 0

Next ==
    \/ Advance /\ UNCHANGED bucketVars
    \/ \E p \in Procs :
        \/ Enter(p) /\ UNCHANGED bucketVars
        \/ EnterNothing(p) /\ UNCHANGED bucketVars
        \/ Acquire(p) /\ UNCHANGED bucketVars
        \/ Pour(p)
        \/ Deny(p)

Spec == Init /\ [][Next]_vars

--------------------------------------------------------------------------------
TypeOK ==
    /\ MutexTypeOK
    /\ level \in Nat
    /\ last \in Time

(* Room in the bucket is credit of a token bucket: the same contract, with *)
(* the slack of the capacity in place of the slack of the batch.           *)
Contract == INSTANCE TokenBucketContract WITH
    pc         <- [p \in Procs |-> IF pc[p] \in Resting THEN pc[p] ELSE "busy"],
    credit     <- Capacity * Unit - level,
    Rate       <- IF Rate > 0 THEN Rate ELSE 0,
    CapQ       <- Capacity * Unit,
    Slack      <- [n \in Batches |-> AdmitEpsilon],
    MaxSlack   <- AdmitEpsilon,
    Backdating <- FALSE

ImplementsContract == Contract!Spec
================================================================================
