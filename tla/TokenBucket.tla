------------------------------ MODULE TokenBucket ------------------------------
(***************************************************************************)
(* The mutex-guarded token bucket (internal/limiter/tokenbucket.go).       *)
(*                                                                         *)
(* Tokens are counted in quanta, Unit to a token, Rate accruing per tick,  *)
(* and the arithmetic is exact.  admitEpsilon(n) is Eps * n quanta, so     *)
(* Eps / Unit stands for admitEpsilonRel.                                  *)
(***************************************************************************)
EXTENDS MutexPort

CONSTANTS
    Unit,      \* quanta per token
    Rate,      \* quanta that accrue per tick
    Capacity,  \* capacity in tokens
    Eps,       \* admission slack per token of the batch, in quanta
    MaxBatch   \* no caller asks for more

ASSUME TokenBucketAssumption ==
    /\ Unit \in Nat \ {0}
    /\ Rate \in Nat
    /\ Capacity \in Nat
    /\ Eps \in Nat
    /\ MaxBatch \in Nat
    /\ \A n \in Batches : n <= MaxBatch

VARIABLES
    tokens,  \* the token level, in quanta
    last     \* the time of the last refill

bucketVars == <<tokens, last>>
vars == <<clock, pc, arg, inv, since, mu, now, tokens, last>>

(* admitEpsilon: the slack granted to a batch of n                         *)
AdmitEpsilon(n) == Eps * n

(* tokens after refill up to time t                                        *)
Refilled(t) ==
    LET accrued == tokens + Rate * (t - last)
    IN  IF accrued <= Capacity * Unit THEN accrued ELSE Capacity * Unit

Enough(p) == Refilled(now[p]) + AdmitEpsilon(arg[p]) >= arg[p] * Unit

Spend(p) ==
    /\ pc[p] = "holding"
    /\ Enough(p)
    /\ tokens' = Refilled(now[p]) - arg[p] * Unit
    /\ last'   = now[p]
    /\ Allow(p)

(* Mutant: a denial moves the timestamp but drops the refill.              *)
DenyDroppingRefill(p) ==
    /\ pc[p] = "holding"
    /\ ~Enough(p)
    /\ tokens' = tokens
    /\ last'   = now[p]
    /\ Refusal(p)

(* A denial keeps the refill it computed.                                  *)
Deny(p) ==
    /\ pc[p] = "holding"
    /\ ~Enough(p)
    /\ tokens' = Refilled(now[p])
    /\ last'   = now[p]
    /\ Refusal(p)

Init ==
    /\ MutexInit
    /\ tokens = Capacity * Unit
    /\ last   = 0

Next ==
    \/ Advance /\ UNCHANGED bucketVars
    \/ \E p \in Procs :
        \/ Enter(p) /\ UNCHANGED bucketVars
        \/ EnterNothing(p) /\ UNCHANGED bucketVars
        \/ Acquire(p) /\ UNCHANGED bucketVars
        \/ Spend(p)
        \/ Deny(p)

(* The holder of the mutex keeps running.  Acquiring is strongly fair:     *)
(* sync.Mutex hands over to a waiter that has starved for a millisecond.   *)
Fairness ==
    \A p \in Procs :
        /\ SF_vars(Acquire(p) /\ UNCHANGED bucketVars)
        /\ WF_vars(Spend(p) \/ Deny(p))

Spec == Init /\ [][Next]_vars
FairSpec == Spec /\ Fairness

--------------------------------------------------------------------------------
TypeOK ==
    /\ MutexTypeOK
    /\ tokens \in Int
    /\ last \in Time

(* The mutex bucket implements the contract, and is never decided in the   *)
(* past: each verdict is the exact answer at some time of the call.        *)
Contract == INSTANCE TokenBucketContract WITH
    pc         <- [p \in Procs |-> IF pc[p] \in Resting THEN pc[p] ELSE "busy"],
    credit     <- tokens,
    CapQ       <- Capacity * Unit,
    Slack      <- [n \in Batches |-> AdmitEpsilon(n)],
    MaxSlack   <- Eps * MaxBatch,
    Backdating <- FALSE

ImplementsContract == Contract!Spec

(* The bucket starts full: no batch is denied while it and everything      *)
(* admitted so far fit a full bucket (tokenbucket.go:37-39).               *)
BurstIsServed ==
    [][\A p \in Procs : Deny(p) => since[0] + arg[p] > Capacity]_vars

(* A caller is never left waiting: the mutex is released on both verdicts  *)
(* (limiter.go:86-88, "It never blocks").                                  *)
EveryCallReturns == \A p \in Procs : pc[p] \notin Resting ~> pc[p] \in Resting
================================================================================
