-------------------------- MODULE TokenBucketContract --------------------------
(***************************************************************************)
(* What the token-bucket family promises: TokenBucket, LockFreeTokenBucket *)
(* and AtomicTokenBucket, and LeakyBucket read upside down (its free room  *)
(* is the credit).  A call takes effect at one instant between its         *)
(* invocation and its return, and at some time t of the clock within the   *)
(* call.                                                                   *)
(*                                                                         *)
(* Credit is counted in quanta: a token is Unit quanta, and Rate quanta    *)
(* accrue per tick up to CapQ.  Slack[n] is what the admission comparison  *)
(* forgives a batch of n (admitEpsilon).                                   *)
(*                                                                         *)
(* Backdating says whether a call may be decided at a time earlier than    *)
(* the last admission.  The mutex and the pointer-CAS implementations      *)
(* never do that; AtomicTokenBucket reads the clock once before its CAS    *)
(* loop and does.                                                          *)
(***************************************************************************)
EXTENDS LimiterPort

CONSTANTS
    Unit,       \* quanta per token
    Rate,       \* quanta that accrue per tick
    CapQ,       \* a full bucket, in quanta
    Slack,      \* Slack[n]: quanta forgiven to a batch of n
    MaxSlack,   \* the largest slack of any batch
    Backdating  \* may a call be decided at a time before the last admission?

ASSUME ContractAssumption ==
    /\ Unit \in Nat \ {0}
    /\ Rate \in Nat
    /\ CapQ \in Nat
    /\ MaxSlack \in Nat
    /\ Slack \in [Batches -> Int]
    /\ \A n \in Batches : n > 0 => Slack[n] \in 0..MaxSlack
    /\ Backdating \in BOOLEAN

VARIABLES
    credit,  \* quanta held at time last; negative while a slack is owed
    last     \* the latest time at which credit was settled

vars == <<clock, pc, arg, inv, since, credit, last>>

(* Mutant: the bucket has no rim.                                          *)
CreditAtUncapped(t) == credit + Rate * (t - last)

(* The credit at time t; before last it is read backwards along the rate.  *)
CreditAt(t) ==
    LET accrued == credit + Rate * (t - last)
    IN  IF accrued <= CapQ THEN accrued ELSE CapQ

(* Mutant: a late decision rewinds the state to its own time.              *)
SettleRewinding(t, spent) ==
    /\ credit' = (IF t < last THEN credit ELSE CreditAt(t)) - spent
    /\ last'   = t

(* What is left settled when a call is decided at t: the state never goes  *)
(* back in time.                                                           *)
Settle(t, spent) ==
    /\ credit' = (IF t < last THEN credit ELSE CreditAt(t)) - spent
    /\ last'   = IF t < last THEN last ELSE t

(* Mutant: room for one token is room for the batch.                       *)
FitsOne(n, t) == CreditAt(t) + Slack[n] >= Unit

Fits(n, t) == CreditAt(t) + Slack[n] >= n * Unit

(* The times at which the call of p may be decided.                        *)
Moments(p) == {t \in inv[p]..clock : Backdating \/ last <= t}

Begin(p) == Call(p, "busy") /\ UNCHANGED <<credit, last>>

Skip(p) == CallNothing(p) /\ UNCHANGED <<credit, last>>

(* The whole batch fits at a moment of the call, and is spent.             *)
Admit(p) ==
    /\ pc[p] = "busy"
    /\ \E t \in Moments(p) : /\ Fits(arg[p], t)
                             /\ Settle(t, arg[p] * Unit)
                             /\ Grant(p, t)

(* At a moment of the call the batch does not fit.  Nothing is spent; the  *)
(* accrual may be settled or left to a later call.                         *)
Deny(p) ==
    /\ pc[p] = "busy"
    /\ \E t \in Moments(p) : /\ ~Fits(arg[p], t)
                             /\ Settle(t, 0) \/ UNCHANGED <<credit, last>>
    /\ Refuse(p)

Advance == Tick /\ UNCHANGED <<credit, last>>

Init ==
    /\ PortInit
    /\ credit = CapQ
    /\ last = 0

Next ==
    \/ Advance
    \/ \E p \in Procs : Begin(p) \/ Skip(p) \/ Admit(p) \/ Deny(p)

Spec == Init /\ [][Next]_vars

--------------------------------------------------------------------------------
TypeOK ==
    /\ PortTypeOK({"busy"})
    /\ credit \in Int
    /\ last \in Time
    /\ last <= clock

(* The books balance: what was admitted since any time s, together with    *)
(* the credit still held, never exceeds a full bucket plus the accrual     *)
(* since s; and credit is lost to admissions alone.  This is the inductive *)
(* core of WindowBound and of BurstIsServed.                               *)
Accounting ==
    /\ \A s \in Time :
        /\ s <= last => since[s] * Unit + credit <= CapQ + Rate * (last - s)
        /\ s > last  => since[s] = 0
    /\ since[0] * Unit + credit >= CapQ

(* Whatever slacks were granted on the way, the bucket never owes more     *)
(* than one: the debt is bounded for the lifetime of the limiter, not per  *)
(* call (limiter.go:26-27).                                                *)
DebtBound == -MaxSlack <= credit /\ credit <= CapQ

(* The burst-plus-rate guarantee, over every trailing interval: from any   *)
(* time s to the last decision, no more is admitted than a full bucket,    *)
(* the accrual of that interval and a single slack.                        *)
WindowBound ==
    \A s \in Time :
        s <= last => since[s] * Unit <= CapQ + MaxSlack + Rate * (last - s)

(* Where no call is decided in the past, a bucket that starts full denies  *)
(* no batch that fits it together with everything admitted so far.         *)
BurstIsServed ==
    [][\A p \in Procs :
        Deny(p) => Backdating \/ (since[0] + arg[p]) * Unit > CapQ]_vars
================================================================================
