------------------------------- MODULE MutexPort -------------------------------
(***************************************************************************)
(* What the three mutex-guarded limiters share (tokenbucket.go,            *)
(* leakybucket.go, slidingwindow.go): AllowN takes the limiter's mutex,    *)
(* reads the clock, decides, and releases the mutex on every return        *)
(* (defer).  Time may pass, and other callers may arrive, between any two  *)
(* of these.                                                               *)
(***************************************************************************)
EXTENDS LimiterPort

VARIABLES
    mu,  \* the callers that hold the mutex: none or one
    now  \* the clock reading of the call in progress, 0 before it

mutexVars == <<mu, now>>

(* Types, and the mutex is held exactly by the caller inside the critical  *)
(* section.                                                                *)
MutexTypeOK ==
    /\ PortTypeOK({"waiting", "holding"})
    /\ mu \subseteq Procs
    /\ now \in [Procs -> Time]
    /\ \A p \in Procs : pc[p] = "holding" <=> mu = {p}

MutexInit ==
    /\ PortInit
    /\ mu  = {}
    /\ now = [p \in Procs |-> 0]

Enter(p) == Call(p, "waiting") /\ UNCHANGED mutexVars

EnterNothing(p) == CallNothing(p) /\ UNCHANGED mutexVars

Advance == Tick /\ UNCHANGED mutexVars

(* Mutant: the clock is read on entry, before the lock is taken.           *)
AcquireLateLock(p) ==
    /\ pc[p] = "waiting"
    /\ mu = {}
    /\ mu'  = {p}
    /\ now' = [now EXCEPT ![p] = inv[p]]
    /\ pc'  = [pc EXCEPT ![p] = "holding"]
    /\ UNCHANGED <<clock, arg, inv, since>>

(* mu.Lock(), then clk.Now() under the lock.                               *)
Acquire(p) ==
    /\ pc[p] = "waiting"
    /\ mu = {}
    /\ mu'  = {p}
    /\ now' = [now EXCEPT ![p] = clock]
    /\ pc'  = [pc EXCEPT ![p] = "holding"]
    /\ UNCHANGED <<clock, arg, inv, since>>

(* Mutant: no deferred unlock.                                             *)
NoRelease(p) ==
    /\ mu'  = mu
    /\ now' = [now EXCEPT ![p] = 0]

(* The deferred mu.Unlock().                                               *)
Release(p) ==
    /\ mu'  = mu \ {p}
    /\ now' = [now EXCEPT ![p] = 0]

(* Mutant: an early return on denial skips the unlock.                     *)
RefusalHoldingMutex(p) ==
    /\ Refuse(p)
    /\ mu'  = mu
    /\ now' = [now EXCEPT ![p] = 0]

(* The two ways out of the critical section.                               *)
Allow(p) == Grant(p, now[p]) /\ Release(p)
Refusal(p) == Refuse(p) /\ Release(p)
================================================================================
