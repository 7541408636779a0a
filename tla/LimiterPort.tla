------------------------------ MODULE LimiterPort ------------------------------
(***************************************************************************)
(* The port every limiter of internal/limiter implements (limiter.go): a   *)
(* caller invokes AllowN(n) and is told allowed or denied, and all calls   *)
(* share one Clock whose readings never decrease.                          *)
(*                                                                         *)
(* Time is a count of ticks from the construction of the limiter, bounded  *)
(* by Horizon.  A caller is one goroutine; it makes any number of calls,   *)
(* one at a time.  The verdict of its last call is where its program       *)
(* counter rests.                                                          *)
(*                                                                         *)
(* Two history variables record what the properties speak of and no        *)
(* limiter reads: inv, the time at which a call in progress was made, and  *)
(* since, the units admitted at or after each time stamp.                  *)
(***************************************************************************)
EXTENDS Integers

CONSTANTS
    Procs,    \* the goroutines that share the limiter
    Batches,  \* the arguments n that callers pass to AllowN
    Horizon   \* the last tick of the clock

ASSUME PortAssumption == /\ Batches \subseteq Int
                         /\ Horizon \in Nat

VARIABLES
    clock,  \* what Clock.Now() returns now
    pc,     \* where each caller is
    arg,    \* n of the call in progress, 0 outside a call
    inv,    \* when the call in progress was made, 0 outside a call
    since   \* since[s]: units admitted by calls that took time t >= s

portVars == <<clock, pc, arg, inv, since>>

Time    == 0..Horizon
Resting == {"ready", "allowed", "denied"}

PortTypeOK(labels) ==
    /\ clock \in Time
    /\ pc \in [Procs -> Resting \cup labels]
    /\ arg \in [Procs -> Batches \cup {0}]
    /\ inv \in [Procs -> Time]
    /\ since \in [Time -> Nat]
    /\ \A p \in Procs : /\ inv[p] <= clock
                        /\ pc[p] \notin Resting => arg[p] > 0

PortInit ==
    /\ clock = 0
    /\ pc    = [p \in Procs |-> "ready"]
    /\ arg   = [p \in Procs |-> 0]
    /\ inv   = [p \in Procs |-> 0]
    /\ since = [s \in Time |-> 0]

(* Time passes at any moment, also in the middle of a call.                *)
Tick ==
    /\ clock < Horizon
    /\ clock' = clock + 1
    /\ UNCHANGED <<pc, arg, inv, since>>

(* AllowN(n) with n <= 0 is granted on the spot, whatever the state.       *)
CallNothing(p) ==
    /\ pc[p] \in Resting
    /\ \E n \in Batches : n <= 0
    /\ pc' = [pc EXCEPT ![p] = "allowed"]
    /\ UNCHANGED <<clock, arg, inv, since>>

(* Mutant: batches that are not positive go to work like any other.        *)
CallAny(p, label) ==
    /\ pc[p] \in Resting
    /\ \E n \in Batches : arg' = [arg EXCEPT ![p] = n]
    /\ inv' = [inv EXCEPT ![p] = clock]
    /\ pc'  = [pc EXCEPT ![p] = label]
    /\ UNCHANGED <<clock, since>>

(* AllowN(n) with n > 0 starts its work at the given label.                *)
Call(p, label) ==
    /\ pc[p] \in Resting
    /\ \E n \in Batches : n > 0 /\ arg' = [arg EXCEPT ![p] = n]
    /\ inv' = [inv EXCEPT ![p] = clock]
    /\ pc'  = [pc EXCEPT ![p] = label]
    /\ UNCHANGED <<clock, since>>

Finish(p, verdict) ==
    /\ pc'  = [pc EXCEPT ![p] = verdict]
    /\ arg' = [arg EXCEPT ![p] = 0]
    /\ inv' = [inv EXCEPT ![p] = 0]
    /\ UNCHANGED clock

(* The call returns true; its units are admitted at time t.                *)
Grant(p, t) ==
    /\ since' = [s \in Time |-> IF s <= t THEN since[s] + arg[p] ELSE since[s]]
    /\ Finish(p, "allowed")

(* The call returns false.                                                 *)
Refuse(p) ==
    /\ Finish(p, "denied")
    /\ UNCHANGED since
================================================================================
