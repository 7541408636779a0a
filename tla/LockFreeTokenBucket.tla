-------------------------- MODULE LockFreeTokenBucket --------------------------
(***************************************************************************)
(* The token bucket that swaps a pointer to an immutable snapshot          *)
(* (internal/limiter/lockfree_tokenbucket.go).                             *)
(*                                                                         *)
(* A snapshot lives at an address.  CompareAndSwap compares addresses and  *)
(* nothing else, so the model keeps them: an address may be given to a new *)
(* snapshot as soon as nobody holds it, which is the garbage collector's   *)
(* promise and all the code has against ABA.  Each snapshot also carries,  *)
(* for the properties only, the units admitted when it was published.      *)
(*                                                                         *)
(* Quanta are as in TokenBucket: Unit to a token, Rate accruing per tick,  *)
(* an admission slack of Eps per token of the batch, exact arithmetic.     *)
(***************************************************************************)
EXTENDS LimiterPort

CONSTANTS
    Unit,      \* quanta per token
    Rate,      \* quanta that accrue per tick
    Capacity,  \* capacity in tokens
    Eps,       \* admission slack per token of the batch, in quanta
    MaxBatch,  \* no caller asks for more
    Addr,      \* addresses the allocator may hand out
    Nil        \* no snapshot

ASSUME LockFreeAssumption ==
    /\ Unit \in Nat \ {0}
    /\ Rate \in Nat
    /\ Capacity \in Nat
    /\ Eps \in Nat
    /\ MaxBatch \in Nat
    /\ \A n \in Batches : n <= MaxBatch
    /\ Nil \notin [addr : Addr, tokens : Int, last : Nat, admitted : Nat]

VARIABLES
    state,  \* the published snapshot
    old,    \* the snapshot each call in progress has loaded
    next    \* the snapshot each call is trying to install

bucketVars == <<state, old, next>>
vars == <<clock, pc, arg, inv, since, state, old, next>>

Snapshot == [addr : Addr, tokens : Int, last : Time, admitted : Nat]

(* admitEpsilon: the slack granted to a batch of n                         *)
AdmitEpsilon(n) == Eps * n

(* The token level of snapshot s refilled up to time t                     *)
Refilled(s, t) ==
    LET accrued == s.tokens + Rate * (t - s.last)
    IN  IF accrued <= Capacity * Unit THEN accrued ELSE Capacity * Unit

(* Mutant: snapshots come from a free list that ignores who still reads.   *)
FreeUnlessPublished(a) == a # state.addr

(* Nobody holds a pointer to address a.                                    *)
Free(a) ==
    /\ a # state.addr
    /\ \A p \in Procs : /\ old[p] # Nil => old[p].addr # a
                        /\ next[p] # Nil => next[p].addr # a

Advance == Tick /\ UNCHANGED bucketVars

Enter(p) == Call(p, "loading") /\ UNCHANGED bucketVars

EnterNothing(p) == CallNothing(p) /\ UNCHANGED bucketVars

(* b.state.Load()                                                          *)
Load(p) ==
    /\ pc[p] = "loading"
    /\ old' = [old EXCEPT ![p] = state]
    /\ pc'  = [pc EXCEPT ![p] = "deciding"]
    /\ UNCHANGED <<clock, arg, inv, since, state, next>>

(* Mutant: the clock is read once, on entry.                               *)
ReadingOnEntry(p) == inv[p]

(* b.clk.Now(), after the load.                                            *)
Reading(p) == clock

Enough(p) == Refilled(old[p], Reading(p)) + AdmitEpsilon(arg[p]) >= arg[p] * Unit

(* Mutant: the new snapshot keeps the old timestamp.                       *)
PrepareKeepingTimestamp(p) ==
    /\ pc[p] = "deciding"
    /\ Enough(p)
    /\ \E a \in Addr :
        /\ Free(a)
        /\ next' = [next EXCEPT ![p] =
                      [addr     |-> a,
                       tokens   |-> Refilled(old[p], Reading(p)) - arg[p] * Unit,
                       last     |-> old[p].last,
                       admitted |-> old[p].admitted + arg[p]]]
    /\ pc' = [pc EXCEPT ![p] = "swapping"]
    /\ UNCHANGED <<clock, arg, inv, since, state, old>>

(* nextLockFreeState admits: a fresh snapshot is ready to be swapped in.   *)
Prepare(p) ==
    /\ pc[p] = "deciding"
    /\ Enough(p)
    /\ \E a \in Addr :
        /\ Free(a)
        /\ next' = [next EXCEPT ![p] =
                      [addr     |-> a,
                       tokens   |-> Refilled(old[p], Reading(p)) - arg[p] * Unit,
                       last     |-> Reading(p),
                       admitted |-> old[p].admitted + arg[p]]]
    /\ pc' = [pc EXCEPT ![p] = "swapping"]
    /\ UNCHANGED <<clock, arg, inv, since, state, old>>

(* Mutant: a denial publishes the refill, as TokenBucket keeps it.         *)
DenyPublishing(p) ==
    /\ pc[p] = "deciding"
    /\ ~Enough(p)
    /\ \E a \in Addr :
        /\ Free(a)
        /\ state' = [old[p] EXCEPT !.addr = a, !.last = Reading(p),
                                   !.tokens = Refilled(old[p], Reading(p))]
    /\ old' = [old EXCEPT ![p] = Nil]
    /\ Refuse(p)
    /\ UNCHANGED next

(* nextLockFreeState refuses: denied without touching the state.           *)
Deny(p) ==
    /\ pc[p] = "deciding"
    /\ ~Enough(p)
    /\ old' = [old EXCEPT ![p] = Nil]
    /\ Refuse(p)
    /\ UNCHANGED <<state, next>>

(* CompareAndSwap sees the address it loaded.                              *)
Swap(p) ==
    /\ pc[p] = "swapping"
    /\ state.addr = old[p].addr
    /\ state' = next[p]
    /\ Grant(p, next[p].last)
    /\ old'  = [old EXCEPT ![p] = Nil]
    /\ next' = [next EXCEPT ![p] = Nil]

(* Mutant: the loser of a swap retries without loading again.              *)
RetryWithoutLoad(p) ==
    /\ pc[p] = "swapping"
    /\ state.addr # old[p].addr
    /\ next' = [next EXCEPT ![p] = Nil]
    /\ pc'   = [pc EXCEPT ![p] = "deciding"]
    /\ UNCHANGED <<clock, arg, inv, since, state, old>>

(* CompareAndSwap lost: back to the load.                                  *)
Retry(p) ==
    /\ pc[p] = "swapping"
    /\ state.addr # old[p].addr
    /\ old'  = [old EXCEPT ![p] = Nil]
    /\ next' = [next EXCEPT ![p] = Nil]
    /\ pc'   = [pc EXCEPT ![p] = "loading"]
    /\ UNCHANGED <<clock, arg, inv, since, state>>

Init ==
    /\ PortInit
    /\ \E a \in Addr : state = [addr |-> a, tokens |-> Capacity * Unit,
                                last |-> 0, admitted |-> 0]
    /\ old  = [p \in Procs |-> Nil]
    /\ next = [p \in Procs |-> Nil]

Step(p) == Load(p) \/ Prepare(p) \/ Deny(p) \/ Swap(p) \/ Retry(p)

Next == Advance \/ \E p \in Procs : Enter(p) \/ EnterNothing(p) \/ Step(p)

(* The Go scheduler runs every goroutine in a loop now and then.           *)
Fairness == \A p \in Procs : WF_vars(Step(p))

Spec == Init /\ [][Next]_vars
FairSpec == Spec /\ Fairness

--------------------------------------------------------------------------------
TypeOK ==
    /\ PortTypeOK({"loading", "deciding", "swapping"})
    /\ state \in Snapshot
    /\ old  \in [Procs -> Snapshot \cup {Nil}]
    /\ next \in [Procs -> Snapshot \cup {Nil}]
    /\ \A p \in Procs : /\ old[p]  # Nil <=> pc[p] \in {"deciding", "swapping"}
                        /\ next[p] # Nil <=> pc[p] = "swapping"

(* A swap that finds the address it loaded finds the snapshot it loaded:   *)
(* addresses do not come back while anybody remembers them                 *)
(* (lockfree_tokenbucket.go:34-36).                                        *)
NoABA ==
    \A p \in Procs :
        pc[p] \in {"deciding", "swapping"} /\ old[p].addr = state.addr
            => old[p] = state

(* A lost swap means somebody else was admitted since the load, so the     *)
(* system made progress (lockfree_tokenbucket.go:107-109).                 *)
LostSwapMeansProgress ==
    \A p \in Procs :
        pc[p] = "swapping" /\ old[p].addr # state.addr
            => old[p].admitted < since[0]

(* A stale snapshot never understates the bucket, so denying on it is      *)
(* sound (lockfree_tokenbucket.go:97-103).                                 *)
StaleOverestimates ==
    \A p \in Procs :
        pc[p] \in {"deciding", "swapping"}
            => Refilled(old[p], clock) >= Refilled(state, clock)

(* Every verdict is the exact answer at some time of the call, although    *)
(* denials are taken on stale snapshots and never written back.            *)
Contract == INSTANCE TokenBucketContract WITH
    pc         <- [p \in Procs |-> IF pc[p] \in Resting THEN pc[p] ELSE "busy"],
    credit     <- state.tokens,
    last       <- state.last,
    CapQ       <- Capacity * Unit,
    Slack      <- [n \in Batches |-> AdmitEpsilon(n)],
    MaxSlack   <- Eps * MaxBatch,
    Backdating <- FALSE

ImplementsContract == Contract!Spec

(* The bucket starts full: no batch is denied while it and everything      *)
(* admitted so far fit a full bucket, however stale the snapshot it was    *)
(* denied on (lockfree_tokenbucket.go:101-105).                            *)
BurstIsServed ==
    [][\A p \in Procs : Deny(p) => since[0] + arg[p] > Capacity]_vars

(* The loop ends: up to the horizon a finite credit accrues, so only       *)
(* finitely many swaps can be lost to others.                              *)
EveryCallReturns == \A p \in Procs : pc[p] \notin Resting ~> pc[p] \in Resting
================================================================================
