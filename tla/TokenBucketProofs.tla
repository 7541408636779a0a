--------------------------- MODULE TokenBucketProofs ---------------------------
(***************************************************************************)
(* The mutex bucket implements the strict contract, for every rate,        *)
(* capacity, slack and number of callers.  A verdict takes effect at the   *)
(* clock reading of its call; the lock is what keeps that reading from     *)
(* being older than the last refill.                                       *)
(***************************************************************************)
EXTENDS TokenBucket, TLAPS

(***************************************************************************)
(* The port and its mutex, as in the proofs of the other mutex limiters:   *)
(* every step keeps the types, mutual exclusion among them, and the clock  *)
(* reading of the holder was taken during its call.                        *)
(***************************************************************************)
LEMMA BatchInteger == \A n \in Batches : n \in Int
  BY PortAssumption, Zenon

(* A call that is doing any work asks for a positive batch.                *)
LEMMA ArgPositive ==
    ASSUME NEW labels, PortTypeOK(labels), NEW p \in Procs, pc[p] \notin Resting
    PROVE  arg[p] \in Nat \ {0} /\ arg[p] \in Batches
  <1>1. arg[p] \in Batches \cup {0} /\ arg[p] > 0
    BY DEF PortTypeOK
  <1>2. arg[p] \in Batches
    BY <1>1
  <1>3. arg[p] \in Int
    BY <1>2, BatchInteger
  <1> QED
    BY <1>1, <1>2, <1>3

(* A call that starts keeps the port's types.                              *)
LEMMA CallType ==
    ASSUME NEW labels, PortTypeOK(labels), NEW label \in labels,
           NEW p \in Procs, Call(p, label)
    PROVE  PortTypeOK(labels)'
  <1>1. PICK n \in Batches : n > 0 /\ arg' = [arg EXCEPT ![p] = n]
    BY DEF Call
  <1>2. \A q \in Procs : pc'[q] \notin Resting => arg'[q] > 0
    BY <1>1 DEF Call, PortTypeOK
  <1>3. \A q \in Procs : inv'[q] <= clock'
    BY PortAssumption DEF Call, PortTypeOK, Time
  <1> QED
    BY <1>1, <1>2, <1>3 DEF Call, PortTypeOK

(* A call that returns keeps them, granted or refused.                     *)
LEMMA FinishType ==
    ASSUME NEW labels, PortTypeOK(labels), NEW p \in Procs,
           NEW verdict \in Resting, Finish(p, verdict), since' \in [Time -> Nat]
    PROVE  PortTypeOK(labels)'
  <1>1. \A q \in Procs : pc'[q] \notin Resting => arg'[q] > 0
    BY DEF Finish, PortTypeOK
  <1>2. \A q \in Procs : inv'[q] <= clock'
    BY PortAssumption DEF Finish, PortTypeOK, Time
  <1> QED
    BY <1>1, <1>2, PortAssumption DEF Finish, PortTypeOK, Time

LEMMA GrantType ==
    ASSUME NEW labels, PortTypeOK(labels), NEW p \in Procs,
           pc[p] \notin Resting, NEW t, Grant(p, t)
    PROVE  PortTypeOK(labels)'
  <1>1. arg[p] \in Nat
    BY ArgPositive
  <1>2. since' \in [Time -> Nat]
    BY <1>1 DEF Grant, PortTypeOK
  <1> QED
    BY <1>2, FinishType DEF Grant, Resting

LEMMA RefuseType ==
    ASSUME NEW labels, PortTypeOK(labels), NEW p \in Procs, Refuse(p)
    PROVE  PortTypeOK(labels)'
  BY FinishType DEF Refuse, PortTypeOK, Resting

(* Ticks and empty batches keep them.                                      *)
LEMMA TickType ==
    ASSUME NEW labels, PortTypeOK(labels), Tick
    PROVE  PortTypeOK(labels)'
  BY PortAssumption DEF Tick, PortTypeOK, Time

LEMMA CallNothingType ==
    ASSUME NEW labels, PortTypeOK(labels), NEW p \in Procs, CallNothing(p)
    PROVE  PortTypeOK(labels)'
  BY DEF CallNothing, PortTypeOK, Resting

(* A step within a call moves its program counter and nothing else here.   *)
LEMMA StepType ==
    ASSUME NEW labels, PortTypeOK(labels), NEW p \in Procs,
           pc[p] \notin Resting, NEW label \in labels,
           pc' = [pc EXCEPT ![p] = label],
           UNCHANGED <<clock, arg, inv, since>>
    PROVE  PortTypeOK(labels)'
  BY DEF PortTypeOK

LEMMA InitType ==
    ASSUME NEW labels, PortInit
    PROVE  PortTypeOK(labels)
  BY PortAssumption DEF PortInit, PortTypeOK, Time, Resting

--------------------------------------------------------------------------------

Labels == {"waiting", "holding"}

(* Types, and the reading of the holder was taken during its call.         *)
MutexInv ==
    /\ MutexTypeOK
    /\ \A p \in Procs : pc[p] = "holding" => inv[p] <= now[p] /\ now[p] <= clock

LEMMA MutexRanges ==
    ASSUME MutexInv
    PROVE  /\ PortTypeOK(Labels)
           /\ Horizon \in Nat /\ clock \in Time /\ clock \in Nat /\ clock <= Horizon
           /\ \A p \in Procs : /\ now[p] \in Time /\ now[p] \in Nat
                               /\ inv[p] \in Time /\ inv[p] \in Nat /\ inv[p] <= clock
  BY PortAssumption DEF MutexInv, MutexTypeOK, PortTypeOK, Time, Labels

(* Only one caller is inside.                                              *)
LEMMA OneHolder ==
    ASSUME MutexInv, NEW p \in Procs, pc[p] = "holding"
    PROVE  /\ pc[p] \notin Resting /\ mu = {p}
           /\ \A q \in Procs \ {p} : pc[q] # "holding"
           /\ arg[p] \in Nat \ {0} /\ arg[p] \in Batches
           /\ inv[p] <= now[p] /\ now[p] <= clock
  <1>1. pc[p] \notin Resting
    BY DEF Resting
  <1>2. mu = {p} /\ \A q \in Procs \ {p} : pc[q] # "holding"
    BY DEF MutexInv, MutexTypeOK
  <1>3. inv[p] <= now[p] /\ now[p] <= clock
    BY DEF MutexInv
  <1> QED
    BY <1>1, <1>2, <1>3, MutexRanges, ArgPositive

LEMMA MutexInitInv == MutexInit => MutexInv
  <1> SUFFICES ASSUME MutexInit PROVE MutexInv
    OBVIOUS
  <1>1. PortTypeOK(Labels)
    BY InitType DEF MutexInit
  <1>2. now \in [Procs -> Time]
    BY PortAssumption DEF MutexInit, Time
  <1>3. \A p \in Procs : pc[p] # "holding" /\ mu # {p}
    BY DEF MutexInit, PortInit
  <1> QED
    BY <1>1, <1>2, <1>3 DEF MutexInv, MutexTypeOK, Labels, MutexInit

(* What is left to show when the holder, if there is one, stays the same.  *)
LEMMA SameHolder ==
    ASSUME MutexInv, PortTypeOK(Labels)', UNCHANGED mutexVars,
           NEW c \in Int, clock' = c, clock <= c,
           \A p \in Procs : /\ pc'[p] = "holding" <=> pc[p] = "holding"
                            /\ pc[p] = "holding" => inv'[p] = inv[p]
    PROVE  MutexInv'
  <1>1. MutexTypeOK'
    BY DEF MutexInv, MutexTypeOK, mutexVars, Labels
  <1>2. \A p \in Procs : pc[p] = "holding" => inv[p] <= now[p] /\ now[p] <= c
    BY MutexRanges DEF MutexInv
  <1> QED
    BY <1>1, <1>2 DEF MutexInv, mutexVars

LEMMA AdvanceMutex ==
    ASSUME MutexInv, Advance
    PROVE  MutexInv'
  <1> DEFINE c == clock + 1
  <1>1. clock' = c /\ c \in Int /\ clock <= c /\ UNCHANGED <<pc, inv, mutexVars>>
    BY MutexRanges DEF Advance, Tick
  <1>2. PortTypeOK(Labels)'
    BY MutexRanges, TickType DEF Advance
  <1> HIDE DEF c
  <1> QED
    BY <1>1, <1>2, SameHolder

LEMMA EnterMutex ==
    ASSUME MutexInv, NEW p \in Procs, Enter(p) \/ EnterNothing(p)
    PROVE  MutexInv'
  <1>1. PortTypeOK(Labels)'
    BY MutexRanges, CallType, CallNothingType DEF Enter, EnterNothing, Labels
  <1>2. pc[p] # "holding" /\ pc'[p] # "holding"
        /\ \A q \in Procs \ {p} : pc'[q] = pc[q] /\ inv'[q] = inv[q]
    BY MutexRanges DEF Enter, EnterNothing, Call, CallNothing, PortTypeOK, Resting
  <1>3. UNCHANGED <<clock, mutexVars>> /\ clock \in Int /\ clock <= clock
    BY MutexRanges DEF Enter, EnterNothing, Call, CallNothing
  <1> QED
    BY <1>1, <1>2, <1>3, SameHolder

LEMMA AcquireMutex ==
    ASSUME MutexInv, NEW p \in Procs, Acquire(p)
    PROVE  MutexInv'
  <1>1. /\ pc[p] = "waiting" /\ mu = {} /\ mu' = {p}
        /\ now' = [now EXCEPT ![p] = clock] /\ pc' = [pc EXCEPT ![p] = "holding"]
        /\ UNCHANGED <<clock, arg, inv, since>>
    BY DEF Acquire
  <1>2. PortTypeOK(Labels)'
    BY <1>1, MutexRanges, StepType DEF Labels, Resting
  <1>3. \A q \in Procs : pc[q] # "holding"
    BY <1>1 DEF MutexInv, MutexTypeOK
  <1>4. pc'[p] = "holding" /\ \A q \in Procs \ {p} : pc'[q] # "holding"
    BY <1>1, <1>3, MutexRanges DEF PortTypeOK
  <1>5. now' \in [Procs -> Time] /\ now'[p] = clock
    BY <1>1, MutexRanges DEF MutexInv, MutexTypeOK
  <1>6. MutexTypeOK'
    BY <1>1, <1>2, <1>4, <1>5 DEF MutexTypeOK, Labels
  <1>7. inv[p] <= clock /\ clock <= clock
    BY MutexRanges
  <1> QED
    BY <1>1, <1>4, <1>5, <1>6, <1>7 DEF MutexInv

(* Either way out leaves the critical section empty.                       *)
LEMMA LeaveMutex ==
    ASSUME MutexInv, NEW p \in Procs, pc[p] = "holding",
           Allow(p) \/ Refusal(p)
    PROVE  /\ MutexInv'
           /\ \A q \in Procs : pc'[q] # "holding"
  <1>1. mu = {p} /\ pc[p] \notin Resting /\ \A q \in Procs \ {p} : pc[q] # "holding"
    BY OneHolder
  <1>2. PortTypeOK(Labels)'
    BY <1>1, MutexRanges, GrantType, RefuseType DEF Allow, Refusal
  <1>3. \A q \in Procs : pc'[q] # "holding"
    BY <1>1, MutexRanges DEF Allow, Refusal, Grant, Refuse, Finish, PortTypeOK
  <1>4. mu' = {}
    BY <1>1 DEF Allow, Refusal, Release
  <1>5. now' \in [Procs -> Time]
    <2>1. 0 \in Time
      BY PortAssumption DEF Time
    <2> QED
      BY <2>1 DEF Allow, Refusal, Release, MutexInv, MutexTypeOK
  <1>6. MutexTypeOK'
    BY <1>2, <1>3, <1>4, <1>5 DEF MutexTypeOK, Labels
  <1> QED
    BY <1>3, <1>6 DEF MutexInv

--------------------------------------------------------------------------------

(* The inductive invariant: whoever is inside sees no time going back.     *)
IInv ==
    /\ TypeOK
    /\ MutexInv
    /\ last <= clock
    /\ \A p \in Procs : pc[p] = "holding" => last <= now[p]

Full == Capacity * Unit

LEMMA Product ==
    ASSUME NEW a \in Nat, NEW b \in Nat
    PROVE  a * b \in Nat
  OBVIOUS

LEMMA Sizes ==
    /\ Unit \in Nat \ {0} /\ Rate \in Nat /\ Full \in Nat
    /\ \A n \in Batches : n \in Int
  BY TokenBucketAssumption, Product, BatchInteger DEF Full

LEMMA BucketRanges ==
    ASSUME IInv
    PROVE  /\ tokens \in Int /\ last \in Time /\ last \in Nat /\ last <= clock
           /\ \A t \in Int : Refilled(t) \in Int
  <1>1. tokens \in Int /\ last \in Time /\ last \in Nat /\ last <= clock
    BY PortAssumption DEF IInv, TypeOK, Time
  <1>2. ASSUME NEW t \in Int PROVE Refilled(t) \in Int
    <2> DEFINE flow == Rate * (t - last)
    <2>1. flow \in Int
      BY <1>1, Sizes
    <2> HIDE DEF flow
    <2>2. Refilled(t) = IF tokens + flow <= Full THEN tokens + flow ELSE Full
      BY DEF Refilled, flow, Full
    <2> QED
      BY <1>1, <2>1, <2>2, Sizes
  <1> QED
    BY <1>1, <1>2

LEMMA InitIInv == Init => IInv
  <1> SUFFICES ASSUME Init PROVE IInv
    OBVIOUS
  <1>1. MutexInv
    BY MutexInitInv DEF Init
  <1>2. tokens \in Int /\ last \in Time /\ last = 0 /\ clock = 0
    BY Sizes, PortAssumption DEF Init, Time, Full, MutexInit, PortInit
  <1>3. \A p \in Procs : pc[p] # "holding"
    BY DEF Init, MutexInit, PortInit
  <1> QED
    BY <1>1, <1>2, <1>3 DEF IInv, TypeOK, MutexInv

(* Steps that leave the bucket alone                                       *)
LEMMA PortStepIInv ==
    ASSUME IInv, UNCHANGED bucketVars,
           \/ Advance
           \/ \E p \in Procs : Enter(p) \/ EnterNothing(p) \/ Acquire(p)
    PROVE  IInv'
  <1>1. MutexInv /\ tokens \in Int /\ last \in Time
    BY BucketRanges DEF IInv
  <1>2. MutexInv'
    BY <1>1, AdvanceMutex, EnterMutex, AcquireMutex
  <1>3. TypeOK'
    BY <1>1, <1>2 DEF bucketVars, TypeOK, MutexInv, Time
  <1>4. (last <= clock)'
    <2>1. PICK c \in Int : clock' = c /\ clock <= c
      BY <1>1, MutexRanges DEF Advance, Tick, Enter, EnterNothing, Call, CallNothing, Acquire
    <2>2. last <= c
      BY <1>1, <2>1, BucketRanges, MutexRanges
    <2> QED
      BY <2>1, <2>2 DEF bucketVars
  <1>5. ASSUME NEW q \in Procs, pc'[q] = "holding" PROVE (last <= now[q])'
    <2>1. CASE pc[q] = "holding" /\ now'[q] = now[q]
      BY <2>1 DEF IInv, bucketVars
    <2>2. CASE now'[q] = clock
      BY <2>2, BucketRanges DEF bucketVars
    <2>3. (pc[q] = "holding" /\ now'[q] = now[q]) \/ now'[q] = clock
      BY <1>1, <1>5, MutexRanges
         DEF Advance, Tick, Enter, EnterNothing, Call, CallNothing, Acquire,
             mutexVars, PortTypeOK, Resting, MutexInv, MutexTypeOK
    <2> QED
      BY <2>1, <2>2, <2>3
  <1> QED
    BY <1>2, <1>3, <1>4, <1>5 DEF IInv

LEMMA VerdictIInv ==
    ASSUME IInv, NEW p \in Procs, Spend(p) \/ Deny(p)
    PROVE  IInv'
  <1>1. MutexInv /\ pc[p] = "holding" /\ (Allow(p) \/ Refusal(p)) /\ last' = now[p]
    BY DEF IInv, Spend, Deny
  <1>2. MutexInv' /\ \A q \in Procs : pc'[q] # "holding"
    BY <1>1, LeaveMutex
  <1>3. now[p] \in Time /\ now[p] \in Nat /\ now[p] <= clock /\ clock' = clock
    BY <1>1, MutexRanges, OneHolder DEF Allow, Refusal, Grant, Refuse, Finish
  <1>4. arg[p] * Unit \in Nat
    BY <1>1, OneHolder, Sizes, Product
  <1>5. Refilled(now[p]) \in Int
    BY <1>3, BucketRanges
  <1>6. Refilled(now[p]) - arg[p] * Unit \in Int
    BY <1>4, <1>5
  <1>7. tokens' \in Int
    BY <1>5, <1>6 DEF Spend, Deny
  <1> QED
    BY <1>1, <1>2, <1>3, <1>7 DEF IInv, TypeOK, MutexInv

LEMMA NextIInv == IInv /\ [Next]_vars => IInv'
  <1> SUFFICES ASSUME IInv, [Next]_vars PROVE IInv'
    OBVIOUS
  <1>1. CASE Next
    BY <1>1, PortStepIInv, VerdictIInv DEF Next
  <1>2. CASE UNCHANGED vars
    BY <1>2 DEF vars, IInv, TypeOK, MutexInv, MutexTypeOK, PortTypeOK
  <1> QED
    BY <1>1, <1>2

(* The inductive invariant holds throughout.                               *)
THEOREM InductiveInvariant == Spec => []IInv
  BY InitIInv, NextIInv, PTL DEF Spec

(* Types, and the mutex is held exactly by the caller inside the critical  *)
(* section (tokenbucket.go, AllowN).                                       *)
THEOREM TypeCorrect == Spec => []TypeOK
  <1>1. IInv => TypeOK
    BY DEF IInv
  <1> QED
    BY <1>1, InductiveInvariant, PTL

--------------------------------------------------------------------------------
(***************************************************************************)
(* The refinement.  Credit is the token level.  Waiting for the mutex and  *)
(* taking it are stutters; a verdict is the contract's, at the reading.    *)
(***************************************************************************)

(* The program counters of the contract                                    *)
Mapped == [p \in Procs |-> IF pc[p] \in Resting THEN pc[p] ELSE "busy"]

LEMMA PcRange ==
    ASSUME IInv
    PROVE  pc \in [Procs -> Resting \cup Labels]
  BY MutexRanges DEF IInv, PortTypeOK

LEMMA InitMaps == Init => Contract!Init
  <1> SUFFICES ASSUME Init PROVE Contract!Init
    OBVIOUS
  <1>1. Mapped = [p \in Procs |-> "ready"]
    BY DEF Mapped, Init, MutexInit, PortInit, Resting
  <1> QED
    BY <1>1 DEF Init, MutexInit, PortInit, Contract!Init, Contract!PortInit,
       Mapped, Contract!Time, Time

(* What happens outside the critical section                               *)
LEMMA PortStepMaps ==
    ASSUME IInv, UNCHANGED bucketVars,
           \/ Advance
           \/ \E p \in Procs : Enter(p) \/ EnterNothing(p) \/ Acquire(p)
    PROVE  [Contract!Next]_(Contract!vars)
  <1>1. CASE Advance
    BY <1>1 DEF Advance, Tick, bucketVars, Contract!Next, Contract!Advance, Contract!Tick
  <1>2. ASSUME NEW p \in Procs, Enter(p) PROVE Contract!Next
    <2>1. Mapped' = [Mapped EXCEPT ![p] = "busy"] /\ Mapped[p] \in Resting
      BY <1>2, PcRange DEF Enter, Call, Mapped, Resting
    <2>2. Contract!Begin(p)
      BY <1>2, <2>1 DEF Enter, Call, Mapped, bucketVars, Contract!Begin, Contract!Call,
         Contract!Resting, Resting
    <2> QED
      BY <2>2 DEF Contract!Next
  <1>3. ASSUME NEW p \in Procs, EnterNothing(p) PROVE Contract!Next
    <2>1. Mapped' = [Mapped EXCEPT ![p] = "allowed"] /\ Mapped[p] \in Resting
      BY <1>3, PcRange DEF EnterNothing, CallNothing, Mapped, Resting
    <2>2. Contract!Skip(p)
      BY <1>3, <2>1 DEF EnterNothing, CallNothing, Mapped, bucketVars, Contract!Skip,
         Contract!CallNothing, Contract!Resting, Resting
    <2> QED
      BY <2>2 DEF Contract!Next
  <1>4. ASSUME NEW p \in Procs, Acquire(p) PROVE UNCHANGED Contract!vars
    <2>1. Mapped' = Mapped
      BY <1>4, PcRange DEF Acquire, Mapped, Resting
    <2> QED
      BY <1>4, <2>1 DEF Acquire, Mapped, bucketVars, Contract!vars
  <1> QED
    BY <1>1, <1>2, <1>3, <1>4

(* The holder is busy, its reading is a moment of its call no older than   *)
(* the last refill, and what it computes is the credit at that reading.    *)
LEMMA HolderMaps ==
    ASSUME IInv, NEW p \in Procs, pc[p] = "holding"
    PROVE  /\ pc[p] \notin Resting /\ Mapped[p] = "busy"
           /\ now[p] \in Contract!Moments(p) /\ last <= now[p]
           /\ Refilled(now[p]) = Contract!CreditAt(now[p])
           /\ Enough(p) <=> Contract!Fits(arg[p], now[p])
  <1>1. /\ pc[p] \notin Resting /\ arg[p] \in Batches
        /\ inv[p] <= now[p] /\ now[p] <= clock
    BY OneHolder DEF IInv
  <1>2. Mapped[p] = "busy"
    BY <1>1 DEF Mapped
  <1>3. last <= now[p]
    BY DEF IInv
  <1>4. now[p] \in inv[p]..clock
    BY <1>1, MutexRanges DEF IInv
  <1>5. now[p] \in Contract!Moments(p)
    BY <1>3, <1>4 DEF Contract!Moments
  <1>6. Refilled(now[p]) = Contract!CreditAt(now[p])
    BY DEF Refilled, Contract!CreditAt
  <1>7. [n \in Batches |-> AdmitEpsilon(n)][arg[p]] = AdmitEpsilon(arg[p])
    BY <1>1
  <1>8. Enough(p) <=> Contract!Fits(arg[p], now[p])
    BY <1>6, <1>7 DEF Enough, Contract!Fits
  <1> QED
    BY <1>1, <1>2, <1>3, <1>5, <1>6, <1>8

(* A call that returns rests in the contract too.                          *)
LEMMA FinishMaps ==
    ASSUME IInv, NEW p \in Procs, NEW verdict \in Resting, Finish(p, verdict)
    PROVE  Contract!Finish(p, verdict)
  <1>1. Mapped' = [Mapped EXCEPT ![p] = verdict]
    BY PcRange DEF Finish, Mapped
  <1> QED
    BY <1>1 DEF Finish, Mapped, Contract!Finish

(* A verdict settles the books at the reading.                             *)
LEMMA Settles ==
    ASSUME IInv, NEW p \in Procs, pc[p] = "holding",
           NEW spent, tokens' = Refilled(now[p]) - spent, last' = now[p]
    PROVE  Contract!Settle(now[p], spent)
  <1>1. last \in Nat /\ now[p] \in Nat
    BY BucketRanges, MutexRanges DEF IInv
  <1>2. ~(now[p] < last)
    BY <1>1, HolderMaps
  <1> QED
    BY <1>2, HolderMaps DEF Contract!Settle

LEMMA SpendMaps ==
    ASSUME IInv, NEW p \in Procs, Spend(p)
    PROVE  Contract!Admit(p)
  <1>1. pc[p] = "holding" /\ Enough(p) /\ Grant(p, now[p])
    BY DEF Spend, Allow
  <1>2. Contract!Finish(p, "allowed")
    BY <1>1, FinishMaps DEF Grant, Resting
  <1>3. Contract!Grant(p, now[p])
    BY <1>1, <1>2 DEF Grant, Contract!Grant, Time, Contract!Time
  <1>4. Contract!Settle(now[p], arg[p] * Unit)
    BY <1>1, Settles DEF Spend
  <1> QED
    BY <1>1, <1>3, <1>4, HolderMaps DEF Contract!Admit, Mapped

(* A denial keeps the refill it computed.                                  *)
LEMMA DenyMaps ==
    ASSUME IInv, NEW p \in Procs, Deny(p)
    PROVE  Contract!Deny(p)
  <1>1. pc[p] = "holding" /\ ~Enough(p) /\ Refuse(p)
    BY DEF Deny, Refusal
  <1>2. Contract!Refuse(p)
    BY <1>1, FinishMaps DEF Refuse, Contract!Refuse, Resting
  <1>3. Refilled(now[p]) \in Int
    BY BucketRanges, MutexRanges DEF IInv
  <1>4. tokens' = Refilled(now[p]) - 0
    BY <1>3 DEF Deny
  <1>5. Contract!Settle(now[p], 0)
    BY <1>1, <1>4, Settles DEF Deny
  <1> QED
    BY <1>1, <1>2, <1>5, HolderMaps DEF Contract!Deny, Mapped

LEMMA NextMaps == IInv /\ [Next]_vars => [Contract!Next]_(Contract!vars)
  <1> SUFFICES ASSUME IInv, [Next]_vars PROVE [Contract!Next]_(Contract!vars)
    OBVIOUS
  <1>1. ASSUME NEW p \in Procs, Spend(p) \/ Deny(p) PROVE Contract!Next
    BY <1>1, SpendMaps, DenyMaps DEF Contract!Next
  <1>2. CASE UNCHANGED vars
    BY <1>2 DEF vars, Contract!vars
  <1> QED
    BY <1>1, <1>2, PortStepMaps DEF Next

(* The mutex bucket implements the strict contract: every verdict is the   *)
(* exact answer at a time of its call, never before the last refill        *)
(* (tokenbucket.go, AllowN).                                               *)
THEOREM TokenBucketImplementsContract == Spec => ImplementsContract
  BY InitMaps, NextMaps, InductiveInvariant, PTL
     DEF Spec, ImplementsContract, Contract!Spec

--------------------------------------------------------------------------------
(* The contract's theorems, about the contract of this bucket              *)
Proved == INSTANCE TokenBucketContractProofs WITH
    pc         <- [p \in Procs |-> IF pc[p] \in Resting THEN pc[p] ELSE "busy"],
    credit     <- tokens,
    CapQ       <- Capacity * Unit,
    Slack      <- [n \in Batches |-> AdmitEpsilon(n)],
    MaxSlack   <- Eps * MaxBatch,
    Backdating <- FALSE

LEMMA SlackGrows ==
    ASSUME NEW n \in Batches, n > 0
    PROVE  AdmitEpsilon(n) \in 0..Eps * MaxBatch
  <1>1. n \in Nat /\ MaxBatch - n \in Nat /\ Eps \in Nat /\ MaxBatch \in Nat
    BY TokenBucketAssumption, BatchInteger
  <1>2. Eps * n \in Nat /\ Eps * (MaxBatch - n) \in Nat
    BY <1>1, Product
  <1>3. Eps * MaxBatch = Eps * n + Eps * (MaxBatch - n)
    BY <1>1
  <1> QED
    BY <1>2, <1>3 DEF AdmitEpsilon

LEMMA AssumptionsHold == Proved!PortAssumption /\ Proved!ContractAssumption
  <1>1. Unit \in Nat \ {0} /\ Rate \in Nat /\ Capacity * Unit \in Nat
    BY Sizes DEF Full
  <1>2. Eps * MaxBatch \in Nat
    BY TokenBucketAssumption, Product
  <1>3. [n \in Batches |-> AdmitEpsilon(n)] \in [Batches -> Int]
    <2>1. ASSUME NEW n \in Batches PROVE Eps * n \in Int
      BY TokenBucketAssumption, Sizes
    <2> QED
      BY <2>1 DEF AdmitEpsilon
  <1>4. \A n \in Batches : n > 0 =>
            [m \in Batches |-> AdmitEpsilon(m)][n] \in 0..Eps * MaxBatch
    BY SlackGrows
  <1> QED
    BY <1>1, <1>2, <1>3, <1>4, PortAssumption
       DEF Proved!PortAssumption, Proved!ContractAssumption

(* It is the contract that the bucket was shown to implement.              *)
LEMMA SameContract ==
    /\ Contract!Init <=> Proved!Init
    /\ [Contract!Next]_(Contract!vars) => [Proved!Next]_(Proved!vars)
  BY DEF Contract!Init, Proved!Init, Contract!PortInit, Proved!PortInit,
         Contract!Next, Proved!Next, Contract!Advance, Proved!Advance,
         Contract!Tick, Proved!Tick, Contract!Begin, Proved!Begin,
         Contract!Call, Proved!Call, Contract!Skip, Proved!Skip,
         Contract!CallNothing, Proved!CallNothing, Contract!Admit,
         Proved!Admit, Contract!Deny, Proved!Deny, Contract!Refuse,
         Proved!Refuse, Contract!Grant, Proved!Grant, Contract!Finish,
         Proved!Finish, Contract!Moments, Proved!Moments, Contract!Fits,
         Proved!Fits, Contract!CreditAt, Proved!CreditAt, Contract!Settle,
         Proved!Settle, Contract!Resting, Proved!Resting, Contract!Time,
         Proved!Time, Contract!vars, Proved!vars

LEMMA ProvedSpec == Spec => Proved!Spec
  BY TokenBucketImplementsContract, SameContract, PTL
     DEF ImplementsContract, Contract!Spec, Proved!Spec

(* The guarantee of the mutex bucket: from any time s to the last refill,  *)
(* no more is admitted than a full bucket, the accrual between and one     *)
(* admission slack, however often the slack was granted (tokenbucket.go,   *)
(* AllowN; limiter.go:26-27).                                              *)
THEOREM BurstPlusRate ==
    Spec => [](\A s \in Time : s <= last =>
                since[s] * Unit <= Capacity * Unit + Eps * MaxBatch + Rate * (last - s))
  <1>1. Proved!Spec => []Proved!WindowBound
    BY AssumptionsHold, Proved!WindowBounded
  <1>2. Proved!WindowBound
            => \A s \in Time : s <= last =>
                since[s] * Unit <= Capacity * Unit + Eps * MaxBatch + Rate * (last - s)
    BY DEF Proved!WindowBound, Proved!Time, Time
  <1> QED
    BY <1>1, <1>2, ProvedSpec, PTL

(* The debt of the mutex bucket is one slack at most for as long as it     *)
(* lives (limiter.go:26-27).                                               *)
THEOREM DebtBounded == Spec => [](-(Eps * MaxBatch) <= tokens /\ tokens <= Capacity * Unit)
  <1>1. Proved!Spec => []Proved!DebtBound
    BY AssumptionsHold, Proved!DebtBounded
  <1>2. Proved!DebtBound => -(Eps * MaxBatch) <= tokens /\ tokens <= Capacity * Unit
    BY DEF Proved!DebtBound
  <1> QED
    BY <1>1, <1>2, ProvedSpec, PTL

--------------------------------------------------------------------------------
LEMMA DenyIsProvedDeny ==
    ASSUME IInv, NEW p \in Procs, Deny(p)
    PROVE  Proved!Deny(p)
  <1>1. Contract!Deny(p)
    BY DenyMaps
  <1> QED
    BY <1>1 DEF Contract!Deny, Proved!Deny, Contract!Refuse, Proved!Refuse,
       Contract!Finish, Proved!Finish, Contract!Moments, Proved!Moments,
       Contract!Fits, Proved!Fits, Contract!CreditAt, Proved!CreditAt,
       Contract!Settle, Proved!Settle

LEMMA CancelUnit ==
    ASSUME NEW a \in Int, NEW b \in Int, a * Unit > b * Unit
    PROVE  a > b
  <1> SUFFICES ASSUME a <= b PROVE FALSE
    OBVIOUS
  <1>1. (b - a) * Unit \in Nat
    BY Product, Sizes, b - a \in Nat
  <1>2. b * Unit = a * Unit + (b - a) * Unit
    BY Sizes
  <1>3. a * Unit \in Int /\ b * Unit \in Int
    BY Sizes
  <1> DEFINE x == a * Unit
             y == b * Unit
             z == (b - a) * Unit
  <1>4. x \in Int /\ y \in Int /\ z \in Nat /\ y = x + z /\ x > y
    BY <1>1, <1>2, <1>3
  <1> HIDE DEF x, y, z
  <1> QED
    BY <1>4

(* The bucket starts full and loses credit to admissions alone: no batch   *)
(* is denied that fits a full bucket together with everything admitted     *)
(* before it (tokenbucket.go:37-39).                                       *)
THEOREM BurstServed == Spec => BurstIsServed
  <1>1. Proved!Spec => []Proved!Inv
    BY AssumptionsHold, Proved!Invariance
  <1>2. ASSUME IInv, Proved!Inv, NEW p \in Procs, Deny(p)
        PROVE  since[0] + arg[p] > Capacity
    <2>1. (since[0] + arg[p]) * Unit > Capacity * Unit
      BY <1>2, DenyIsProvedDeny, AssumptionsHold, Proved!DenyIsShort
    <2>2. 0 \in Time
      BY PortAssumption DEF Time
    <2>3. since[0] \in Nat
      BY <1>2, <2>2, MutexRanges DEF IInv, PortTypeOK
    <2>4. arg[p] \in Int
      BY <1>2, OneHolder DEF IInv, Deny
    <2>5. since[0] + arg[p] \in Int /\ Capacity \in Int
      BY <2>3, <2>4, TokenBucketAssumption
    <2> QED
      BY <2>1, <2>5, CancelUnit
  <1>3. IInv /\ Proved!Inv /\ [Next]_vars
        => [\A p \in Procs : Deny(p) => since[0] + arg[p] > Capacity]_vars
    BY <1>2
  <1> QED
    BY <1>1, <1>3, ProvedSpec, InductiveInvariant, PTL DEF Spec, BurstIsServed
================================================================================
