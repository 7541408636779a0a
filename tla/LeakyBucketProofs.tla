--------------------------- MODULE LeakyBucketProofs ---------------------------
(***************************************************************************)
(* The leaky bucket implements the strict contract upside down: the room   *)
(* left in it is the credit of a token bucket.  For every rate, one that   *)
(* is not positive included, every capacity, slack and number of callers.  *)
(***************************************************************************)
EXTENDS LeakyBucket, TLAPS

(***************************************************************************)
(* The port and its mutex, as in the proofs of the other mutex limiters:   *)
(* every step keeps the types, mutual exclusion among them, and the clock  *)
(* reading of the holder was taken during its call.                        *)
(***************************************************************************)
LEMMA BatchInteger == \A n \in Batches : n \in Int
  BY PortAssumption, Zenon

(* A call that is doing any work asks for a positive batch.                *)
LEMMA ArgPositive ==
    ASSUME NEW labels, PortTypeOK(labels), NEW p \in Procs, pc[p] \notin Resting
    PROVE  arg[p] \in Nat \ {0} /\ arg[p] \in Batches
  <1>1. arg[p] \in Batches \cup {0} /\ arg[p] > 0
    BY DEF PortTypeOK
  <1>2. arg[p] \in Batches
    BY <1>1
  <1>3. arg[p] \in Int
    BY <1>2, BatchInteger
  <1> QED
    BY <1>1, <1>2, <1>3

(* A call that starts keeps the port's types.                              *)
LEMMA CallType ==
    ASSUME NEW labels, PortTypeOK(labels), NEW label \in labels,
           NEW p \in Procs, Call(p, label)
    PROVE  PortTypeOK(labels)'
  <1>1. PICK n \in Batches : n > 0 /\ arg' = [arg EXCEPT ![p] = n]
    BY DEF Call
  <1>2. \A q \in Procs : pc'[q] \notin Resting => arg'[q] > 0
    BY <1>1 DEF Call, PortTypeOK
  <1>3. \A q \in Procs : inv'[q] <= clock'
    BY PortAssumption DEF Call, PortTypeOK, Time
  <1> QED
    BY <1>1, <1>2, <1>3 DEF Call, PortTypeOK

(* A call that returns keeps them, granted or refused.                     *)
LEMMA FinishType ==
    ASSUME NEW labels, PortTypeOK(labels), NEW p \in Procs,
           NEW verdict \in Resting, Finish(p, verdict), since' \in [Time -> Nat]
    PROVE  PortTypeOK(labels)'
  <1>1. \A q \in Procs : pc'[q] \notin Resting => arg'[q] > 0
    BY DEF Finish, PortTypeOK
  <1>2. \A q \in Procs : inv'[q] <= clock'
    BY PortAssumption DEF Finish, PortTypeOK, Time
  <1> QED
    BY <1>1, <1>2, PortAssumption DEF Finish, PortTypeOK, Time

LEMMA GrantType ==
    ASSUME NEW labels, PortTypeOK(labels), NEW p \in Procs,
           pc[p] \notin Resting, NEW t, Grant(p, t)
    PROVE  PortTypeOK(labels)'
  <1>1. arg[p] \in Nat
    BY ArgPositive
  <1>2. since' \in [Time -> Nat]
    BY <1>1 DEF Grant, PortTypeOK
  <1> QED
    BY <1>2, FinishType DEF Grant, Resting

LEMMA RefuseType ==
    ASSUME NEW labels, PortTypeOK(labels), NEW p \in Procs, Refuse(p)
    PROVE  PortTypeOK(labels)'
  BY FinishType DEF Refuse, PortTypeOK, Resting

(* Ticks and empty batches keep them.                                      *)
LEMMA TickType ==
    ASSUME NEW labels, PortTypeOK(labels), Tick
    PROVE  PortTypeOK(labels)'
  BY PortAssumption DEF Tick, PortTypeOK, Time

LEMMA CallNothingType ==
    ASSUME NEW labels, PortTypeOK(labels), NEW p \in Procs, CallNothing(p)
    PROVE  PortTypeOK(labels)'
  BY DEF CallNothing, PortTypeOK, Resting

(* A step within a call moves its program counter and nothing else here.   *)
LEMMA StepType ==
    ASSUME NEW labels, PortTypeOK(labels), NEW p \in Procs,
           pc[p] \notin Resting, NEW label \in labels,
           pc' = [pc EXCEPT ![p] = label],
           UNCHANGED <<clock, arg, inv, since>>
    PROVE  PortTypeOK(labels)'
  BY DEF PortTypeOK

LEMMA InitType ==
    ASSUME NEW labels, PortInit
    PROVE  PortTypeOK(labels)
  BY PortAssumption DEF PortInit, PortTypeOK, Time, Resting

--------------------------------------------------------------------------------

Labels == {"waiting", "holding"}

(* Types, and the reading of the holder was taken during its call.         *)
MutexInv ==
    /\ MutexTypeOK
    /\ \A p \in Procs : pc[p] = "holding" => inv[p] <= now[p] /\ now[p] <= clock

LEMMA MutexRanges ==
    ASSUME MutexInv
    PROVE  /\ PortTypeOK(Labels)
           /\ Horizon \in Nat /\ clock \in Time /\ clock \in Nat /\ clock <= Horizon
           /\ \A p \in Procs : /\ now[p] \in Time /\ now[p] \in Nat
                               /\ inv[p] \in Time /\ inv[p] \in Nat /\ inv[p] <= clock
  BY PortAssumption DEF MutexInv, MutexTypeOK, PortTypeOK, Time, Labels

(* Only one caller is inside.                                              *)
LEMMA OneHolder ==
    ASSUME MutexInv, NEW p \in Procs, pc[p] = "holding"
    PROVE  /\ pc[p] \notin Resting /\ mu = {p}
           /\ \A q \in Procs \ {p} : pc[q] # "holding"
           /\ arg[p] \in Nat \ {0} /\ arg[p] \in Batches
           /\ inv[p] <= now[p] /\ now[p] <= clock
  <1>1. pc[p] \notin Resting
    BY DEF Resting
  <1>2. mu = {p} /\ \A q \in Procs \ {p} : pc[q] # "holding"
    BY DEF MutexInv, MutexTypeOK
  <1>3. inv[p] <= now[p] /\ now[p] <= clock
    BY DEF MutexInv
  <1> QED
    BY <1>1, <1>2, <1>3, MutexRanges, ArgPositive

LEMMA MutexInitInv == MutexInit => MutexInv
  <1> SUFFICES ASSUME MutexInit PROVE MutexInv
    OBVIOUS
  <1>1. PortTypeOK(Labels)
    BY InitType DEF MutexInit
  <1>2. now \in [Procs -> Time]
    BY PortAssumption DEF MutexInit, Time
  <1>3. \A p \in Procs : pc[p] # "holding" /\ mu # {p}
    BY DEF MutexInit, PortInit
  <1> QED
    BY <1>1, <1>2, <1>3 DEF MutexInv, MutexTypeOK, Labels, MutexInit

(* What is left to show when the holder, if there is one, stays the same.  *)
LEMMA SameHolder ==
    ASSUME MutexInv, PortTypeOK(Labels)', UNCHANGED mutexVars,
           NEW c \in Int, clock' = c, clock <= c,
           \A p \in Procs : /\ pc'[p] = "holding" <=> pc[p] = "holding"
                            /\ pc[p] = "holding" => inv'[p] = inv[p]
    PROVE  MutexInv'
  <1>1. MutexTypeOK'
    BY DEF MutexInv, MutexTypeOK, mutexVars, Labels
  <1>2. \A p \in Procs : pc[p] = "holding" => inv[p] <= now[p] /\ now[p] <= c
    BY MutexRanges DEF MutexInv
  <1> QED
    BY <1>1, <1>2 DEF MutexInv, mutexVars

LEMMA AdvanceMutex ==
    ASSUME MutexInv, Advance
    PROVE  MutexInv'
  <1> DEFINE c == clock + 1
  <1>1. clock' = c /\ c \in Int /\ clock <= c /\ UNCHANGED <<pc, inv, mutexVars>>
    BY MutexRanges DEF Advance, Tick
  <1>2. PortTypeOK(Labels)'
    BY MutexRanges, TickType DEF Advance
  <1> HIDE DEF c
  <1> QED
    BY <1>1, <1>2, SameHolder

LEMMA EnterMutex ==
    ASSUME MutexInv, NEW p \in Procs, Enter(p) \/ EnterNothing(p)
    PROVE  MutexInv'
  <1>1. PortTypeOK(Labels)'
    BY MutexRanges, CallType, CallNothingType DEF Enter, EnterNothing, Labels
  <1>2. pc[p] # "holding" /\ pc'[p] # "holding"
        /\ \A q \in Procs \ {p} : pc'[q] = pc[q] /\ inv'[q] = inv[q]
    BY MutexRanges DEF Enter, EnterNothing, Call, CallNothing, PortTypeOK, Resting
  <1>3. UNCHANGED <<clock, mutexVars>> /\ clock \in Int /\ clock <= clock
    BY MutexRanges DEF Enter, EnterNothing, Call, CallNothing
  <1> QED
    BY <1>1, <1>2, <1>3, SameHolder

LEMMA AcquireMutex ==
    ASSUME MutexInv, NEW p \in Procs, Acquire(p)
    PROVE  MutexInv'
  <1>1. /\ pc[p] = "waiting" /\ mu = {} /\ mu' = {p}
        /\ now' = [now EXCEPT ![p] = clock] /\ pc' = [pc EXCEPT ![p] = "holding"]
        /\ UNCHANGED <<clock, arg, inv, since>>
    BY DEF Acquire
  <1>2. PortTypeOK(Labels)'
    BY <1>1, MutexRanges, StepType DEF Labels, Resting
  <1>3. \A q \in Procs : pc[q] # "holding"
    BY <1>1 DEF MutexInv, MutexTypeOK
  <1>4. pc'[p] = "holding" /\ \A q \in Procs \ {p} : pc'[q] # "holding"
    BY <1>1, <1>3, MutexRanges DEF PortTypeOK
  <1>5. now' \in [Procs -> Time] /\ now'[p] = clock
    BY <1>1, MutexRanges DEF MutexInv, MutexTypeOK
  <1>6. MutexTypeOK'
    BY <1>1, <1>2, <1>4, <1>5 DEF MutexTypeOK, Labels
  <1>7. inv[p] <= clock /\ clock <= clock
    BY MutexRanges
  <1> QED
    BY <1>1, <1>4, <1>5, <1>6, <1>7 DEF MutexInv

(* Either way out leaves the critical section empty.                       *)
LEMMA LeaveMutex ==
    ASSUME MutexInv, NEW p \in Procs, pc[p] = "holding",
           Allow(p) \/ Refusal(p)
    PROVE  /\ MutexInv'
           /\ \A q \in Procs : pc'[q] # "holding"
  <1>1. mu = {p} /\ pc[p] \notin Resting /\ \A q \in Procs \ {p} : pc[q] # "holding"
    BY OneHolder
  <1>2. PortTypeOK(Labels)'
    BY <1>1, MutexRanges, GrantType, RefuseType DEF Allow, Refusal
  <1>3. \A q \in Procs : pc'[q] # "holding"
    BY <1>1, MutexRanges DEF Allow, Refusal, Grant, Refuse, Finish, PortTypeOK
  <1>4. mu' = {}
    BY <1>1 DEF Allow, Refusal, Release
  <1>5. now' \in [Procs -> Time]
    <2>1. 0 \in Time
      BY PortAssumption DEF Time
    <2> QED
      BY <2>1 DEF Allow, Refusal, Release, MutexInv, MutexTypeOK
  <1>6. MutexTypeOK'
    BY <1>2, <1>3, <1>4, <1>5 DEF MutexTypeOK, Labels
  <1> QED
    BY <1>3, <1>6 DEF MutexInv

--------------------------------------------------------------------------------

(* The inductive invariant: whoever is inside sees no time going back.     *)
IInv ==
    /\ TypeOK
    /\ MutexInv
    /\ last <= clock
    /\ \A p \in Procs : pc[p] = "holding" => last <= now[p]

Full == Capacity * Unit

(* What drains per tick                                                    *)
Drain == IF Rate > 0 THEN Rate ELSE 0

LEMMA Product ==
    ASSUME NEW a \in Nat, NEW b \in Nat
    PROVE  a * b \in Nat
  OBVIOUS

LEMMA Sizes ==
    /\ Unit \in Nat \ {0} /\ Rate \in Int /\ Drain \in Nat /\ Full \in Nat
    /\ AdmitEpsilon \in Nat
    /\ \A n \in Batches : n \in Int
  BY LeakyBucketAssumption, Product, BatchInteger DEF Full, Drain, AdmitEpsilon

LEMMA BucketRanges ==
    ASSUME IInv
    PROVE  level \in Nat /\ last \in Time /\ last \in Nat /\ last <= clock
  BY PortAssumption DEF IInv, TypeOK, Time

(* Draining is what accrual is to a token bucket, and never below empty.   *)
LEMMA DrainedIs ==
    ASSUME IInv, NEW t \in Int, last <= t
    PROVE  /\ Drained(t) \in Nat
           /\ Full - Drained(t) = IF (Full - level) + Drain * (t - last) <= Full
                                  THEN (Full - level) + Drain * (t - last) ELSE Full
  <1> DEFINE leaked == Rate * (t - last)
             flow   == Drain * (t - last)
  <1>1. level \in Nat /\ t - last \in Nat
    BY BucketRanges
  <1>2. leaked \in Int /\ flow \in Nat
    BY <1>1, Sizes, Product
  <1>3. CASE Rate > 0
    <2>1. leaked = flow
      BY <1>3 DEF Drain
    <2> HIDE DEF leaked, flow
    <2>2. Drained(t) = IF leaked <= 0 THEN level
                       ELSE IF level <= leaked THEN 0 ELSE level - leaked
      BY DEF Drained, leaked
    <2>3. /\ Drained(t) \in Nat
          /\ Full - Drained(t) = IF (Full - level) + flow <= Full
                                 THEN (Full - level) + flow ELSE Full
      BY <1>1, <1>2, <2>1, <2>2, Sizes
    <2> QED
      BY <2>3 DEF flow
  <1>4. CASE ~(Rate > 0)
    <2>1. flow = 0
      BY <1>1, <1>4 DEF Drain
    <2>2. leaked <= 0
      <3>1. -Rate \in Nat
        BY <1>4, Sizes
      <3>2. (-Rate) * (t - last) \in Nat
        BY <1>1, <3>1, Product
      <3>3. leaked = -((-Rate) * (t - last))
        BY <1>1, Sizes
      <3> QED
        BY <3>2, <3>3
    <2> HIDE DEF leaked, flow
    <2>3. Drained(t) = level
      BY <2>2 DEF Drained, leaked
    <2>4. /\ Drained(t) \in Nat
          /\ Full - Drained(t) = IF (Full - level) + flow <= Full
                                 THEN (Full - level) + flow ELSE Full
      BY <1>1, <2>1, <2>3, Sizes
    <2> QED
      BY <2>4 DEF flow
  <1> QED
    BY <1>3, <1>4, Sizes

LEMMA InitIInv == Init => IInv
  <1> SUFFICES ASSUME Init PROVE IInv
    OBVIOUS
  <1>1. MutexInv
    BY MutexInitInv DEF Init
  <1>2. level \in Nat /\ last \in Time /\ last = 0 /\ clock = 0
    BY Sizes, PortAssumption DEF Init, Time, Full, MutexInit, PortInit
  <1>3. \A p \in Procs : pc[p] # "holding"
    BY DEF Init, MutexInit, PortInit
  <1> QED
    BY <1>1, <1>2, <1>3 DEF IInv, TypeOK, MutexInv

(* Steps that leave the bucket alone                                       *)
LEMMA PortStepIInv ==
    ASSUME IInv, UNCHANGED bucketVars,
           \/ Advance
           \/ \E p \in Procs : Enter(p) \/ EnterNothing(p) \/ Acquire(p)
    PROVE  IInv'
  <1>1. MutexInv /\ level \in Nat /\ last \in Time
    BY BucketRanges DEF IInv
  <1>2. MutexInv'
    BY <1>1, AdvanceMutex, EnterMutex, AcquireMutex
  <1>3. TypeOK'
    BY <1>1, <1>2 DEF bucketVars, TypeOK, MutexInv, Time
  <1>4. (last <= clock)'
    <2>1. PICK c \in Int : clock' = c /\ clock <= c
      BY <1>1, MutexRanges DEF Advance, Tick, Enter, EnterNothing, Call, CallNothing, Acquire
    <2>2. last <= c
      BY <1>1, <2>1, BucketRanges, MutexRanges
    <2> QED
      BY <2>1, <2>2 DEF bucketVars
  <1>5. ASSUME NEW q \in Procs, pc'[q] = "holding" PROVE (last <= now[q])'
    <2>1. CASE pc[q] = "holding" /\ now'[q] = now[q]
      BY <2>1 DEF IInv, bucketVars
    <2>2. CASE now'[q] = clock
      BY <2>2, BucketRanges DEF bucketVars
    <2>3. (pc[q] = "holding" /\ now'[q] = now[q]) \/ now'[q] = clock
      BY <1>1, <1>5, MutexRanges
         DEF Advance, Tick, Enter, EnterNothing, Call, CallNothing, Acquire,
             mutexVars, PortTypeOK, Resting, MutexInv, MutexTypeOK
    <2> QED
      BY <2>1, <2>2, <2>3
  <1> QED
    BY <1>2, <1>3, <1>4, <1>5 DEF IInv

(* The reading of the holder is no older than the last leak.               *)
LEMMA HolderDrains ==
    ASSUME IInv, NEW p \in Procs, pc[p] = "holding"
    PROVE  /\ now[p] \in Time /\ now[p] \in Nat /\ last <= now[p]
           /\ Drained(now[p]) \in Nat
           /\ arg[p] * Unit \in Nat
  <1>1. now[p] \in Time /\ now[p] \in Nat /\ last <= now[p]
    BY MutexRanges DEF IInv
  <1>2. arg[p] * Unit \in Nat
    BY OneHolder, Sizes, Product DEF IInv
  <1> QED
    BY <1>1, <1>2, DrainedIs

LEMMA VerdictIInv ==
    ASSUME IInv, NEW p \in Procs, Pour(p) \/ Deny(p)
    PROVE  IInv'
  <1>1. MutexInv /\ pc[p] = "holding" /\ (Allow(p) \/ Refusal(p)) /\ last' = now[p]
    BY DEF IInv, Pour, Deny
  <1>2. MutexInv' /\ \A q \in Procs : pc'[q] # "holding"
    BY <1>1, LeaveMutex
  <1>3. now[p] \in Time /\ now[p] <= clock /\ clock' = clock
    BY <1>1, MutexRanges, OneHolder DEF Allow, Refusal, Grant, Refuse, Finish
  <1>4. Drained(now[p]) \in Nat /\ Drained(now[p]) + arg[p] * Unit \in Nat
    BY <1>1, HolderDrains
  <1>5. level' \in Nat
    BY <1>4 DEF Pour, Deny
  <1> QED
    BY <1>1, <1>2, <1>3, <1>5 DEF IInv, TypeOK, MutexInv

LEMMA NextIInv == IInv /\ [Next]_vars => IInv'
  <1> SUFFICES ASSUME IInv, [Next]_vars PROVE IInv'
    OBVIOUS
  <1>1. CASE Next
    BY <1>1, PortStepIInv, VerdictIInv DEF Next
  <1>2. CASE UNCHANGED vars
    BY <1>2 DEF vars, IInv, TypeOK, MutexInv, MutexTypeOK, PortTypeOK
  <1> QED
    BY <1>1, <1>2

(* The inductive invariant holds throughout.                               *)
THEOREM InductiveInvariant == Spec => []IInv
  BY InitIInv, NextIInv, PTL DEF Spec

(* Types, and the mutex is held exactly by the caller inside the critical  *)
(* section, and the level is never below empty (leakybucket.go, AllowN).   *)
THEOREM TypeCorrect == Spec => []TypeOK
  <1>1. IInv => TypeOK
    BY DEF IInv
  <1> QED
    BY <1>1, InductiveInvariant, PTL

--------------------------------------------------------------------------------
(***************************************************************************)
(* The refinement.  Credit is the room left.  Waiting for the mutex and    *)
(* taking it are stutters; a verdict is the contract's, at the reading.    *)
(***************************************************************************)

(* The program counters of the contract                                    *)
Mapped == [p \in Procs |-> IF pc[p] \in Resting THEN pc[p] ELSE "busy"]

LEMMA PcRange ==
    ASSUME IInv
    PROVE  pc \in [Procs -> Resting \cup Labels]
  BY MutexRanges DEF IInv, PortTypeOK

LEMMA InitMaps == Init => Contract!Init
  <1> SUFFICES ASSUME Init PROVE Contract!Init
    OBVIOUS
  <1>1. Mapped = [p \in Procs |-> "ready"]
    BY DEF Mapped, Init, MutexInit, PortInit, Resting
  <1>2. Capacity * Unit - level = Capacity * Unit
    BY Sizes DEF Init, Full
  <1> QED
    BY <1>1, <1>2 DEF Init, MutexInit, PortInit, Contract!Init, Contract!PortInit,
       Mapped, Contract!Time, Time

(* What happens outside the critical section                               *)
LEMMA PortStepMaps ==
    ASSUME IInv, UNCHANGED bucketVars,
           \/ Advance
           \/ \E p \in Procs : Enter(p) \/ EnterNothing(p) \/ Acquire(p)
    PROVE  [Contract!Next]_(Contract!vars)
  <1>1. CASE Advance
    BY <1>1 DEF Advance, Tick, bucketVars, Contract!Next, Contract!Advance, Contract!Tick
  <1>2. ASSUME NEW p \in Procs, Enter(p) PROVE Contract!Next
    <2>1. Mapped' = [Mapped EXCEPT ![p] = "busy"] /\ Mapped[p] \in Resting
      BY <1>2, PcRange DEF Enter, Call, Mapped, Resting
    <2>2. Contract!Begin(p)
      BY <1>2, <2>1 DEF Enter, Call, Mapped, bucketVars, Contract!Begin, Contract!Call,
         Contract!Resting, Resting
    <2> QED
      BY <2>2 DEF Contract!Next
  <1>3. ASSUME NEW p \in Procs, EnterNothing(p) PROVE Contract!Next
    <2>1. Mapped' = [Mapped EXCEPT ![p] = "allowed"] /\ Mapped[p] \in Resting
      BY <1>3, PcRange DEF EnterNothing, CallNothing, Mapped, Resting
    <2>2. Contract!Skip(p)
      BY <1>3, <2>1 DEF EnterNothing, CallNothing, Mapped, bucketVars, Contract!Skip,
         Contract!CallNothing, Contract!Resting, Resting
    <2> QED
      BY <2>2 DEF Contract!Next
  <1>4. ASSUME NEW p \in Procs, Acquire(p) PROVE UNCHANGED Contract!vars
    <2>1. Mapped' = Mapped
      BY <1>4, PcRange DEF Acquire, Mapped, Resting
    <2> QED
      BY <1>4, <2>1 DEF Acquire, Mapped, bucketVars, Contract!vars
  <1> QED
    BY <1>1, <1>2, <1>3, <1>4

(* The holder is busy, its reading is a moment of its call no older than   *)
(* the last leak, and the room it computes is the credit at that reading.  *)
LEMMA HolderMaps ==
    ASSUME IInv, NEW p \in Procs, pc[p] = "holding"
    PROVE  /\ pc[p] \notin Resting /\ Mapped[p] = "busy"
           /\ now[p] \in Contract!Moments(p) /\ last <= now[p]
           /\ Full - Drained(now[p]) = Contract!CreditAt(now[p])
           /\ ~Overflows(p) <=> Contract!Fits(arg[p], now[p])
  <1>1. /\ pc[p] \notin Resting /\ arg[p] \in Batches
        /\ inv[p] <= now[p] /\ now[p] <= clock
    BY OneHolder DEF IInv
  <1>2. Mapped[p] = "busy"
    BY <1>1 DEF Mapped
  <1>3. last <= now[p]
    BY DEF IInv
  <1>4. now[p] \in inv[p]..clock
    BY <1>1, MutexRanges DEF IInv
  <1>5. now[p] \in Contract!Moments(p)
    BY <1>3, <1>4 DEF Contract!Moments
  <1>6. Full - Drained(now[p]) = Contract!CreditAt(now[p])
    BY DrainedIs, HolderDrains DEF Full, Drain, Contract!CreditAt
  <1>7. [n \in Batches |-> AdmitEpsilon][arg[p]] = AdmitEpsilon
    BY <1>1
  <1>8. ~Overflows(p) <=> Contract!Fits(arg[p], now[p])
    <2> DEFINE room == Full - Drained(now[p])
               cost == arg[p] * Unit
    <2>1. /\ Drained(now[p]) \in Nat /\ cost \in Nat /\ Full \in Nat
          /\ AdmitEpsilon \in Nat
      BY HolderDrains, Sizes
    <2>2. Contract!Fits(arg[p], now[p]) <=> room + AdmitEpsilon >= cost
      BY <1>6, <1>7 DEF Contract!Fits
    <2>3. ~Overflows(p) <=> ~(Drained(now[p]) + cost > Full + AdmitEpsilon)
      BY DEF Overflows, Full
    <2> HIDE DEF cost
    <2> QED
      BY <2>1, <2>2, <2>3
  <1> QED
    BY <1>1, <1>2, <1>3, <1>5, <1>6, <1>8

(* A call that returns rests in the contract too.                          *)
LEMMA FinishMaps ==
    ASSUME IInv, NEW p \in Procs, NEW verdict \in Resting, Finish(p, verdict)
    PROVE  Contract!Finish(p, verdict)
  <1>1. Mapped' = [Mapped EXCEPT ![p] = verdict]
    BY PcRange DEF Finish, Mapped
  <1> QED
    BY <1>1 DEF Finish, Mapped, Contract!Finish

(* A verdict settles the books at the reading.                             *)
LEMMA Settles ==
    ASSUME IInv, NEW p \in Procs, pc[p] = "holding",
           NEW spent \in Nat, level' = Drained(now[p]) + spent, last' = now[p]
    PROVE  Contract!Settle(now[p], spent)
  <1>1. last \in Nat /\ now[p] \in Nat /\ Drained(now[p]) \in Nat /\ Full \in Nat
    BY BucketRanges, HolderDrains, Sizes
  <1>2. ~(now[p] < last)
    BY <1>1, HolderMaps
  <1>3. Full - level' = (Full - Drained(now[p])) - spent
    BY <1>1
  <1>4. (Capacity * Unit - level)' = Full - level'
    BY DEF Full
  <1> QED
    BY <1>2, <1>3, <1>4, HolderMaps DEF Contract!Settle

LEMMA PourMaps ==
    ASSUME IInv, NEW p \in Procs, Pour(p)
    PROVE  Contract!Admit(p)
  <1>1. pc[p] = "holding" /\ ~Overflows(p) /\ Grant(p, now[p])
    BY DEF Pour, Allow
  <1>2. Contract!Finish(p, "allowed")
    BY <1>1, FinishMaps DEF Grant, Resting
  <1>3. Contract!Grant(p, now[p])
    BY <1>1, <1>2 DEF Grant, Contract!Grant, Time, Contract!Time
  <1>4. arg[p] * Unit \in Nat
    BY <1>1, HolderDrains
  <1>5. Contract!Settle(now[p], arg[p] * Unit)
    BY <1>1, <1>4, Settles DEF Pour
  <1> QED
    BY <1>1, <1>3, <1>5, HolderMaps DEF Contract!Admit, Mapped

(* A denial keeps the leak it computed.                                    *)
LEMMA DenyMaps ==
    ASSUME IInv, NEW p \in Procs, Deny(p)
    PROVE  Contract!Deny(p)
  <1>1. pc[p] = "holding" /\ Overflows(p) /\ Refuse(p)
    BY DEF Deny, Refusal
  <1>2. Contract!Refuse(p)
    BY <1>1, FinishMaps DEF Refuse, Contract!Refuse, Resting
  <1>3. level' = Drained(now[p]) + 0
    BY <1>1, HolderDrains DEF Deny
  <1>4. Contract!Settle(now[p], 0)
    BY <1>1, <1>3, Settles DEF Deny
  <1> QED
    BY <1>1, <1>2, <1>4, HolderMaps DEF Contract!Deny, Mapped

LEMMA NextMaps == IInv /\ [Next]_vars => [Contract!Next]_(Contract!vars)
  <1> SUFFICES ASSUME IInv, [Next]_vars PROVE [Contract!Next]_(Contract!vars)
    OBVIOUS
  <1>1. ASSUME NEW p \in Procs, Pour(p) \/ Deny(p) PROVE Contract!Next
    BY <1>1, PourMaps, DenyMaps DEF Contract!Next
  <1>2. CASE UNCHANGED vars
    BY <1>2 DEF vars, Contract!vars
  <1> QED
    BY <1>1, <1>2, PortStepMaps DEF Next

(* The leaky bucket implements the strict contract: every verdict is the   *)
(* exact answer at a time of its call, never before the last leak          *)
(* (leakybucket.go, AllowN).                                               *)
THEOREM LeakyBucketImplementsContract == Spec => ImplementsContract
  BY InitMaps, NextMaps, InductiveInvariant, PTL
     DEF Spec, ImplementsContract, Contract!Spec

--------------------------------------------------------------------------------
(* The contract's theorems, about the contract of this bucket              *)
Proved == INSTANCE TokenBucketContractProofs WITH
    pc         <- [p \in Procs |-> IF pc[p] \in Resting THEN pc[p] ELSE "busy"],
    credit     <- Capacity * Unit - level,
    Rate       <- IF Rate > 0 THEN Rate ELSE 0,
    CapQ       <- Capacity * Unit,
    Slack      <- [n \in Batches |-> AdmitEpsilon],
    MaxSlack   <- AdmitEpsilon,
    Backdating <- FALSE

LEMMA AssumptionsHold == Proved!PortAssumption /\ Proved!ContractAssumption
  <1>1. /\ Unit \in Nat \ {0} /\ (IF Rate > 0 THEN Rate ELSE 0) \in Nat
        /\ Capacity * Unit \in Nat /\ AdmitEpsilon \in Nat
    BY Sizes DEF Full, Drain
  <1>2. [n \in Batches |-> AdmitEpsilon] \in [Batches -> Int]
    BY <1>1
  <1>3. \A n \in Batches : [m \in Batches |-> AdmitEpsilon][n] \in 0..AdmitEpsilon
    BY <1>1
  <1> QED
    BY <1>1, <1>2, <1>3, PortAssumption
       DEF Proved!PortAssumption, Proved!ContractAssumption

(* It is the contract that the bucket was shown to implement.              *)
LEMMA SameContract ==
    /\ Contract!Init <=> Proved!Init
    /\ [Contract!Next]_(Contract!vars) => [Proved!Next]_(Proved!vars)
  BY DEF Contract!Init, Proved!Init, Contract!PortInit, Proved!PortInit,
         Contract!Next, Proved!Next, Contract!Advance, Proved!Advance,
         Contract!Tick, Proved!Tick, Contract!Begin, Proved!Begin,
         Contract!Call, Proved!Call, Contract!Skip, Proved!Skip,
         Contract!CallNothing, Proved!CallNothing, Contract!Admit,
         Proved!Admit, Contract!Deny, Proved!Deny, Contract!Refuse,
         Proved!Refuse, Contract!Grant, Proved!Grant, Contract!Finish,
         Proved!Finish, Contract!Moments, Proved!Moments, Contract!Fits,
         Proved!Fits, Contract!CreditAt, Proved!CreditAt, Contract!Settle,
         Proved!Settle, Contract!Resting, Proved!Resting, Contract!Time,
         Proved!Time, Contract!vars, Proved!vars

LEMMA ProvedSpec == Spec => Proved!Spec
  BY LeakyBucketImplementsContract, SameContract, PTL
     DEF ImplementsContract, Contract!Spec, Proved!Spec

(* The guarantee of the leaky bucket: from any time s to the last leak, no *)
(* more is admitted than what it holds, what drained between and one       *)
(* slack, however often the slack was granted (leakybucket.go, AllowN;     *)
(* limiter.go:26-27).                                                      *)
THEOREM MeterBound ==
    Spec => [](\A s \in Time : s <= last =>
                since[s] * Unit <= Capacity * Unit + AdmitEpsilon
                                     + (IF Rate > 0 THEN Rate ELSE 0) * (last - s))
  <1>1. Proved!Spec => []Proved!WindowBound
    BY AssumptionsHold, Proved!WindowBounded
  <1>2. Proved!WindowBound
            => \A s \in Time : s <= last =>
                since[s] * Unit <= Capacity * Unit + AdmitEpsilon
                                     + (IF Rate > 0 THEN Rate ELSE 0) * (last - s)
    BY DEF Proved!WindowBound, Proved!Time, Time
  <1> QED
    BY <1>1, <1>2, ProvedSpec, PTL

(* The bucket overflows by no more than one slack in its whole life, not   *)
(* by one per call (limiter.go:26-27).                                     *)
THEOREM OverflowBounded == Spec => [](level <= Capacity * Unit + AdmitEpsilon)
  <1>1. Proved!Spec => []Proved!DebtBound
    BY AssumptionsHold, Proved!DebtBounded
  <1>2. IInv /\ Proved!DebtBound => level <= Capacity * Unit + AdmitEpsilon
    <2> SUFFICES ASSUME IInv, Proved!DebtBound PROVE level <= Capacity * Unit + AdmitEpsilon
      OBVIOUS
    <2>1. -AdmitEpsilon <= Capacity * Unit - level
      BY DEF Proved!DebtBound
    <2>2. level \in Nat /\ AdmitEpsilon \in Nat /\ Full \in Nat
      BY BucketRanges, Sizes
    <2>3. -AdmitEpsilon <= Full - level
      BY <2>1 DEF Full
    <2>4. level <= Full + AdmitEpsilon
      BY <2>2, <2>3
    <2> QED
      BY <2>4 DEF Full
  <1> QED
    BY <1>1, <1>2, ProvedSpec, InductiveInvariant, PTL
================================================================================
