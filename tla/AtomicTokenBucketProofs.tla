------------------------ MODULE AtomicTokenBucketProofs ------------------------
(***************************************************************************)
(* Proofs about the one-word bucket, for every emission interval, capacity *)
(* and word that the constructor accepts: its types, that nothing wraps,   *)
(* that the word stays behind the readings, and that it only advances.     *)
(*                                                                         *)
(* They hang together.  A value loaded is one the word had before; the     *)
(* early refusal and the clamp keep everything computed from it within a   *)
(* word; so what is installed is at most the reading of the call and a     *)
(* token or more above what was loaded, which the CAS finds again.         *)
(***************************************************************************)
EXTENDS AtomicTokenBucket, TLAPS

(***************************************************************************)
(* The port: every move of a caller keeps its types.                       *)
(***************************************************************************)
LEMMA BatchInteger == \A n \in Batches : n \in Int
  BY PortAssumption, Zenon

(* A call that is doing any work asks for a positive batch.                *)
LEMMA ArgPositive ==
    ASSUME NEW labels, PortTypeOK(labels), NEW p \in Procs, pc[p] \notin Resting
    PROVE  arg[p] \in Nat \ {0} /\ arg[p] \in Batches
  <1>1. arg[p] \in Batches \cup {0} /\ arg[p] > 0
    BY DEF PortTypeOK
  <1>2. arg[p] \in Batches
    BY <1>1
  <1>3. arg[p] \in Int
    BY <1>2, BatchInteger
  <1> QED
    BY <1>1, <1>2, <1>3

(* A call that starts keeps the port's types.                              *)
LEMMA CallType ==
    ASSUME NEW labels, PortTypeOK(labels), NEW label \in labels,
           NEW p \in Procs, Call(p, label)
    PROVE  PortTypeOK(labels)'
  <1>1. PICK n \in Batches : n > 0 /\ arg' = [arg EXCEPT ![p] = n]
    BY DEF Call
  <1>2. \A q \in Procs : pc'[q] \notin Resting => arg'[q] > 0
    BY <1>1 DEF Call, PortTypeOK
  <1>3. \A q \in Procs : inv'[q] <= clock'
    BY PortAssumption DEF Call, PortTypeOK, Time
  <1> QED
    BY <1>1, <1>2, <1>3 DEF Call, PortTypeOK

(* A call that returns keeps them, granted or refused.                     *)
LEMMA FinishType ==
    ASSUME NEW labels, PortTypeOK(labels), NEW p \in Procs,
           NEW verdict \in Resting, Finish(p, verdict), since' \in [Time -> Nat]
    PROVE  PortTypeOK(labels)'
  <1>1. \A q \in Procs : pc'[q] \notin Resting => arg'[q] > 0
    BY DEF Finish, PortTypeOK
  <1>2. \A q \in Procs : inv'[q] <= clock'
    BY PortAssumption DEF Finish, PortTypeOK, Time
  <1> QED
    BY <1>1, <1>2, PortAssumption DEF Finish, PortTypeOK, Time

LEMMA GrantType ==
    ASSUME NEW labels, PortTypeOK(labels), NEW p \in Procs,
           pc[p] \notin Resting, NEW t, Grant(p, t)
    PROVE  PortTypeOK(labels)'
  <1>1. arg[p] \in Nat
    BY ArgPositive
  <1>2. since' \in [Time -> Nat]
    BY <1>1 DEF Grant, PortTypeOK
  <1> QED
    BY <1>2, FinishType DEF Grant, Resting

LEMMA RefuseType ==
    ASSUME NEW labels, PortTypeOK(labels), NEW p \in Procs, Refuse(p)
    PROVE  PortTypeOK(labels)'
  BY FinishType DEF Refuse, PortTypeOK, Resting

(* Ticks and empty batches keep them.                                      *)
LEMMA TickType ==
    ASSUME NEW labels, PortTypeOK(labels), Tick
    PROVE  PortTypeOK(labels)'
  BY PortAssumption DEF Tick, PortTypeOK, Time

LEMMA CallNothingType ==
    ASSUME NEW labels, PortTypeOK(labels), NEW p \in Procs, CallNothing(p)
    PROVE  PortTypeOK(labels)'
  BY DEF CallNothing, PortTypeOK, Resting

(* A step within a call moves its program counter and nothing else here.   *)
LEMMA StepType ==
    ASSUME NEW labels, PortTypeOK(labels), NEW p \in Procs,
           pc[p] \notin Resting, NEW label \in labels,
           pc' = [pc EXCEPT ![p] = label],
           UNCHANGED <<clock, arg, inv, since>>
    PROVE  PortTypeOK(labels)'
  BY DEF PortTypeOK

LEMMA InitType ==
    ASSUME NEW labels, PortInit
    PROVE  PortTypeOK(labels)
  BY PortAssumption DEF PortInit, PortTypeOK, Time, Resting

--------------------------------------------------------------------------------

(* What a call in progress knows: its reading was taken during the call,   *)
(* its batch is no larger than the bucket, and what it would install is    *)
(* behind its reading.                                                     *)
CallOK(p) ==
    /\ InFlight(p) => inv[p] <= now[p] /\ now[p] <= clock /\ arg[p] <= Capacity
    /\ pc[p] = "swapping" => /\ -CapT <= seen[p] /\ seen[p] <= vt
                             /\ Eff(p, seen[p]) + Need(p) <= now[p]

(* The inductive invariant; at the latest reading the bucket is not more   *)
(* than full.                                                              *)
IInv == /\ TypeOK
        /\ NeverAheadOfReadings
        /\ lin - CapT <= vt
        /\ \A p \in Procs : CallOK(p)

LEMMA Product ==
    ASSUME NEW a \in Nat, NEW b \in Nat
    PROVE  a * b \in Nat
  OBVIOUS

LEMMA ProductGrows ==
    ASSUME NEW a \in Nat \ {0}, NEW b \in Nat, a <= b, NEW c \in Nat
    PROVE  /\ a * c \in Nat /\ b * c \in Nat
           /\ c <= a * c /\ a * c <= b * c
  <1>1. (a - 1) * c \in Nat /\ (b - a) * c \in Nat
    BY Product, a - 1 \in Nat, b - a \in Nat
  <1>2. a * c = (a - 1) * c + c /\ b * c = a * c + (b - a) * c
    OBVIOUS
  <1> QED
    BY <1>1, <1>2, Product

(* A full bucket spans no more than half a word's positive range.          *)
LEMMA CapTBounds ==
    /\ CapT \in Nat /\ CapT <= MaxSpan
    /\ Capacity > 0 => CapT = Capacity * T
  <1>1. T \in Nat /\ MaxSpan \in Nat /\ Capacity \in Int /\ Capacity * T <= MaxSpan
    BY AtomicAssumption
  <1>2. Capacity > 0 => Capacity * T \in Nat
    BY <1>1, Product
  <1> QED
    BY <1>1, <1>2 DEF CapT

LEMMA WrapExact ==
    ASSUME NEW x \in Int, -2 * MaxSpan <= x, x <= 2 * MaxSpan - 1
    PROVE  Wrap(x) = x /\ x \in Word
  BY AtomicAssumption DEF Wrap, Word

LEMMA Sizes ==
    /\ MaxSpan \in Nat \ {0} /\ T \in Nat \ {0} /\ T <= MaxSpan
    /\ Horizon \in Nat /\ Horizon < 2 * MaxSpan
    /\ \A t \in Time : t \in Nat /\ t <= Horizon
  BY AtomicAssumption, PortAssumption DEF Time

(* The cost of an admitted size is exact, a token at least and a full      *)
(* bucket at most.                                                         *)
LEMMA NeedBounds ==
    ASSUME NEW p \in Procs, arg[p] \in Nat \ {0}, arg[p] <= Capacity
    PROVE  /\ Need(p) = arg[p] * T /\ arg[p] * T \in Word
           /\ Need(p) \in Nat /\ T <= Need(p) /\ Need(p) <= CapT
  <1>1. Capacity \in Nat /\ Capacity > 0 /\ CapT = Capacity * T
    BY CapTBounds, AtomicAssumption
  <1>2. arg[p] * T \in Nat /\ T <= arg[p] * T /\ arg[p] * T <= CapT
    BY <1>1, ProductGrows, Sizes
  <1> DEFINE cost == arg[p] * T
  <1>3. cost \in Nat /\ T <= cost /\ cost <= CapT
    BY <1>2
  <1> HIDE DEF cost
  <1>4. Wrap(cost) = cost /\ cost \in Word
    BY <1>3, CapTBounds, Sizes, WrapExact
  <1> QED
    BY <1>3, <1>4 DEF cost, Need

(* The clamp and the credit are exact for every value the word can have.   *)
LEMMA EffBounds ==
    ASSUME NEW p \in Procs, now[p] \in Time, NEW v \in Int,
           -CapT <= v, v <= Horizon
    PROVE  /\ Floor(p) = now[p] - CapT /\ now[p] - CapT \in Word
           /\ Eff(p, v) \in Int /\ v <= Eff(p, v) /\ now[p] - CapT <= Eff(p, v)
           /\ Eff(p, v) <= Horizon
           /\ now[p] - Eff(p, v) \in Word /\ Avail(p, v) = now[p] - Eff(p, v)
  <1>1. now[p] \in Nat /\ now[p] <= Horizon
    BY Sizes
  <1>2. now[p] - CapT \in Int /\ Wrap(now[p] - CapT) = now[p] - CapT
        /\ now[p] - CapT \in Word
    BY <1>1, CapTBounds, Sizes, WrapExact
  <1>3. Floor(p) = now[p] - CapT
    BY <1>2 DEF Floor
  <1> DEFINE e == Eff(p, v)
  <1>4. e \in Int /\ v <= e /\ now[p] - CapT <= e /\ e <= Horizon
    BY <1>1, <1>3, CapTBounds, Sizes DEF Eff
  <1>5. Avail(p, v) = Wrap(now[p] - e)
    BY DEF Avail
  <1> HIDE DEF e
  <1>6. Wrap(now[p] - e) = now[p] - e /\ now[p] - e \in Word
    <2>1. now[p] - e \in Int /\ now[p] - e <= CapT
      BY <1>1, <1>4, CapTBounds
    <2>2. -2 * MaxSpan <= now[p] - e /\ now[p] - e <= 2 * MaxSpan - 1
      BY <2>1, <1>1, <1>4, CapTBounds, Sizes
    <2> QED
      BY <2>1, <2>2, WrapExact
  <1> QED
    BY <1>2, <1>3, <1>4, <1>5, <1>6 DEF e

--------------------------------------------------------------------------------
Labels == {"entered", "loading", "swapping"}

(* What the invariant says of the port and of the integers it holds.       *)
LEMMA Ranges ==
    ASSUME IInv
    PROVE  /\ PortTypeOK(Labels)
           /\ vt \in Int /\ vt <= lin /\ lin <= clock /\ -CapT <= vt
           /\ clock \in Time /\ lin \in Time
           /\ clock \in Nat /\ clock <= Horizon /\ lin \in Nat
           /\ \A p \in Procs : now[p] \in Time /\ now[p] \in Nat /\ seen[p] \in Int
  BY Sizes, CapTBounds DEF IInv, TypeOK, PortTypeOK, NeverAheadOfReadings, Word, Labels

LEMMA InFlightArg ==
    ASSUME IInv, NEW p \in Procs, InFlight(p)
    PROVE  arg[p] \in Nat \ {0} /\ arg[p] <= Capacity
  BY Ranges, ArgPositive DEF InFlight, Resting, IInv, CallOK

(* A caller whose own variables stay put keeps what it knows.              *)
LEMMA Kept ==
    ASSUME NEW q \in Procs, CallOK(q), IInv,
           pc'[q] = pc[q], arg'[q] = arg[q], inv'[q] = inv[q],
           now'[q] = now[q], seen'[q] = seen[q],
           NEW c \in Int, clock' = c, clock <= c,
           NEW v \in Int, vt' = v, vt <= v
    PROVE  CallOK(q)'
  <1>1. InFlight(q)' = InFlight(q)
    BY DEF InFlight
  <1>2. (Eff(q, seen[q]) + Need(q))' = Eff(q, seen[q]) + Need(q)
    BY DEF Eff, Floor, Need
  <1>3. InFlight(q) => inv[q] <= now[q] /\ now[q] <= c
    BY Ranges DEF CallOK
  <1>4. pc[q] = "swapping" => seen[q] <= v
    BY Ranges DEF CallOK
  <1> QED
    BY <1>1, <1>2, <1>3, <1>4 DEF CallOK

(* A caller outside the loop has nothing to know.                          *)
LEMMA Idle ==
    ASSUME NEW q \in Procs, pc'[q] \in Resting \cup {"entered"}
    PROVE  CallOK(q)'
  BY DEF CallOK, InFlight, Resting

LEMMA InitIInv == Init => IInv
  <1> SUFFICES ASSUME Init PROVE IInv
    OBVIOUS
  <1>1. PortTypeOK(Labels)
    BY InitType DEF Init
  <1>2. /\ -CapT \in Word /\ 0 \in Word /\ -CapT <= 0 /\ 0 - CapT <= -CapT
        /\ 0 \in Time /\ clock = 0
    BY CapTBounds, Sizes, PortAssumption DEF Word, Time, Init, PortInit
  <1>3. TypeOK
    BY <1>1, <1>2 DEF Init, TypeOK, Labels
  <1>4. \A p \in Procs : pc[p] = "ready"
    BY DEF Init, PortInit
  <1>5. \A p \in Procs : CallOK(p)
    BY <1>4 DEF CallOK, InFlight
  <1> QED
    BY <1>2, <1>3, <1>5, CapTBounds DEF Init, IInv, NeverAheadOfReadings

(* A swap that finds the value it loaded installs a value that is past and *)
(* a token or more ahead.                                                  *)
LEMMA Installed ==
    ASSUME IInv, NEW p \in Procs, pc[p] = "swapping", vt = seen[p]
    PROVE  /\ NextVT(p) \in Word /\ NextVT(p) \in Int
           /\ NextVT(p) <= now[p] /\ vt + T <= NextVT(p)
           /\ NextVT(p) = Eff(p, vt) + Need(p)
           /\ now[p] - CapT <= NextVT(p)
  <1>1. InFlight(p) /\ CallOK(p)
    BY DEF InFlight, IInv
  <1>2. arg[p] \in Nat \ {0} /\ arg[p] <= Capacity
    BY <1>1, InFlightArg
  <1>3. Need(p) \in Nat /\ T <= Need(p)
    BY <1>2, NeedBounds
  <1>4. now[p] \in Nat /\ now[p] <= Horizon /\ now[p] \in Time
        /\ vt \in Int /\ -CapT <= vt /\ vt <= Horizon
    BY Ranges, Sizes DEF IInv
  <1>5. Eff(p, vt) \in Int /\ vt <= Eff(p, vt) /\ now[p] - CapT <= Eff(p, vt)
    BY <1>4, EffBounds
  <1>6. Eff(p, vt) + Need(p) <= now[p]
    BY <1>1 DEF CallOK
  <1> DEFINE x == Eff(p, vt) + Need(p)
  <1>7. x \in Int /\ x <= now[p] /\ vt + T <= x /\ now[p] - CapT <= x
    BY <1>3, <1>4, <1>5, <1>6, Sizes, CapTBounds
  <1>8. NextVT(p) = Wrap(x)
    BY DEF NextVT
  <1> HIDE DEF x
  <1>9. -2 * MaxSpan <= x /\ x <= 2 * MaxSpan - 1
    BY <1>4, <1>7, CapTBounds, Sizes
  <1>10. NextVT(p) = x /\ x \in Word
    BY <1>7, <1>8, <1>9, WrapExact
  <1> QED
    BY <1>7, <1>10 DEF x

--------------------------------------------------------------------------------
(* A step of p that leaves clock, vt and lin alone keeps the invariant if  *)
(* it keeps the types and what p knows.                                    *)
LEMMA OwnStep ==
    ASSUME IInv, NEW p \in Procs,
           UNCHANGED <<clock, vt, lin>>, PortTypeOK(Labels)',
           now' \in [Procs -> Time], seen' \in [Procs -> Word],
           CallOK(p)',
           \A q \in Procs \ {p} : /\ pc'[q] = pc[q] /\ arg'[q] = arg[q]
                                   /\ inv'[q] = inv[q]
                                   /\ now'[q] = now[q] /\ seen'[q] = seen[q]
    PROVE  IInv'
  <1>1. TypeOK'
    BY DEF IInv, TypeOK, Labels
  <1>2. NeverAheadOfReadings' /\ (lin - CapT <= vt)'
    BY DEF IInv, NeverAheadOfReadings, CapT
  <1>3. ASSUME NEW q \in Procs, q # p PROVE CallOK(q)'
    <2>1. clock \in Int /\ vt \in Int /\ CallOK(q)
      BY Ranges DEF IInv
    <2> QED
      BY <1>3, <2>1, Kept
  <1> QED
    BY <1>1, <1>2, <1>3 DEF IInv

LEMMA AdvanceIInv == IInv /\ Advance => IInv'
  <1> SUFFICES ASSUME IInv, Advance PROVE IInv'
    OBVIOUS
  <1> DEFINE c == clock + 1
  <1>1. /\ clock' = c /\ c \in Int /\ clock <= c
        /\ UNCHANGED <<pc, arg, inv, since, vt, now, seen, lin>>
    BY Ranges DEF Advance, Tick
  <1>2. PortTypeOK(Labels)'
    BY Ranges, TickType DEF Advance
  <1> HIDE DEF c
  <1>3. TypeOK'
    BY <1>1, <1>2 DEF IInv, TypeOK, Labels
  <1>4. lin <= c
    BY <1>1, Ranges
  <1>5. NeverAheadOfReadings' /\ (lin - CapT <= vt)'
    BY <1>1, <1>4 DEF IInv, NeverAheadOfReadings, CapT
  <1>6. ASSUME NEW q \in Procs PROVE CallOK(q)'
    <2>1. vt \in Int /\ vt <= vt /\ CallOK(q)
      BY Ranges DEF IInv
    <2> QED
      BY <1>1, <2>1, Kept
  <1> QED
    BY <1>3, <1>5, <1>6 DEF IInv

LEMMA BeginningIInv ==
    ASSUME IInv, NEW p \in Procs, Enter(p) \/ EnterNothing(p)
    PROVE  IInv'
  <1>1. PortTypeOK(Labels)'
    BY Ranges, CallType, CallNothingType DEF Enter, EnterNothing, Labels
  <1>2. pc'[p] \in Resting \cup {"entered"}
    BY Ranges DEF Enter, EnterNothing, Call, CallNothing, PortTypeOK, Resting
  <1>3. CallOK(p)'
    BY <1>2, Idle
  <1>4. \A q \in Procs \ {p} :
            pc'[q] = pc[q] /\ arg'[q] = arg[q] /\ inv'[q] = inv[q]
    BY Ranges DEF Enter, EnterNothing, Call, CallNothing, PortTypeOK
  <1>5. UNCHANGED <<clock, vt, lin, now, seen>>
    BY DEF Enter, EnterNothing, Call, CallNothing
  <1>6. now' \in [Procs -> Time] /\ seen' \in [Procs -> Word]
    BY <1>5 DEF IInv, TypeOK
  <1> QED
    BY <1>1, <1>3, <1>4, <1>5, <1>6, OwnStep

(* Both denials: the call is over and nothing else happened.               *)
LEMMA DenyingIInv ==
    ASSUME IInv, NEW p \in Procs, DenyTooLarge(p) \/ Deny(p)
    PROVE  IInv'
  <1>1. PortTypeOK(Labels)'
    BY Ranges, RefuseType DEF DenyTooLarge, Deny
  <1>2. pc'[p] \in Resting \cup {"entered"}
    BY Ranges DEF DenyTooLarge, Deny, Refuse, Finish, PortTypeOK, Resting
  <1>3. CallOK(p)'
    BY <1>2, Idle
  <1>4. \A q \in Procs \ {p} :
            pc'[q] = pc[q] /\ arg'[q] = arg[q] /\ inv'[q] = inv[q]
    BY Ranges DEF DenyTooLarge, Deny, Refuse, Finish, PortTypeOK
  <1>5. UNCHANGED <<clock, vt, lin, seen>>
    BY DEF DenyTooLarge, Deny, Refuse, Finish
  <1>6. now' \in [Procs -> Time] /\ \A q \in Procs \ {p} : now'[q] = now[q]
    BY PortAssumption DEF DenyTooLarge, Deny, IInv, TypeOK, Time
  <1>7. seen' \in [Procs -> Word]
    BY <1>5 DEF IInv, TypeOK
  <1> QED
    BY <1>1, <1>3, <1>4, <1>5, <1>6, <1>7, OwnStep

LEMMA ReadClockIInv ==
    ASSUME IInv, NEW p \in Procs, ReadClock(p)
    PROVE  IInv'
  <1>1. pc[p] \notin Resting /\ pc' = [pc EXCEPT ![p] = "loading"]
        /\ UNCHANGED <<clock, arg, inv, since, vt, seen, lin>>
    BY DEF ReadClock, Resting
  <1>2. PortTypeOK(Labels)'
    BY <1>1, Ranges, StepType DEF Labels
  <1>3. now' \in [Procs -> Time] /\ now'[p] = clock
        /\ \A q \in Procs \ {p} : now'[q] = now[q]
    BY Ranges DEF ReadClock, IInv, TypeOK
  <1>4. pc'[p] = "loading" /\ \A q \in Procs \ {p} : pc'[q] = pc[q]
    BY <1>1, Ranges DEF PortTypeOK
  <1>5. arg[p] \in Int /\ Capacity \in Int /\ ~(arg[p] > Capacity)
    BY <1>1, Ranges, ArgPositive, AtomicAssumption DEF ReadClock, TooLarge
  <1>6. arg[p] <= Capacity /\ clock <= clock /\ inv[p] <= clock
    BY <1>5, Ranges DEF PortTypeOK
  <1>7. CallOK(p)'
    BY <1>1, <1>3, <1>4, <1>6 DEF CallOK
  <1>8. seen' \in [Procs -> Word]
    BY <1>1 DEF IInv, TypeOK
  <1> QED
    BY <1>1, <1>2, <1>3, <1>4, <1>7, <1>8, OwnStep

LEMMA LoadIInv ==
    ASSUME IInv, NEW p \in Procs, Load(p)
    PROVE  IInv'
  <1>1. pc[p] = "loading" /\ pc' = [pc EXCEPT ![p] = "swapping"]
        /\ seen' = [seen EXCEPT ![p] = vt]
        /\ UNCHANGED <<clock, arg, inv, since, vt, now, lin>>
    BY DEF Load
  <1>2. PortTypeOK(Labels)'
    BY <1>1, Ranges, StepType DEF Labels, Resting
  <1>3. seen' \in [Procs -> Word] /\ seen'[p] = vt
        /\ \A q \in Procs \ {p} : seen'[q] = seen[q]
    BY <1>1 DEF IInv, TypeOK
  <1>4. pc'[p] = "swapping" /\ \A q \in Procs \ {p} : pc'[q] = pc[q]
    BY <1>1, Ranges DEF PortTypeOK
  <1>5. InFlight(p) /\ inv[p] <= now[p] /\ now[p] <= clock /\ arg[p] <= Capacity
    BY <1>1 DEF InFlight, IInv, CallOK
  <1>6. Need(p) \in Nat
    BY <1>5, InFlightArg, NeedBounds
  <1>7. now[p] \in Time /\ now[p] \in Nat /\ vt \in Int /\ -CapT <= vt /\ vt <= Horizon
    BY Ranges, Sizes DEF IInv
  <1>8. Eff(p, vt) \in Int /\ Avail(p, vt) = now[p] - Eff(p, vt)
    BY <1>7, EffBounds
  <1>9. Avail(p, vt) >= Need(p)
    BY DEF Load, Enough
  <1>10. Eff(p, vt) + Need(p) <= now[p]
    BY <1>6, <1>7, <1>8, <1>9
  <1>11. (Eff(p, seen[p]) + Need(p))' = Eff(p, vt) + Need(p)
    BY <1>1, <1>3 DEF Eff, Floor, Need
  <1>12. CallOK(p)'
    BY <1>1, <1>3, <1>5, <1>7, <1>10, <1>11 DEF CallOK
  <1>13. now' \in [Procs -> Time]
    BY <1>1 DEF IInv, TypeOK
  <1> QED
    BY <1>1, <1>2, <1>3, <1>4, <1>12, <1>13, OwnStep

LEMMA RetryIInv ==
    ASSUME IInv, NEW p \in Procs, Retry(p)
    PROVE  IInv'
  <1>1. pc[p] = "swapping" /\ pc' = [pc EXCEPT ![p] = "loading"]
        /\ seen' = [seen EXCEPT ![p] = 0]
        /\ UNCHANGED <<clock, arg, inv, since, vt, now, lin>>
    BY DEF Retry
  <1>2. PortTypeOK(Labels)'
    BY <1>1, Ranges, StepType DEF Labels, Resting
  <1>3. seen' \in [Procs -> Word] /\ \A q \in Procs \ {p} : seen'[q] = seen[q]
    <2>1. 0 \in Word
      BY Sizes DEF Word
    <2> QED
      BY <1>1, <2>1 DEF IInv, TypeOK
  <1>4. pc'[p] = "loading" /\ \A q \in Procs \ {p} : pc'[q] = pc[q]
    BY <1>1, Ranges DEF PortTypeOK
  <1>5. inv[p] <= now[p] /\ now[p] <= clock /\ arg[p] <= Capacity
    BY <1>1 DEF InFlight, IInv, CallOK
  <1>6. CallOK(p)'
    BY <1>1, <1>4, <1>5 DEF CallOK
  <1>7. now' \in [Procs -> Time]
    BY <1>1 DEF IInv, TypeOK
  <1> QED
    BY <1>1, <1>2, <1>3, <1>4, <1>6, <1>7, OwnStep

LEMMA SwapIInv ==
    ASSUME IInv, NEW p \in Procs, Swap(p)
    PROVE  IInv'
  <1> DEFINE v == NextVT(p)
             l == IF now[p] > lin THEN now[p] ELSE lin
  <1>1. pc[p] = "swapping" /\ vt = seen[p] /\ vt' = v /\ lin' = l
        /\ Grant(p, now[p])
        /\ now' = [now EXCEPT ![p] = 0] /\ seen' = [seen EXCEPT ![p] = 0]
    BY DEF Swap
  <1>2. v \in Word /\ v \in Int /\ v <= now[p] /\ vt + T <= v
    BY <1>1, Installed
  <1>3. vt \in Int /\ vt <= v
    BY <1>2, Ranges, Sizes
  <1>4. now[p] <= clock
    BY <1>1 DEF InFlight, IInv, CallOK
  <1>5. l \in Time /\ v <= l /\ l <= clock
    BY <1>2, <1>4, Ranges
  <1>0. l - CapT <= v
    <2>1. now[p] \in Nat /\ lin \in Nat /\ CapT \in Nat /\ lin - CapT <= vt
      BY Ranges, CapTBounds DEF IInv
    <2>2. now[p] - CapT <= v
      BY <1>1, Installed
    <2> QED
      BY <1>2, <1>3, <2>1, <2>2
  <1> HIDE DEF v, l
  <1>6. pc[p] \notin Resting /\ clock' = clock /\ clock \in Int /\ clock <= clock
    BY <1>1, Ranges DEF Resting, Grant, Finish
  <1>7. PortTypeOK(Labels)'
    BY <1>1, <1>6, Ranges, GrantType
  <1>8. now' \in [Procs -> Time] /\ seen' \in [Procs -> Word]
    <2>1. 0 \in Word /\ 0 \in Time
      BY Sizes, PortAssumption DEF Word, Time
    <2> QED
      BY <1>1, <2>1 DEF IInv, TypeOK
  <1>9. TypeOK'
    BY <1>1, <1>2, <1>5, <1>7, <1>8 DEF TypeOK, Labels
  <1>10. NeverAheadOfReadings' /\ (lin - CapT <= vt)'
    BY <1>0, <1>1, <1>5, <1>6 DEF NeverAheadOfReadings, CapT
  <1>11. ASSUME NEW q \in Procs, q # p PROVE CallOK(q)'
    <2>1. pc'[q] = pc[q] /\ arg'[q] = arg[q] /\ inv'[q] = inv[q]
      BY <1>1, <1>11, Ranges DEF Grant, Finish, PortTypeOK
    <2>2. now'[q] = now[q] /\ seen'[q] = seen[q]
      BY <1>1, <1>11 DEF IInv, TypeOK
    <2>3. CallOK(q)
      BY DEF IInv
    <2> QED
      BY <1>1, <1>2, <1>3, <1>6, <2>1, <2>2, <2>3, Kept
  <1>12. CallOK(p)'
    <2>1. pc'[p] = "allowed"
      BY <1>1, Ranges DEF Grant, Finish, PortTypeOK
    <2> QED
      BY <2>1, Idle DEF Resting
  <1> QED
    BY <1>9, <1>10, <1>11, <1>12 DEF IInv

LEMMA NextIInv == IInv /\ [Next]_vars => IInv'
  <1> SUFFICES ASSUME IInv, [Next]_vars PROVE IInv'
    OBVIOUS
  <1>1. CASE Advance
    BY <1>1, AdvanceIInv
  <1>2. ASSUME NEW p \in Procs, Enter(p) \/ EnterNothing(p) PROVE IInv'
    BY <1>2, BeginningIInv
  <1>3. ASSUME NEW p \in Procs, Step(p) PROVE IInv'
    BY <1>3, DenyingIInv, ReadClockIInv, LoadIInv, RetryIInv, SwapIInv DEF Step
  <1>4. CASE UNCHANGED vars
    <2>1. TypeOK'
      BY <1>4 DEF vars, IInv, TypeOK, PortTypeOK
    <2>2. NeverAheadOfReadings' /\ (lin - CapT <= vt)'
      BY <1>4 DEF vars, IInv, NeverAheadOfReadings, CapT
    <2>3. ASSUME NEW q \in Procs PROVE CallOK(q)'
      BY <1>4, Ranges, Kept DEF vars, IInv
    <2> QED
      BY <2>1, <2>2, <2>3 DEF IInv
  <1> QED
    BY <1>1, <1>2, <1>3, <1>4 DEF Next

(* The inductive invariant holds throughout.                               *)
THEOREM InductiveInvariant == Spec => []IInv
  BY InitIInv, NextIInv, PTL DEF Spec

--------------------------------------------------------------------------------
(* Every variable keeps its type; vt always fits a signed word             *)
(* (atomic_tokenbucket.go, AllowN).                                        *)
THEOREM TypeCorrect == Spec => []TypeOK
  <1>1. IInv => TypeOK
    BY DEF IInv
  <1> QED
    BY <1>1, InductiveInvariant, PTL

(* The instant of zero credit stays behind the latest reading used, and    *)
(* that reading behind the clock (atomic_tokenbucket.go, nextAtomicState). *)
THEOREM ReadingsLead == Spec => []NeverAheadOfReadings
  <1>1. IInv => NeverAheadOfReadings
    BY DEF IInv
  <1> QED
    BY <1>1, InductiveInvariant, PTL

(* No int64 operation of AllowN overflows, whatever rate and capacity the  *)
(* constructor let through.                                                *)
THEOREM ArithmeticExact == Spec => []ExactArithmetic
  <1>1. IInv => ExactArithmetic
    <2> SUFFICES ASSUME IInv, NEW p \in Procs, InFlight(p)
                 PROVE  /\ arg[p] * T \in Word
                        /\ now[p] - CapT \in Word
                        /\ now[p] - Eff(p, vt) \in Word
                        /\ pc[p] = "swapping" => Eff(p, seen[p]) + Need(p) \in Word
      BY DEF ExactArithmetic
    <2>1. arg[p] \in Nat \ {0} /\ arg[p] <= Capacity
      BY InFlightArg
    <2>2. arg[p] * T \in Word /\ Need(p) \in Nat
      BY <2>1, NeedBounds
    <2>3. /\ now[p] \in Time /\ now[p] \in Nat /\ now[p] <= Horizon
          /\ vt \in Int /\ -CapT <= vt /\ vt <= Horizon /\ seen[p] \in Int
      BY Ranges, Sizes DEF IInv
    <2>4. now[p] - CapT \in Word /\ now[p] - Eff(p, vt) \in Word
      BY <2>3, EffBounds
    <2>5. CASE pc[p] = "swapping"
      <3>0. /\ -CapT <= seen[p] /\ seen[p] <= vt
            /\ Eff(p, seen[p]) + Need(p) <= now[p]
        BY <2>5 DEF IInv, CallOK
      <3>1. -CapT <= seen[p] /\ seen[p] <= Horizon
        BY <3>0, <2>3, Sizes
      <3>2. Eff(p, seen[p]) \in Int /\ seen[p] <= Eff(p, seen[p])
        BY <2>3, <3>1, EffBounds
      <3> DEFINE x == Eff(p, seen[p]) + Need(p)
      <3>3. x \in Int /\ -CapT <= x /\ x <= Horizon
        BY <2>2, <2>3, <3>0, <3>1, <3>2, CapTBounds, Sizes
      <3> HIDE DEF x
      <3>4. x \in Word
        BY <3>3, CapTBounds, Sizes DEF Word
      <3> QED
        BY <2>2, <2>4, <3>4 DEF x
    <2> QED
      BY <2>2, <2>4, <2>5
  <1> QED
    BY <1>1, InductiveInvariant, PTL

(* The word only moves forward, by a token or more: a value once loaded    *)
(* never comes back, and comparing values is as good as comparing          *)
(* identities (atomic_tokenbucket.go:231-233).                             *)
THEOREM WordAdvances == Spec => VirtualTimeAdvances
  <1>1. IInv /\ [Next]_vars => [vt' # vt => vt' >= vt + T]_vars
    <2> SUFFICES ASSUME IInv, Next, vt' # vt PROVE vt' >= vt + T
      BY DEF vars
    <2>1. PICK p \in Procs : Swap(p)
      BY DEF Next, Step, Advance, Enter, EnterNothing, DenyTooLarge, ReadClock,
             Load, Deny, Retry
    <2>2. pc[p] = "swapping" /\ vt = seen[p] /\ vt' = NextVT(p)
      BY <2>1 DEF Swap
    <2>3. NextVT(p) \in Int /\ vt + T <= NextVT(p) /\ vt + T \in Int
      BY <2>2, Installed, Ranges, Sizes
    <2>4. NextVT(p) >= vt + T
      BY <2>3
    <2> QED
      BY <2>2, <2>4
  <1> QED
    BY <1>1, InductiveInvariant, PTL DEF Spec, VirtualTimeAdvances

--------------------------------------------------------------------------------
(***************************************************************************)
(* The bucket implements the contract with late decisions: credit is       *)
(* lin - vt, settled at lin.  A verdict takes effect at the reading of its *)
(* call, which may be before lin; the early refusal takes effect at once.  *)
(* Loads and retries are stutters.                                         *)
(***************************************************************************)

(* The program counters of the contract                                    *)
Mapped == [p \in Procs |-> IF pc[p] \in Resting THEN pc[p] ELSE "busy"]

(* The credit of the contract at time t                                    *)
LEMMA CreditIs ==
    ASSUME IInv, NEW t \in Int
    PROVE  Contract!CreditAt(t) = IF t - vt <= CapT THEN t - vt ELSE CapT
  <1>1. lin - vt + 1 * (t - lin) = t - vt
    BY Ranges
  <1> QED
    BY <1>1 DEF Contract!CreditAt

LEMMA CostIs ==
    ASSUME IInv, NEW p \in Procs, pc[p] \notin Resting, NEW t \in Int
    PROVE  /\ Contract!Fits(arg[p], t) <=> Contract!CreditAt(t) >= arg[p] * T
           /\ arg[p] \in Nat \ {0}
  <1>1. arg[p] \in Batches /\ arg[p] \in Nat \ {0}
    BY Ranges, ArgPositive
  <1>2. [n \in Batches |-> 0][arg[p]] = 0
    BY <1>1
  <1>3. Contract!CreditAt(t) \in Int
    BY CreditIs, Ranges, CapTBounds
  <1> QED
    BY <1>1, <1>2, <1>3 DEF Contract!Fits

(* At the reading of its call, the contract's credit is what the call      *)
(* computes.                                                               *)
LEMMA AvailIsCredit ==
    ASSUME IInv, NEW p \in Procs, InFlight(p)
    PROVE  /\ Avail(p, vt) = Contract!CreditAt(now[p])
           /\ now[p] \in inv[p]..clock
  <1>1. /\ now[p] \in Time /\ now[p] \in Nat /\ vt \in Int /\ -CapT <= vt
        /\ vt <= Horizon /\ CapT \in Nat
    BY Ranges, Sizes, CapTBounds
  <1>2. Avail(p, vt) = now[p] - Eff(p, vt) /\ Floor(p) = now[p] - CapT
    BY <1>1, EffBounds
  <1>3. Avail(p, vt) = IF now[p] - vt <= CapT THEN now[p] - vt ELSE CapT
    BY <1>1, <1>2 DEF Eff
  <1>4. inv[p] <= now[p] /\ now[p] <= clock
    BY DEF IInv, CallOK
  <1>5. inv[p] \in Int /\ clock \in Int
    BY Ranges, Sizes DEF PortTypeOK
  <1> QED
    BY <1>1, <1>3, <1>4, <1>5, CreditIs

--------------------------------------------------------------------------------
LEMMA InitMaps == Init => Contract!Init
  <1> SUFFICES ASSUME Init PROVE Contract!Init
    OBVIOUS
  <1>1. Mapped = [p \in Procs |-> "ready"]
    BY DEF Mapped, Init, PortInit, Resting
  <1>2. lin - vt = CapT
    BY CapTBounds DEF Init
  <1> QED
    BY <1>1, <1>2 DEF Init, PortInit, Contract!Init, Contract!PortInit, Mapped,
       Contract!Time, Time

LEMMA AdvanceMaps == Advance => Contract!Advance
  BY DEF Advance, Tick, Contract!Advance, Contract!Tick

LEMMA EnterMaps ==
    ASSUME IInv, NEW p \in Procs, Enter(p)
    PROVE  Contract!Begin(p)
  <1>1. Mapped' = [Mapped EXCEPT ![p] = "busy"] /\ Mapped[p] \in Resting
    BY Ranges DEF Enter, Call, Mapped, PortTypeOK, Resting
  <1> QED
    BY <1>1 DEF Enter, Call, Mapped, Contract!Begin, Contract!Call, Contract!Resting, Resting

LEMMA SkipMaps ==
    ASSUME IInv, NEW p \in Procs, EnterNothing(p)
    PROVE  Contract!Skip(p)
  <1>1. Mapped' = [Mapped EXCEPT ![p] = "allowed"] /\ Mapped[p] \in Resting
    BY Ranges DEF EnterNothing, CallNothing, Mapped, PortTypeOK, Resting
  <1> QED
    BY <1>1 DEF EnterNothing, CallNothing, Mapped, Contract!Skip, Contract!CallNothing,
       Contract!Resting, Resting

(* A call that moves on inside its loop is still busy.                     *)
LEMMA StepStutters ==
    ASSUME IInv, NEW p \in Procs, ReadClock(p) \/ Load(p) \/ Retry(p)
    PROVE  UNCHANGED Contract!vars
  <1>1. Mapped' = Mapped
    BY Ranges DEF ReadClock, Load, Retry, Mapped, PortTypeOK, Resting
  <1> QED
    BY <1>1 DEF ReadClock, Load, Retry, Mapped, Contract!vars

(* A call that returns rests in the contract too.                          *)
LEMMA FinishMaps ==
    ASSUME IInv, NEW p \in Procs, NEW verdict \in Resting, Finish(p, verdict),
           pc[p] \notin Resting
    PROVE  Contract!Finish(p, verdict) /\ Mapped[p] = "busy"
  <1>1. Mapped' = [Mapped EXCEPT ![p] = verdict] /\ Mapped[p] = "busy"
    BY Ranges DEF Finish, Mapped, PortTypeOK
  <1> QED
    BY <1>1 DEF Finish, Mapped, Contract!Finish

LEMMA RefuseMaps ==
    ASSUME IInv, NEW p \in Procs, Refuse(p), pc[p] \notin Resting,
           UNCHANGED <<vt, lin>>,
           NEW t \in inv[p]..clock, ~(Contract!CreditAt(t) >= arg[p] * T)
    PROVE  Contract!Deny(p)
  <1>1. Contract!Refuse(p) /\ Mapped[p] = "busy"
    BY FinishMaps DEF Refuse, Contract!Refuse, Resting
  <1>2. t \in Contract!Moments(p)
    BY DEF Contract!Moments
  <1>3. t \in Int
    BY Ranges, Sizes DEF PortTypeOK
  <1>4. ~Contract!Fits(arg[p], t)
    BY <1>3, CostIs
  <1> QED
    BY <1>1, <1>2, <1>4 DEF Contract!Deny, Mapped

(* Refused early: the batch costs more than a full bucket, hence more than *)
(* there is now.                                                           *)
LEMMA DenyTooLargeMaps ==
    ASSUME IInv, NEW p \in Procs, DenyTooLarge(p)
    PROVE  Contract!Deny(p)
  <1>1. pc[p] \notin Resting /\ Refuse(p) /\ UNCHANGED <<vt, lin>>
    BY DEF DenyTooLarge, Resting
  <1>2. arg[p] \in Nat \ {0}
    BY <1>1, Ranges, ArgPositive
  <1>3. arg[p] > Capacity /\ Capacity \in Int
    BY AtomicAssumption DEF DenyTooLarge, TooLarge
  <1>4. arg[p] * T > CapT
    <2>1. CASE Capacity > 0
      <3>1. Capacity \in Nat \ {0} /\ Capacity + 1 \in Nat \ {0} /\ Capacity + 1 <= arg[p]
        BY <1>2, <1>3, <2>1
      <3>2. (Capacity + 1) * T <= arg[p] * T /\ arg[p] * T \in Nat
        BY <1>2, <3>1, ProductGrows, Sizes
      <3>3. (Capacity + 1) * T = Capacity * T + T /\ Capacity * T \in Nat
        BY <3>1, Sizes, Product
      <3>4. CapT = Capacity * T
        BY <2>1, CapTBounds
      <3> DEFINE c == Capacity * T
                 n == arg[p] * T
      <3>5. c \in Nat /\ n \in Nat /\ c + T <= n
        BY <3>2, <3>3
      <3> HIDE DEF c, n
      <3>6. n > c
        BY <3>5, Sizes
      <3> QED
        BY <3>4, <3>6 DEF c, n
    <2>2. CASE ~(Capacity > 0)
      <3>1. CapT = 0
        BY <2>2 DEF CapT
      <3>2. arg[p] * T \in Nat /\ T <= arg[p] * T
        BY <1>2, ProductGrows, Sizes
      <3> QED
        BY <3>1, <3>2, Sizes
    <2> QED
      BY <2>1, <2>2
  <1>5. clock \in inv[p]..clock /\ clock \in Int
    BY Ranges, Sizes DEF PortTypeOK
  <1>6. Contract!CreditAt(clock) <= CapT /\ Contract!CreditAt(clock) \in Int
    BY <1>5, CreditIs, Ranges, CapTBounds
  <1>7. arg[p] * T \in Nat
    BY <1>2, Product, Sizes
  <1>8. ~(Contract!CreditAt(clock) >= arg[p] * T)
    BY <1>4, <1>6, <1>7, CapTBounds
  <1> QED
    BY <1>1, <1>5, <1>8, RefuseMaps

(* Refused in the loop: there was too little at the reading of the call.   *)
LEMMA DenyMaps ==
    ASSUME IInv, NEW p \in Procs, Deny(p)
    PROVE  Contract!Deny(p)
  <1>1. InFlight(p) /\ pc[p] \notin Resting /\ Refuse(p) /\ UNCHANGED <<vt, lin>>
    BY DEF Deny, InFlight, Resting
  <1>2. Need(p) = arg[p] * T
    BY <1>1, InFlightArg, NeedBounds
  <1>3. ~(Avail(p, vt) >= Need(p))
    BY DEF Deny, Enough
  <1>4. now[p] \in inv[p]..clock /\ ~(Contract!CreditAt(now[p]) >= arg[p] * T)
    BY <1>1, <1>2, <1>3, AvailIsCredit
  <1> QED
    BY <1>1, <1>4, RefuseMaps

(* What a swap leaves behind is what the contract settles.                 *)
LEMMA SwapSettles ==
    ASSUME IInv, NEW p \in Procs, Swap(p)
    PROVE  Contract!Settle(now[p], arg[p] * T)
  <1> DEFINE t == now[p]
             cost == arg[p] * T
             v == NextVT(p)
             l == IF t > lin THEN t ELSE lin
  <1>1. pc[p] = "swapping" /\ vt = seen[p] /\ vt' = v /\ lin' = l /\ InFlight(p)
    BY DEF Swap, InFlight
  <1>2. v = Eff(p, vt) + Need(p)
    BY <1>1, Installed
  <1>3. Need(p) = cost /\ cost \in Nat
    BY <1>1, InFlightArg, NeedBounds
  <1>4. /\ t \in Time /\ t \in Nat /\ vt \in Int /\ -CapT <= vt /\ vt <= Horizon
        /\ lin \in Nat /\ lin - CapT <= vt /\ CapT \in Nat
    BY Ranges, Sizes, CapTBounds DEF IInv
  <1>5. Eff(p, vt) = IF vt < t - CapT THEN t - CapT ELSE vt
    BY <1>4, EffBounds DEF Eff
  <1>6. Contract!CreditAt(t) = IF t - vt <= CapT THEN t - vt ELSE CapT
    BY <1>4, CreditIs
  <1>7. v \in Int /\ l \in Int
    BY <1>2, <1>3, <1>4, <1>5
  <1>8. l - v = (IF t < lin THEN lin - vt ELSE Contract!CreditAt(t)) - cost
    <2> HIDE DEF cost, t
    <2>1. CASE t < lin
      BY <2>1, <1>2, <1>3, <1>4, <1>5
    <2>2. CASE ~(t < lin)
      <3>1. l = t
        BY <2>2, <1>4
      <3> QED
        BY <2>2, <3>1, <1>2, <1>3, <1>4, <1>5, <1>6
    <2> QED
      BY <2>1, <2>2
  <1>9. l = IF t < lin THEN lin ELSE t
    BY <1>4
  <1>10. (lin - vt)' = l - v
    BY <1>1
  <1> QED
    BY <1>1, <1>8, <1>9, <1>10 DEF Contract!Settle

LEMMA SwapMaps ==
    ASSUME IInv, NEW p \in Procs, Swap(p)
    PROVE  Contract!Admit(p)
  <1>1. InFlight(p) /\ pc[p] \notin Resting /\ CallOK(p)
        /\ pc[p] = "swapping" /\ vt = seen[p] /\ Grant(p, now[p])
    BY DEF Swap, InFlight, Resting, IInv
  <1>2. Contract!Finish(p, "allowed") /\ Mapped[p] = "busy"
    BY <1>1, FinishMaps DEF Grant, Resting
  <1>3. Contract!Grant(p, now[p])
    BY <1>1, <1>2 DEF Grant, Contract!Grant, Time, Contract!Time
  <1>4. Avail(p, vt) = Contract!CreditAt(now[p]) /\ now[p] \in inv[p]..clock
    BY <1>1, AvailIsCredit
  <1>5. Need(p) = arg[p] * T /\ Need(p) \in Nat
    BY <1>1, InFlightArg, NeedBounds
  <1>6. now[p] \in Time /\ now[p] \in Nat /\ vt \in Int /\ -CapT <= vt /\ vt <= Horizon
    BY Ranges, Sizes
  <1>7. Eff(p, vt) \in Int /\ Avail(p, vt) = now[p] - Eff(p, vt)
    BY <1>6, EffBounds
  <1>8. Eff(p, vt) + Need(p) <= now[p]
    BY <1>1 DEF CallOK
  <1>9. Avail(p, vt) >= Need(p)
    BY <1>5, <1>6, <1>7, <1>8
  <1>10. Contract!Fits(arg[p], now[p])
    BY <1>1, <1>4, <1>5, <1>6, <1>9, CostIs
  <1>11. now[p] \in Contract!Moments(p)
    BY <1>4 DEF Contract!Moments
  <1>12. Contract!Settle(now[p], arg[p] * T)
    BY SwapSettles
  <1> QED
    BY <1>2, <1>3, <1>10, <1>11, <1>12 DEF Contract!Admit, Mapped

LEMMA NextMaps == IInv /\ [Next]_vars => [Contract!Next]_(Contract!vars)
  <1> SUFFICES ASSUME IInv, [Next]_vars PROVE Contract!Next \/ UNCHANGED Contract!vars
    OBVIOUS
  <1>1. CASE Advance
    BY <1>1, AdvanceMaps DEF Contract!Next
  <1>2. ASSUME NEW p \in Procs, Enter(p) \/ EnterNothing(p) PROVE Contract!Next
    BY <1>2, EnterMaps, SkipMaps DEF Contract!Next
  <1>3. ASSUME NEW p \in Procs, Step(p)
        PROVE  Contract!Next \/ UNCHANGED Contract!vars
    BY <1>3, DenyTooLargeMaps, DenyMaps, SwapMaps, StepStutters DEF Step, Contract!Next
  <1>4. CASE UNCHANGED vars
    BY <1>4 DEF vars, Contract!vars
  <1> QED
    BY <1>1, <1>2, <1>3, <1>4 DEF Next

(* One word implements the contract with late decisions: every verdict is  *)
(* right at a time within its call, by the credit settled at the latest    *)
(* reading, whatever the interleaving (atomic_tokenbucket.go, AllowN).     *)
THEOREM AtomicImplementsContract == Spec => ImplementsContract
  BY InitMaps, NextMaps, InductiveInvariant, PTL
     DEF Spec, ImplementsContract, Contract!Spec

--------------------------------------------------------------------------------
(* The contract's theorems, about the contract of this bucket              *)
Proved == INSTANCE TokenBucketContractProofs WITH
    pc         <- [p \in Procs |-> IF pc[p] \in Resting THEN pc[p] ELSE "busy"],
    credit     <- lin - vt,
    last       <- lin,
    Unit       <- T,
    Rate       <- 1,
    CapQ       <- CapT,
    Slack      <- [n \in Batches |-> 0],
    MaxSlack   <- 0,
    Backdating <- TRUE

LEMMA AssumptionsHold == Proved!PortAssumption /\ Proved!ContractAssumption
  <1>1. T \in Nat \ {0} /\ CapT \in Nat
    BY AtomicAssumption, CapTBounds
  <1> QED
    BY <1>1, PortAssumption DEF Proved!PortAssumption, Proved!ContractAssumption

(* It is the contract that the bucket was shown to implement.              *)
LEMMA SameContract ==
    /\ Contract!Init <=> Proved!Init
    /\ [Contract!Next]_(Contract!vars) => [Proved!Next]_(Proved!vars)
  BY DEF Contract!Init, Proved!Init, Contract!PortInit, Proved!PortInit,
         Contract!Next, Proved!Next, Contract!Advance, Proved!Advance,
         Contract!Tick, Proved!Tick, Contract!Begin, Proved!Begin,
         Contract!Call, Proved!Call, Contract!Skip, Proved!Skip,
         Contract!CallNothing, Proved!CallNothing, Contract!Admit,
         Proved!Admit, Contract!Deny, Proved!Deny, Contract!Refuse,
         Proved!Refuse, Contract!Grant, Proved!Grant, Contract!Finish,
         Proved!Finish, Contract!Moments, Proved!Moments, Contract!Fits,
         Proved!Fits, Contract!CreditAt, Proved!CreditAt, Contract!Settle,
         Proved!Settle, Contract!Resting, Proved!Resting, Contract!Time,
         Proved!Time, Contract!vars, Proved!vars

(* The guarantee of the one-word bucket: from any time s to the latest     *)
(* reading used, no more is admitted than a full bucket and one token for  *)
(* every T nanoseconds between, without any slack, although calls may be   *)
(* decided by readings older than the last admission                       *)
(* (atomic_tokenbucket.go, AllowN).                                        *)
THEOREM BurstPlusRate ==
    Spec => [](\A s \in Time : s <= lin => since[s] * T <= CapT + (lin - s))
  <1>1. Spec => Proved!Spec
    BY AtomicImplementsContract, SameContract, PTL
       DEF ImplementsContract, Contract!Spec, Proved!Spec
  <1>2. Proved!Spec => []Proved!WindowBound
    BY AssumptionsHold, Proved!WindowBounded
  <1>3. IInv /\ Proved!WindowBound
            => \A s \in Time : s <= lin => since[s] * T <= CapT + (lin - s)
    <2> SUFFICES ASSUME IInv, Proved!WindowBound, NEW s \in Time, s <= lin
                 PROVE  since[s] * T <= CapT + (lin - s)
      OBVIOUS
    <2>1. since[s] * T <= CapT + 0 + 1 * (lin - s)
      BY DEF Proved!WindowBound, Proved!Time, Time
    <2>2. CapT + 0 + 1 * (lin - s) = CapT + (lin - s)
      BY Ranges, Sizes, CapTBounds
    <2> QED
      BY <2>1, <2>2
  <1> QED
    BY <1>1, <1>2, <1>3, InductiveInvariant, PTL
================================================================================
