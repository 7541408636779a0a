-------------------------- MODULE SlidingWindowProofs --------------------------
(***************************************************************************)
(* The sliding window, for every limit, window, slack and number of        *)
(* callers: the lazily rolled counters are exact, the overlap of a         *)
(* decision is a fraction of one, and a trailing window overshoots by the  *)
(* dropped share of a full previous window and no more.                    *)
(***************************************************************************)
EXTENDS SlidingWindow, TLAPS

(***************************************************************************)
(* The port and its mutex, as in the proofs of the other mutex limiters:   *)
(* every step keeps the types, mutual exclusion among them, and the clock  *)
(* reading of the holder was taken during its call.                        *)
(***************************************************************************)
LEMMA BatchInteger == \A n \in Batches : n \in Int
  BY PortAssumption, Zenon

(* A call that is doing any work asks for a positive batch.                *)
LEMMA ArgPositive ==
    ASSUME NEW labels, PortTypeOK(labels), NEW p \in Procs, pc[p] \notin Resting
    PROVE  arg[p] \in Nat \ {0} /\ arg[p] \in Batches
  <1>1. arg[p] \in Batches \cup {0} /\ arg[p] > 0
    BY DEF PortTypeOK
  <1>2. arg[p] \in Batches
    BY <1>1
  <1>3. arg[p] \in Int
    BY <1>2, BatchInteger
  <1> QED
    BY <1>1, <1>2, <1>3

(* A call that starts keeps the port's types.                              *)
LEMMA CallType ==
    ASSUME NEW labels, PortTypeOK(labels), NEW label \in labels,
           NEW p \in Procs, Call(p, label)
    PROVE  PortTypeOK(labels)'
  <1>1. PICK n \in Batches : n > 0 /\ arg' = [arg EXCEPT ![p] = n]
    BY DEF Call
  <1>2. \A q \in Procs : pc'[q] \notin Resting => arg'[q] > 0
    BY <1>1 DEF Call, PortTypeOK
  <1>3. \A q \in Procs : inv'[q] <= clock'
    BY PortAssumption DEF Call, PortTypeOK, Time
  <1> QED
    BY <1>1, <1>2, <1>3 DEF Call, PortTypeOK

(* A call that returns keeps them, granted or refused.                     *)
LEMMA FinishType ==
    ASSUME NEW labels, PortTypeOK(labels), NEW p \in Procs,
           NEW verdict \in Resting, Finish(p, verdict), since' \in [Time -> Nat]
    PROVE  PortTypeOK(labels)'
  <1>1. \A q \in Procs : pc'[q] \notin Resting => arg'[q] > 0
    BY DEF Finish, PortTypeOK
  <1>2. \A q \in Procs : inv'[q] <= clock'
    BY PortAssumption DEF Finish, PortTypeOK, Time
  <1> QED
    BY <1>1, <1>2, PortAssumption DEF Finish, PortTypeOK, Time

LEMMA GrantType ==
    ASSUME NEW labels, PortTypeOK(labels), NEW p \in Procs,
           pc[p] \notin Resting, NEW t, Grant(p, t)
    PROVE  PortTypeOK(labels)'
  <1>1. arg[p] \in Nat
    BY ArgPositive
  <1>2. since' \in [Time -> Nat]
    BY <1>1 DEF Grant, PortTypeOK
  <1> QED
    BY <1>2, FinishType DEF Grant, Resting

LEMMA RefuseType ==
    ASSUME NEW labels, PortTypeOK(labels), NEW p \in Procs, Refuse(p)
    PROVE  PortTypeOK(labels)'
  BY FinishType DEF Refuse, PortTypeOK, Resting

(* Ticks and empty batches keep them.                                      *)
LEMMA TickType ==
    ASSUME NEW labels, PortTypeOK(labels), Tick
    PROVE  PortTypeOK(labels)'
  BY PortAssumption DEF Tick, PortTypeOK, Time

LEMMA CallNothingType ==
    ASSUME NEW labels, PortTypeOK(labels), NEW p \in Procs, CallNothing(p)
    PROVE  PortTypeOK(labels)'
  BY DEF CallNothing, PortTypeOK, Resting

(* A step within a call moves its program counter and nothing else here.   *)
LEMMA StepType ==
    ASSUME NEW labels, PortTypeOK(labels), NEW p \in Procs,
           pc[p] \notin Resting, NEW label \in labels,
           pc' = [pc EXCEPT ![p] = label],
           UNCHANGED <<clock, arg, inv, since>>
    PROVE  PortTypeOK(labels)'
  BY DEF PortTypeOK

LEMMA InitType ==
    ASSUME NEW labels, PortInit
    PROVE  PortTypeOK(labels)
  BY PortAssumption DEF PortInit, PortTypeOK, Time, Resting

--------------------------------------------------------------------------------

Labels == {"waiting", "holding"}

(* Types, and the reading of the holder was taken during its call.         *)
MutexInv ==
    /\ MutexTypeOK
    /\ \A p \in Procs : pc[p] = "holding" => inv[p] <= now[p] /\ now[p] <= clock

LEMMA MutexRanges ==
    ASSUME MutexInv
    PROVE  /\ PortTypeOK(Labels)
           /\ Horizon \in Nat /\ clock \in Time /\ clock \in Nat /\ clock <= Horizon
           /\ \A p \in Procs : /\ now[p] \in Time /\ now[p] \in Nat
                               /\ inv[p] \in Time /\ inv[p] \in Nat /\ inv[p] <= clock
  BY PortAssumption DEF MutexInv, MutexTypeOK, PortTypeOK, Time, Labels

(* Only one caller is inside.                                              *)
LEMMA OneHolder ==
    ASSUME MutexInv, NEW p \in Procs, pc[p] = "holding"
    PROVE  /\ pc[p] \notin Resting /\ mu = {p}
           /\ \A q \in Procs \ {p} : pc[q] # "holding"
           /\ arg[p] \in Nat \ {0} /\ arg[p] \in Batches
           /\ inv[p] <= now[p] /\ now[p] <= clock
  <1>1. pc[p] \notin Resting
    BY DEF Resting
  <1>2. mu = {p} /\ \A q \in Procs \ {p} : pc[q] # "holding"
    BY DEF MutexInv, MutexTypeOK
  <1>3. inv[p] <= now[p] /\ now[p] <= clock
    BY DEF MutexInv
  <1> QED
    BY <1>1, <1>2, <1>3, MutexRanges, ArgPositive

LEMMA MutexInitInv == MutexInit => MutexInv
  <1> SUFFICES ASSUME MutexInit PROVE MutexInv
    OBVIOUS
  <1>1. PortTypeOK(Labels)
    BY InitType DEF MutexInit
  <1>2. now \in [Procs -> Time]
    BY PortAssumption DEF MutexInit, Time
  <1>3. \A p \in Procs : pc[p] # "holding" /\ mu # {p}
    BY DEF MutexInit, PortInit
  <1> QED
    BY <1>1, <1>2, <1>3 DEF MutexInv, MutexTypeOK, Labels, MutexInit

(* What is left to show when the holder, if there is one, stays the same.  *)
LEMMA SameHolder ==
    ASSUME MutexInv, PortTypeOK(Labels)', UNCHANGED mutexVars,
           NEW c \in Int, clock' = c, clock <= c,
           \A p \in Procs : /\ pc'[p] = "holding" <=> pc[p] = "holding"
                            /\ pc[p] = "holding" => inv'[p] = inv[p]
    PROVE  MutexInv'
  <1>1. MutexTypeOK'
    BY DEF MutexInv, MutexTypeOK, mutexVars, Labels
  <1>2. \A p \in Procs : pc[p] = "holding" => inv[p] <= now[p] /\ now[p] <= c
    BY MutexRanges DEF MutexInv
  <1> QED
    BY <1>1, <1>2 DEF MutexInv, mutexVars

LEMMA AdvanceMutex ==
    ASSUME MutexInv, Advance
    PROVE  MutexInv'
  <1> DEFINE c == clock + 1
  <1>1. clock' = c /\ c \in Int /\ clock <= c /\ UNCHANGED <<pc, inv, mutexVars>>
    BY MutexRanges DEF Advance, Tick
  <1>2. PortTypeOK(Labels)'
    BY MutexRanges, TickType DEF Advance
  <1> HIDE DEF c
  <1> QED
    BY <1>1, <1>2, SameHolder

LEMMA EnterMutex ==
    ASSUME MutexInv, NEW p \in Procs, Enter(p) \/ EnterNothing(p)
    PROVE  MutexInv'
  <1>1. PortTypeOK(Labels)'
    BY MutexRanges, CallType, CallNothingType DEF Enter, EnterNothing, Labels
  <1>2. pc[p] # "holding" /\ pc'[p] # "holding"
        /\ \A q \in Procs \ {p} : pc'[q] = pc[q] /\ inv'[q] = inv[q]
    BY MutexRanges DEF Enter, EnterNothing, Call, CallNothing, PortTypeOK, Resting
  <1>3. UNCHANGED <<clock, mutexVars>> /\ clock \in Int /\ clock <= clock
    BY MutexRanges DEF Enter, EnterNothing, Call, CallNothing
  <1> QED
    BY <1>1, <1>2, <1>3, SameHolder

LEMMA AcquireMutex ==
    ASSUME MutexInv, NEW p \in Procs, Acquire(p)
    PROVE  MutexInv'
  <1>1. /\ pc[p] = "waiting" /\ mu = {} /\ mu' = {p}
        /\ now' = [now EXCEPT ![p] = clock] /\ pc' = [pc EXCEPT ![p] = "holding"]
        /\ UNCHANGED <<clock, arg, inv, since>>
    BY DEF Acquire
  <1>2. PortTypeOK(Labels)'
    BY <1>1, MutexRanges, StepType DEF Labels, Resting
  <1>3. \A q \in Procs : pc[q] # "holding"
    BY <1>1 DEF MutexInv, MutexTypeOK
  <1>4. pc'[p] = "holding" /\ \A q \in Procs \ {p} : pc'[q] # "holding"
    BY <1>1, <1>3, MutexRanges DEF PortTypeOK
  <1>5. now' \in [Procs -> Time] /\ now'[p] = clock
    BY <1>1, MutexRanges DEF MutexInv, MutexTypeOK
  <1>6. MutexTypeOK'
    BY <1>1, <1>2, <1>4, <1>5 DEF MutexTypeOK, Labels
  <1>7. inv[p] <= clock /\ clock <= clock
    BY MutexRanges
  <1> QED
    BY <1>1, <1>4, <1>5, <1>6, <1>7 DEF MutexInv

(* Either way out leaves the critical section empty.                       *)
LEMMA LeaveMutex ==
    ASSUME MutexInv, NEW p \in Procs, pc[p] = "holding",
           Allow(p) \/ Refusal(p)
    PROVE  /\ MutexInv'
           /\ \A q \in Procs : pc'[q] # "holding"
  <1>1. mu = {p} /\ pc[p] \notin Resting /\ \A q \in Procs \ {p} : pc[q] # "holding"
    BY OneHolder
  <1>2. PortTypeOK(Labels)'
    BY <1>1, MutexRanges, GrantType, RefuseType DEF Allow, Refusal
  <1>3. \A q \in Procs : pc'[q] # "holding"
    BY <1>1, MutexRanges DEF Allow, Refusal, Grant, Refuse, Finish, PortTypeOK
  <1>4. mu' = {}
    BY <1>1 DEF Allow, Refusal, Release
  <1>5. now' \in [Procs -> Time]
    <2>1. 0 \in Time
      BY PortAssumption DEF Time
    <2> QED
      BY <2>1 DEF Allow, Refusal, Release, MutexInv, MutexTypeOK
  <1>6. MutexTypeOK'
    BY <1>2, <1>3, <1>4, <1>5 DEF MutexTypeOK, Labels
  <1> QED
    BY <1>3, <1>6 DEF MutexInv

--------------------------------------------------------------------------------

(* Nothing was admitted from the end of the current window on.             *)
NothingAhead == \A s \in Time : s >= windowStart + Window => since[s] = 0

(* Later times have seen no more admissions than earlier ones.             *)
Nested == \A r, s \in Time : r <= s => since[s] <= since[r]

(* The last admission of the current window was decided on the counters as *)
(* they are now, at a time t of that window.                               *)
Charged ==
    currCount > 0 =>
        \E t \in Time :
            /\ windowStart <= t /\ t <= clock
            /\ prevCount * (Window - (t - windowStart)) + Window * currCount
                 <= Window * Limit + AdmitEpsilon

(* The inductive invariant                                                 *)
IInv ==
    /\ TypeOK
    /\ MutexInv
    /\ windowStart <= clock
    /\ \A p \in Procs : pc[p] = "holding" => windowStart <= now[p]
    /\ LazyRolloverIsExact
    /\ NothingAhead
    /\ Nested
    /\ prevCount <= Quota /\ currCount <= Quota  \* no window admits more
    /\ Charged

LEMMA Product ==
    ASSUME NEW a \in Nat, NEW b \in Nat
    PROVE  a * b \in Nat
  OBVIOUS

LEMMA Division ==
    ASSUME NEW a \in Nat, NEW w \in Nat \ {0}
    PROVE  /\ a \div w \in Nat /\ a % w \in 0 .. w - 1
           /\ a = w * (a \div w) + (a % w)
  <1>1. a \div w \in Nat
    OBVIOUS
  <1>2. a % w \in 0 .. w - 1
    OBVIOUS
  <1>3. a = w * (a \div w) + (a % w)
    OBVIOUS
  <1> QED
    BY <1>1, <1>2, <1>3

(* A multiple of the window leaves no remainder.                           *)
LEMMA Multiple ==
    ASSUME NEW k \in Nat, NEW a \in Nat, NEW w \in Nat \ {0}, a % w = 0
    PROVE  (a + k * w) % w = 0
  <1> DEFINE j == a \div w
  <1>1. a = w * j /\ j \in Nat
    BY Division
  <1>2. a + k * w = (j + k) * w /\ j + k \in Nat
    BY <1>1
  <1> HIDE DEF j
  <1>3. ((j + k) * w) % w = 0
    <2>1. ASSUME NEW m \in Nat PROVE (m * w) % w = 0
      OBVIOUS
    <2> QED
      BY <1>2, <2>1
  <1> QED
    BY <1>2, <1>3

LEMMA Sizes ==
    /\ Limit \in Int /\ Window \in Nat \ {0} /\ Eps \in Nat
    /\ AdmitEpsilon \in Int
    /\ Allowance \in Nat /\ Quota \in Nat
    /\ Horizon \in Nat
    /\ \A t \in Int : t \in Time <=> 0 <= t /\ t <= Horizon
    /\ \A t \in Time : t \in Nat
    /\ \A n \in Batches : n \in Int
  <1>1. Limit \in Int /\ Window \in Nat \ {0} /\ Eps \in Nat
    BY SlidingWindowAssumption
  <1>2. AdmitEpsilon \in Int
    BY <1>1 DEF AdmitEpsilon
  <1>3. Allowance \in Nat
    <2>1. CASE Limit > 0
      <3>1. Limit \in Nat /\ Window \in Nat /\ Eps \in Nat
        BY <1>1, <2>1
      <3>2. Window * Limit \in Nat /\ Eps * Limit \in Nat
        BY <3>1, Product
      <3> QED
        BY <2>1, <3>2 DEF Allowance, AdmitEpsilon
    <2> QED
      BY <2>1 DEF Allowance
  <1>4. Quota \in Nat
    BY <1>1, <1>3, Division DEF Quota
  <1> QED
    BY <1>1, <1>2, <1>3, <1>4, PortAssumption, BatchInteger DEF Time

(* The quota is the most units, each worth a window, in the allowance.     *)
LEMMA QuotaIs ==
    ASSUME NEW a \in Nat
    PROVE  a <= Quota <=> Window * a <= Allowance
  <1> DEFINE rest == Allowance % Window
             used == Window * a
             full == Window * Quota
  <1>1. /\ Quota \in Nat /\ Window \in Nat \ {0} /\ Allowance \in Nat
        /\ used \in Nat /\ full \in Nat
    BY Sizes, Product
  <1>2. Allowance = full + rest /\ rest \in 0 .. Window - 1
    BY <1>1, Division DEF Quota
  <1> HIDE DEF rest
  <1>3. ASSUME a <= Quota PROVE used <= full
    <2>1. Quota - a \in Nat
      BY <1>1, <1>3
    <2>2. Window * (Quota - a) \in Nat
      BY <1>1, <2>1, Product
    <2>3. full - used = Window * (Quota - a)
      BY <1>1
    <2> HIDE DEF used, full
    <2> QED
      BY <1>1, <2>2, <2>3
  <1>4. ASSUME ~(a <= Quota) PROVE full + Window <= used
    <2>1. a - Quota - 1 \in Nat
      BY <1>1, <1>4
    <2>2. Window * (a - Quota - 1) \in Nat
      BY <1>1, <2>1, Product
    <2>3. used - full - Window = Window * (a - Quota - 1)
      BY <1>1
    <2> HIDE DEF used, full
    <2> QED
      BY <1>1, <2>2, <2>3
  <1> HIDE DEF used, full
  <1>5. a <= Quota <=> used <= Allowance
    BY <1>1, <1>2, <1>3, <1>4
  <1> QED
    BY <1>5 DEF used

LEMMA Ranges ==
    ASSUME IInv
    PROVE  /\ windowStart \in Nat /\ windowStart \in Time /\ windowStart <= clock
           /\ prevCount \in Nat /\ currCount \in Nat
           /\ clock \in Nat /\ clock \in Time
           /\ since \in [Time -> Nat]
  BY Sizes, MutexRanges DEF IInv, TypeOK, PortTypeOK

(* Rolling forward lands on the grid, in the window that holds t.          *)
LEMMA RollLands ==
    ASSUME IInv, NEW t \in Time, windowStart <= t
    PROVE  /\ Passed(t) \in Nat
           /\ StartAt(t) \in Nat /\ StartAt(t) \in Time
           /\ windowStart <= StartAt(t) /\ StartAt(t) <= t
           /\ t - StartAt(t) \in 0 .. Window - 1
           /\ StartAt(t) % Window = 0
           /\ Passed(t) = 0 => StartAt(t) = windowStart
           /\ Passed(t) = 1 => StartAt(t) = windowStart + Window
           /\ Passed(t) > 1 => windowStart + 2 * Window <= StartAt(t)
  <1> DEFINE k    == Passed(t)
             span == k * Window
             rest == (t - windowStart) % Window
  <1>1. t \in Nat /\ t <= Horizon /\ windowStart \in Nat /\ t - windowStart \in Nat
    BY Ranges, Sizes
  <1>2. k \in Nat /\ rest \in 0 .. Window - 1 /\ t - windowStart = Window * k + rest
    BY <1>1, Sizes, Division DEF Passed
  <1>3. StartAt(t) = windowStart + span /\ Window * k = span
    BY <1>2, Sizes DEF StartAt
  <1>4. /\ span \in Nat
        /\ k = 0 => span = 0
        /\ k = 1 => span = Window
        /\ k > 1 => 2 * Window <= span
    <2>1. span \in Nat /\ (k = 0 => span = 0) /\ (k = 1 => span = Window)
      BY <1>2, Sizes, Product
    <2>2. ASSUME k > 1 PROVE 2 * Window <= span
      <3>1. k - 2 \in Nat
        BY <1>2, <2>2
      <3>2. (k - 2) * Window \in Nat
        BY <3>1, Sizes, Product
      <3>3. span = 2 * Window + (k - 2) * Window
        BY <1>2, Sizes
      <3> QED
        BY <2>1, <3>2, <3>3, Sizes
    <2> QED
      BY <2>1, <2>2
  <1>5. (windowStart + span) % Window = 0
    BY <1>1, <1>2, Sizes, Multiple DEF IInv, LazyRolloverIsExact
  <1> HIDE DEF k, span, rest
  <1>6. /\ windowStart + span \in Nat
        /\ windowStart <= windowStart + span /\ windowStart + span <= t
        /\ t - (windowStart + span) \in 0 .. Window - 1
        /\ windowStart + span <= Horizon
    BY <1>1, <1>2, <1>3, <1>4, Sizes
  <1>7. windowStart + span \in Time
    BY <1>6, Sizes
  <1>8. /\ k = 0 => StartAt(t) = windowStart
        /\ k = 1 => StartAt(t) = windowStart + Window
        /\ k > 1 => windowStart + 2 * Window <= StartAt(t)
    BY <1>1, <1>3, <1>4, Sizes
  <1> QED
    BY <1>2, <1>3, <1>5, <1>6, <1>7, <1>8 DEF k

(* Admissions since any time                                               *)
LEMMA AdmittedIs ==
    ASSUME IInv, NEW s \in Int
    PROVE  /\ AdmittedSince(s) \in Nat
           /\ s >= windowStart + Window => AdmittedSince(s) = 0
           /\ \A r \in Int : r <= s => AdmittedSince(s) <= AdmittedSince(r)
  <1>1. since \in [Time -> Nat] /\ windowStart \in Nat /\ 0 \in Time
    BY Ranges, Sizes
  <1>2. AdmittedSince(s) \in Nat
    BY <1>1, Sizes DEF AdmittedSince
  <1>3. ASSUME s >= windowStart + Window PROVE AdmittedSince(s) = 0
    BY <1>1, <1>3, Sizes DEF AdmittedSince, IInv, NothingAhead
  <1>4. ASSUME NEW r \in Int, r <= s PROVE AdmittedSince(s) <= AdmittedSince(r)
    <2>1. CASE s > Horizon
      BY <1>1, <2>1, Sizes DEF AdmittedSince
    <2>2. CASE s < 0
      BY <1>1, <1>4, <2>2, Sizes DEF AdmittedSince
    <2>3. CASE s \in Time
      <3> DEFINE q == IF r < 0 THEN 0 ELSE r
      <3>1. q \in Time /\ q <= s /\ AdmittedSince(r) = since[q] /\ AdmittedSince(s) = since[s]
        BY <1>1, <1>4, <2>3, Sizes DEF AdmittedSince
      <3> QED
        BY <2>3, <3>1 DEF IInv, Nested
    <2> QED
      BY <2>1, <2>2, <2>3, Sizes
  <1> QED
    BY <1>2, <1>3, <1>4

(* Rolled forward to t, the counters are exact for the window of t, within *)
(* the quota, and still account for the last admission.                    *)
LEMMA RollExact ==
    ASSUME IInv, NEW t \in Time, windowStart <= t
    PROVE  /\ PrevAt(t) \in Nat /\ CurrAt(t) \in Nat
           /\ CurrAt(t) = AdmittedSince(StartAt(t))
           /\ PrevAt(t) = AdmittedSince(StartAt(t) - Window) - CurrAt(t)
           /\ PrevAt(t) <= Quota /\ CurrAt(t) <= Quota
           /\ \A s \in Time : s >= StartAt(t) + Window => since[s] = 0
           /\ CurrAt(t) > 0 => StartAt(t) = windowStart /\ PrevAt(t) = prevCount
                               /\ CurrAt(t) = currCount
  <1> DEFINE S == StartAt(t)
  <1>1. S \in Nat /\ windowStart \in Nat /\ windowStart <= S /\ S - Window \in Int
    BY RollLands, Ranges, Sizes
  <1>2. /\ prevCount \in Nat /\ currCount \in Nat
        /\ prevCount <= Quota /\ currCount <= Quota /\ Quota \in Nat
        /\ currCount = AdmittedSince(windowStart)
        /\ prevCount = AdmittedSince(windowStart - Window) - currCount
    BY Ranges, Sizes DEF IInv, LazyRolloverIsExact
  <1>3. \A s \in Time : s >= S + Window => since[s] = 0
    <2>1. ASSUME NEW s \in Time, s >= S + Window PROVE s >= windowStart + Window
      BY <1>1, <2>1, Sizes
    <2> QED
      BY <2>1 DEF IInv, NothingAhead
  <1>4. CASE Passed(t) = 0
    BY <1>2, <1>3, <1>4, RollLands DEF PrevAt, CurrAt
  <1>5. CASE Passed(t) = 1
    <2>1. S = windowStart + Window /\ S - Window = windowStart
      BY <1>1, <1>5, RollLands, Sizes
    <2>2. AdmittedSince(S) = 0
      BY <1>1, <2>1, AdmittedIs
    <2>3. PrevAt(t) = currCount /\ CurrAt(t) = 0
      BY <1>5 DEF PrevAt, CurrAt
    <2> QED
      BY <1>2, <1>3, <2>1, <2>2, <2>3
  <1>6. CASE Passed(t) > 1
    <2>1. S >= windowStart + Window /\ S - Window >= windowStart + Window
      BY <1>1, <1>6, RollLands, Sizes
    <2>2. AdmittedSince(S) = 0 /\ AdmittedSince(S - Window) = 0
      BY <1>1, <2>1, AdmittedIs
    <2>3. PrevAt(t) = 0 /\ CurrAt(t) = 0
      BY <1>6, RollLands DEF PrevAt, CurrAt
    <2> QED
      BY <1>2, <1>3, <2>2, <2>3
  <1> QED
    BY <1>4, <1>5, <1>6, RollLands

--------------------------------------------------------------------------------
LEMMA InitIInv == Init => IInv
  <1> SUFFICES ASSUME Init PROVE IInv
    OBVIOUS
  <1>1. MutexInv
    BY MutexInitInv DEF Init
  <1>2. /\ windowStart = 0 /\ prevCount = 0 /\ currCount = 0 /\ clock = 0
        /\ since = [s \in Time |-> 0] /\ 0 \in Time
        /\ \A p \in Procs : pc[p] # "holding"
    BY Sizes DEF Init, MutexInit, PortInit
  <1>3. TypeOK
    BY <1>1, <1>2 DEF TypeOK, MutexInv
  <1>4. 0 % Window = 0
    BY Sizes
  <1>5. \A s \in Int : AdmittedSince(s) = 0
    BY <1>2, Sizes DEF AdmittedSince
  <1>6. LazyRolloverIsExact
    BY <1>2, <1>4, <1>5, Sizes DEF LazyRolloverIsExact
  <1>7. NothingAhead /\ Nested /\ Charged
    BY <1>2, Sizes DEF NothingAhead, Nested, Charged
  <1> QED
    BY <1>1, <1>2, <1>3, <1>6, <1>7, Sizes DEF IInv

(* Steps that leave the counters alone                                     *)
LEMMA PortStepIInv ==
    ASSUME IInv, UNCHANGED windowVars,
           \/ Advance
           \/ \E p \in Procs : Enter(p) \/ EnterNothing(p) \/ Acquire(p)
    PROVE  IInv'
  <1>1. MutexInv'
    BY AdvanceMutex, EnterMutex, AcquireMutex DEF IInv
  <1>2. PICK c \in Nat : clock' = c /\ clock <= c
    BY Ranges DEF Advance, Tick, Enter, EnterNothing, Call, CallNothing, Acquire
  <1>3. since' = since
    BY DEF Advance, Tick, Enter, EnterNothing, Call, CallNothing, Acquire
  <1>4. TypeOK'
    BY <1>1 DEF IInv, TypeOK, MutexInv, windowVars, Time
  <1>5. (windowStart <= clock)'
    BY <1>2, Ranges DEF windowVars
  <1>6. ASSUME NEW q \in Procs, pc'[q] = "holding" PROVE (windowStart <= now[q])'
    <2>1. MutexInv /\ PortTypeOK(Labels) /\ now \in [Procs -> Time]
      BY MutexRanges DEF IInv, MutexInv, MutexTypeOK
    <2>2. (pc[q] = "holding" /\ now'[q] = now[q]) \/ now'[q] = clock
      BY <1>6, <2>1
         DEF Advance, Tick, Enter, EnterNothing, Call, CallNothing, Acquire,
             mutexVars, PortTypeOK, Resting
    <2> QED
      BY <2>2, Ranges DEF IInv, windowVars
  <1>7. LazyRolloverIsExact' /\ NothingAhead' /\ Nested'
    BY <1>3 DEF IInv, LazyRolloverIsExact, AdmittedSince, NothingAhead, Nested,
                windowVars, Time
  <1>8. Charged'
    <2>1. ASSUME NEW t \in Time, t <= clock PROVE t <= c
      BY <1>2, <2>1, Ranges, Sizes
    <2> QED
      BY <1>2, <2>1 DEF IInv, Charged, windowVars, AdmitEpsilon, Time
  <1> QED
    BY <1>1, <1>4, <1>5, <1>6, <1>7, <1>8
       DEF IInv, windowVars, Quota, Allowance, AdmitEpsilon

(* What fits leaves the window within its quota.                           *)
LEMMA FitsQuota ==
    ASSUME NEW P \in Nat, NEW share \in Nat, NEW C \in Nat, C > 0,
           P * share + Window * C <= Window * Limit + AdmitEpsilon
    PROVE  C <= Quota
  <1> DEFINE held == P * share
             used == Window * C
             most == Window * Limit
  <1>1. held \in Nat /\ used \in Nat /\ used > 0 /\ most \in Int /\ AdmitEpsilon \in Int
    <2>1. Window \in Nat /\ C - 1 \in Nat
      BY Sizes
    <2>2. Window * (C - 1) \in Nat
      BY <2>1, Product
    <2>3. used = Window * (C - 1) + Window
      BY <2>1
    <2> QED
      BY <2>2, <2>3, Sizes, Product
  <1>2. held + used <= most + AdmitEpsilon
    OBVIOUS
  <1>3. Limit > 0
    <2>1. ASSUME Limit <= 0 PROVE FALSE
      <3>1. -Limit \in Nat /\ Window \in Nat /\ Eps \in Nat
        BY <2>1, Sizes
      <3>2. Window * (-Limit) \in Nat /\ Eps * (-Limit) \in Nat
        BY <3>1, Product
      <3>3. most = -(Window * (-Limit)) /\ AdmitEpsilon = -(Eps * (-Limit))
        BY <3>1, Sizes DEF AdmitEpsilon
      <3> HIDE DEF held, used, most
      <3> QED
        BY <1>1, <1>2, <3>2, <3>3
    <2> QED
      BY <2>1, Sizes
  <1>4. used <= Allowance
    BY <1>1, <1>2, <1>3 DEF Allowance
  <1> QED
    BY <1>4, QuotaIs

(* A decision at t rolls the counters and records n admissions at t.       *)
LEMMA RollIInv ==
    ASSUME IInv, NEW t \in Time, windowStart <= t, t <= clock,
           NEW n \in Nat, Roll(t, n),
           n > 0 => Estimate(t) + Window * n <= Window * Limit + AdmitEpsilon,
           since' = [s \in Time |-> IF s <= t THEN since[s] + n ELSE since[s]],
           clock' = clock, MutexInv', \A q \in Procs : pc'[q] # "holding"
    PROVE  IInv'
  <1> DEFINE S == StartAt(t)
             P == PrevAt(t)
             C == CurrAt(t)
             e == t - S
  <1>1. windowStart' = S /\ prevCount' = P /\ currCount' = C + n
    BY DEF Roll
  <1>2. /\ S \in Nat /\ S \in Time /\ S <= t /\ e \in 0 .. Window - 1
        /\ S % Window = 0
    BY RollLands
  <1>3. /\ P \in Nat /\ C \in Nat /\ P <= Quota /\ C <= Quota
        /\ C = AdmittedSince(S)
        /\ P = AdmittedSince(S - Window) - C
        /\ \A s \in Time : s >= S + Window => since[s] = 0
        /\ C > 0 => S = windowStart /\ P = prevCount /\ C = currCount
    BY RollExact
  <1>4. /\ t \in Nat /\ t <= Horizon /\ Window \in Nat \ {0} /\ since \in [Time -> Nat]
        /\ clock \in Nat /\ 0 \in Time /\ Quota \in Nat
        /\ Limit \in Int /\ AdmitEpsilon \in Int
    BY Sizes, Ranges
  <1>5. n > 0 => P * (Window - e) + Window * (C + n) <= Window * Limit + AdmitEpsilon
    <2>1. Estimate(t) + Window * n = P * (Window - e) + Window * (C + n)
      <3>1. Estimate(t) = P * (Window - e) + Window * C
        BY DEF Estimate
      <3> DEFINE x == P * (Window - e)
      <3>2. x \in Int
        BY <1>2, <1>3, <1>4
      <3>3. Window * (C + n) = Window * C + Window * n
            /\ Window * C \in Int /\ Window * n \in Int
        BY <1>3, <1>4
      <3> HIDE DEF x
      <3> QED
        BY <3>1, <3>2, <3>3 DEF x
    <2> QED
      BY <2>1
  <1> HIDE DEF S, P, C
  <1>6. TypeOK'
    <2>1. C + n \in Nat
      BY <1>3
    <2> QED
      BY <1>1, <1>2, <1>3, <2>1 DEF TypeOK, MutexInv, Time
  <1>7. (windowStart <= clock)'
    BY <1>1, <1>2, <1>4
  <1>8. LazyRolloverIsExact'
    <2> DEFINE Later(s) == IF s < 0 THEN since'[0]
                           ELSE IF s > Horizon THEN 0 ELSE since'[s]
    <2>1. AdmittedSince(windowStart)' = Later(S)
          /\ AdmittedSince(windowStart - Window)' = Later(S - Window)
      BY <1>1 DEF AdmittedSince
    <2>2. ASSUME NEW s \in Int, s <= t
          PROVE  Later(s) = AdmittedSince(s) + n
      BY <1>4, <2>2, Sizes DEF AdmittedSince
    <2>3. S - Window \in Int /\ S - Window <= t /\ S \in Int /\ S <= t
      BY <1>2, <1>4
    <2> HIDE DEF Later
    <2>4. Later(S) = AdmittedSince(S) + n
          /\ Later(S - Window) = AdmittedSince(S - Window) + n
      BY <2>2, <2>3
    <2>5. AdmittedSince(S) \in Nat /\ AdmittedSince(S - Window) \in Nat
      BY <1>2, <2>3, AdmittedIs
    <2>6. Later(S) = C + n /\ Later(S - Window) - (C + n) = P
      BY <1>3, <2>4, <2>5
    <2> QED
      BY <1>1, <1>2, <2>1, <2>6 DEF LazyRolloverIsExact
  <1>9. NothingAhead'
    <2>1. ASSUME NEW s \in Time, s >= S + Window PROVE since'[s] = 0
      <3>1. ~(s <= t)
        BY <1>2, <1>4, <2>1, Sizes
      <3> QED
        BY <1>3, <2>1, <3>1
    <2> QED
      BY <1>1, <2>1 DEF NothingAhead, Time
  <1>10. Nested'
    <2>1. ASSUME NEW r \in Time, NEW s \in Time, r <= s PROVE since'[s] <= since'[r]
      <3>1. since[s] <= since[r] /\ since[s] \in Nat /\ since[r] \in Nat
        BY <1>4, <2>1 DEF IInv, Nested
      <3>2. s <= t => r <= t
        BY <1>4, <2>1, Sizes
      <3> QED
        BY <3>1, <3>2
    <2> QED
      BY <2>1 DEF Nested, Time
  <1>11. P <= Quota /\ C + n <= Quota
    <2>1. CASE n > 0
      <3>1. Window - e \in Nat /\ C + n \in Nat /\ C + n > 0
        BY <1>2, <1>3, <1>4, <2>1
      <3> QED
        BY <1>3, <1>5, <2>1, <3>1, FitsQuota
    <2>2. CASE n = 0
      BY <1>3, <1>4, <2>2
    <2> QED
      BY <2>1, <2>2
  <1>12. Charged'
    <2>1. CASE n > 0
      <3>1. S <= t /\ P * (Window - (t - S)) + Window * (C + n)
                        <= Window * Limit + AdmitEpsilon
        BY <1>2, <1>5, <2>1
      <3> QED
        BY <1>1, <3>1 DEF Charged, AdmitEpsilon, Time
    <2>2. CASE n = 0
      <3>1. C + n = C
        BY <1>3, <2>2
      <3>2. C > 0 => S = windowStart /\ P = prevCount /\ C = currCount
        BY <1>3
      <3> QED
        BY <1>1, <3>1, <3>2 DEF IInv, Charged, AdmitEpsilon, Time
    <2> QED
      BY <2>1, <2>2
  <1> QED
    BY <1>1, <1>6, <1>7, <1>8, <1>9, <1>10, <1>11, <1>12
       DEF IInv, Quota, Allowance, AdmitEpsilon

LEMMA CountIInv ==
    ASSUME IInv, NEW p \in Procs, Count(p)
    PROVE  IInv'
  <1>1. /\ pc[p] = "holding" /\ Fits(p) /\ Roll(now[p], arg[p])
        /\ Allow(p) /\ Grant(p, now[p])
    BY DEF Count, Allow
  <1>2. now[p] \in Time /\ now[p] <= clock /\ windowStart <= now[p] /\ arg[p] \in Nat
    BY <1>1, MutexRanges, OneHolder DEF IInv
  <1>3. MutexInv' /\ \A q \in Procs : pc'[q] # "holding"
    BY <1>1, LeaveMutex DEF IInv
  <1>4. clock' = clock
        /\ since' = [s \in Time |-> IF s <= now[p] THEN since[s] + arg[p] ELSE since[s]]
    BY <1>1 DEF Grant, Finish
  <1>5. Estimate(now[p]) + Window * arg[p] <= Window * Limit + AdmitEpsilon
    BY <1>1 DEF Fits
  <1> QED
    BY <1>1, <1>2, <1>3, <1>4, <1>5, RollIInv

LEMMA DenyIInv ==
    ASSUME IInv, NEW p \in Procs, Deny(p)
    PROVE  IInv'
  <1>1. pc[p] = "holding" /\ Roll(now[p], 0) /\ Refusal(p) /\ Refuse(p)
    BY DEF Deny, Refusal
  <1>2. now[p] \in Time /\ now[p] <= clock /\ windowStart <= now[p]
    BY <1>1, MutexRanges, OneHolder DEF IInv
  <1>3. MutexInv' /\ \A q \in Procs : pc'[q] # "holding"
    BY <1>1, LeaveMutex DEF IInv
  <1>4. clock' = clock
        /\ since' = [s \in Time |-> IF s <= now[p] THEN since[s] + 0 ELSE since[s]]
    <2>1. since \in [Time -> Nat] /\ since' = since /\ clock' = clock
      BY <1>1, Ranges DEF Refuse, Finish
    <2> QED
      BY <2>1
  <1> QED
    BY <1>1, <1>2, <1>3, <1>4, RollIInv

LEMMA NextIInv == IInv /\ [Next]_vars => IInv'
  <1> SUFFICES ASSUME IInv, [Next]_vars PROVE IInv'
    OBVIOUS
  <1>1. CASE Advance /\ UNCHANGED windowVars
    BY <1>1, PortStepIInv
  <1>2. ASSUME NEW p \in Procs,
               Enter(p) \/ EnterNothing(p) \/ Acquire(p), UNCHANGED windowVars
        PROVE  IInv'
    BY <1>2, PortStepIInv
  <1>3. ASSUME NEW p \in Procs, Count(p) PROVE IInv'
    BY <1>3, CountIInv
  <1>4. ASSUME NEW p \in Procs, Deny(p) PROVE IInv'
    BY <1>4, DenyIInv
  <1>5. CASE UNCHANGED vars
    BY <1>5 DEF vars, IInv, TypeOK, MutexInv, MutexTypeOK, PortTypeOK, Time,
                LazyRolloverIsExact, AdmittedSince, NothingAhead, Nested, Quota,
                Allowance, Charged, AdmitEpsilon
  <1> QED
    BY <1>1, <1>2, <1>3, <1>4, <1>5 DEF Next

(* The inductive invariant holds throughout.                               *)
THEOREM InductiveInvariant == Spec => []IInv
  <1> QED
    BY InitIInv, NextIInv, PTL DEF Spec

(* Types, and mutual exclusion: at most one caller is in the critical      *)
(* section (slidingwindow.go, AllowN).                                     *)
THEOREM TypeCorrect == Spec => []TypeOK
  <1>1. IInv => TypeOK
    BY DEF IInv
  <1> QED
    BY <1>1, InductiveInvariant, PTL

--------------------------------------------------------------------------------
(* However long nobody called, the counters hold what was admitted in the  *)
(* current and in the previous fixed window (slidingwindow.go:82-95).      *)
THEOREM LazyRolloverExact == Spec => []LazyRolloverIsExact
  <1>1. IInv => LazyRolloverIsExact
    BY DEF IInv
  <1> QED
    BY <1>1, InductiveInvariant, PTL

(* Every decision rolls to the window its reading lies in, and weighs the  *)
(* previous one by a share between none and all of it                      *)
(* (slidingwindow.go:94-99).                                               *)
THEOREM OverlapFraction == Spec => []OverlapIsFraction
  <1>1. ASSUME IInv PROVE OverlapIsFraction
    <2>1. ASSUME NEW p \in Procs, pc[p] = "holding"
          PROVE  /\ windowStart <= now[p]
                 /\ now[p] - StartAt(now[p]) \in 0 .. Window - 1
      <3>1. windowStart <= now[p] /\ now[p] \in Time
        BY <1>1, <2>1, MutexRanges DEF IInv
      <3> QED
        BY <1>1, <3>1, RollLands
    <2> QED
      BY <2>1 DEF OverlapIsFraction
  <1> QED
    BY <1>1, InductiveInvariant, PTL

(* What was admitted from the middle of the previous window on: with       *)
(* nothing in the current window, at most the quota.  Otherwise the last   *)
(* admission was decided at a time t of the current window, and what its   *)
(* estimate dropped is the part of the previous count that had left the    *)
(* trailing window by t.                                                   *)
LEMMA Dropped ==
    ASSUME NEW P \in Nat, NEW C \in Nat, NEW d \in Nat,
           P <= Quota, C > 0, C <= Quota, d + 2 <= Window,
           P * (Window - d) + Window * C <= Window * Limit + AdmitEpsilon
    PROVE  Window * (P + C) <= Allowance + Quota * DroppedShare
  <1>1. /\ Quota \in Nat /\ Window \in Nat /\ Allowance \in Nat
        /\ DroppedShare = Window - 2 /\ Window - 2 \in Nat
    BY Sizes DEF DroppedShare
  <1> DEFINE kept == P * (Window - d)
             lost == P * d
             used == Window * C
             worst == Quota * (Window - 2)
  <1>2. kept \in Int /\ lost \in Int /\ used \in Int /\ worst \in Int
    BY <1>1
  <1>3. Window * (P + C) = kept + lost + used
    BY <1>1
  <1>4. lost <= worst
    <2>1. Quota - P \in Nat /\ Window - 2 - d \in Nat
      BY <1>1
    <2>2. (Quota - P) * (Window - 2) \in Nat /\ P * (Window - 2 - d) \in Nat
      BY <1>1, <2>1, Product
    <2>3. worst - lost = (Quota - P) * (Window - 2) + P * (Window - 2 - d)
      BY <1>1
    <2> HIDE DEF worst, lost
    <2> QED
      BY <1>2, <2>2, <2>3
  <1>5. kept + used <= Allowance
    <2>1. Limit > 0
      <3>1. Quota > 0
        BY <1>1
      <3>2. Limit <= 0 => Allowance = 0
        BY Sizes DEF Allowance
      <3>3. 1 \in Nat /\ Window * 1 > 0
        BY Sizes
      <3> QED
        BY <1>1, <3>1, <3>2, <3>3, QuotaIs, Sizes
    <2> QED
      BY <2>1 DEF Allowance
  <1>6. Quota * DroppedShare = worst
    BY <1>1
  <1> HIDE DEF kept, lost, used, worst
  <1> QED
    BY <1>1, <1>2, <1>3, <1>4, <1>5, <1>6

(* The quota, times a window, is within the bound.                         *)
LEMMA QuotaFits ==
    ASSUME NEW a \in Nat, a <= Quota
    PROVE  Window * a <= Allowance + Quota * DroppedShare
  <1> DEFINE used  == Window * a
             extra == Quota * DroppedShare
  <1>1. used \in Nat /\ extra \in Nat /\ Allowance \in Nat
    BY Sizes, Product DEF DroppedShare
  <1>2. used <= Allowance
    BY QuotaIs
  <1> HIDE DEF used, extra
  <1>3. used <= Allowance + extra
    BY <1>1, <1>2
  <1> QED
    BY <1>3 DEF used, extra

(* A trailing window admits the limit, the slack, and the share of a full  *)
(* previous window that the estimate drops, and never more, whatever the   *)
(* limit, the window and the slack (slidingwindow.go:19-23, 97-102).       *)
THEOREM OvershootBounded == Spec => []TrailingOvershootBounded
  <1>1. ASSUME IInv PROVE TrailingOvershootBounded
    <2>1. SUFFICES ASSUME NEW s \in Time, s <= clock, clock < s + Window
                   PROVE  Window * AdmittedSince(s)
                            <= Allowance + Quota * DroppedShare
      BY DEF TrailingOvershootBounded
    <2>2. /\ s \in Nat /\ Window \in Nat \ {0} /\ Quota \in Nat
          /\ windowStart \in Nat /\ windowStart <= clock /\ clock \in Nat
          /\ prevCount \in Nat /\ currCount \in Nat
          /\ prevCount <= Quota /\ currCount <= Quota
      BY <1>1, Sizes, Ranges DEF IInv
    <2>3. AdmittedSince(s) \in Nat
      BY <1>1, <2>2, AdmittedIs
    <2>4. CASE s >= windowStart
      <3>1. AdmittedSince(s) <= currCount
        BY <1>1, <2>2, <2>4, AdmittedIs DEF IInv, LazyRolloverIsExact
      <3>2. AdmittedSince(s) <= Quota
        BY <2>2, <2>3, <3>1
      <3> QED
        BY <2>3, <3>2, QuotaFits
    <2>5. CASE s < windowStart
      <3>1. AdmittedSince(s) <= prevCount + currCount
        <4>1. windowStart - Window \in Int /\ windowStart - Window <= s
          BY <2>1, <2>2
        <4>2. AdmittedSince(s) <= AdmittedSince(windowStart - Window)
              /\ AdmittedSince(windowStart - Window) \in Nat
          BY <1>1, <2>2, <4>1, AdmittedIs
        <4> QED
          BY <1>1, <2>2, <2>3, <4>2 DEF IInv, LazyRolloverIsExact
      <3>2. CASE currCount = 0
        <4>1. AdmittedSince(s) <= Quota
          BY <2>2, <2>3, <3>1, <3>2
        <4> QED
          BY <2>3, <4>1, QuotaFits
      <3>3. CASE currCount > 0
        <4>1. PICK t \in Time :
                /\ windowStart <= t /\ t <= clock
                /\ prevCount * (Window - (t - windowStart)) + Window * currCount
                     <= Window * Limit + AdmitEpsilon
          BY <1>1, <3>3 DEF IInv, Charged
        <4>2. t - windowStart \in Nat /\ (t - windowStart) + 2 <= Window
          BY <2>1, <2>2, <2>5, <4>1, Sizes
        <4>3. Window * (prevCount + currCount) <= Allowance + Quota * DroppedShare
          BY <2>2, <3>3, <4>1, <4>2, Dropped
        <4>4. Window * AdmittedSince(s) <= Window * (prevCount + currCount)
          <5> DEFINE more == (prevCount + currCount) - AdmittedSince(s)
                     a    == Window * AdmittedSince(s)
                     b    == Window * (prevCount + currCount)
          <5>1. Window * more \in Nat
            BY <2>2, <2>3, <3>1, Product
          <5>2. b - a = Window * more /\ a \in Int /\ b \in Int
            BY <2>2, <2>3
          <5> HIDE DEF a, b, more
          <5>3. a <= b
            BY <5>1, <5>2
          <5> QED
            BY <5>3 DEF a, b
        <4>5. /\ Window * AdmittedSince(s) \in Int
              /\ Window * (prevCount + currCount) \in Int
              /\ Allowance + Quota * DroppedShare \in Int
          BY <2>2, <2>3, Sizes DEF DroppedShare
        <4> DEFINE a == Window * AdmittedSince(s)
                   b == Window * (prevCount + currCount)
                   c == Allowance + Quota * DroppedShare
        <4> HIDE DEF a, b, c
        <4>6. a <= c
          <5>1. a <= b /\ b <= c /\ a \in Int /\ b \in Int /\ c \in Int
            BY <4>3, <4>4, <4>5 DEF a, b, c
          <5> QED
            BY <5>1
        <4> QED
          BY <4>6 DEF a, c
      <3> QED
        BY <2>2, <3>2, <3>3
    <2> QED
      BY <2>2, <2>4, <2>5
  <1> QED
    BY <1>1, InductiveInvariant, PTL
================================================================================
