----------------------- MODULE TokenBucketContractProofs -----------------------
(***************************************************************************)
(* Proofs that the token-bucket contract keeps its promises for every rate,*)
(* capacity, slack, number of callers and horizon.  The inductive          *)
(* invariant is TypeOK, Accounting and DebtBound together; the theorems    *)
(* read off it.                                                            *)
(***************************************************************************)
EXTENDS TokenBucketContract, TLAPS

(***************************************************************************)
(* The port: every move of a caller keeps its types.                       *)
(***************************************************************************)
LEMMA BatchInteger == \A n \in Batches : n \in Int
  BY PortAssumption, Zenon

(* A call that is doing any work asks for a positive batch.                *)
LEMMA ArgPositive ==
    ASSUME NEW labels, PortTypeOK(labels), NEW p \in Procs, pc[p] \notin Resting
    PROVE  arg[p] \in Nat \ {0} /\ arg[p] \in Batches
  <1>1. arg[p] \in Batches \cup {0} /\ arg[p] > 0
    BY DEF PortTypeOK
  <1>2. arg[p] \in Batches
    BY <1>1
  <1>3. arg[p] \in Int
    BY <1>2, BatchInteger
  <1> QED
    BY <1>1, <1>2, <1>3

(* A call that starts keeps the port's types.                              *)
LEMMA CallType ==
    ASSUME NEW labels, PortTypeOK(labels), NEW label \in labels,
           NEW p \in Procs, Call(p, label)
    PROVE  PortTypeOK(labels)'
  <1>1. PICK n \in Batches : n > 0 /\ arg' = [arg EXCEPT ![p] = n]
    BY DEF Call
  <1>2. \A q \in Procs : pc'[q] \notin Resting => arg'[q] > 0
    BY <1>1 DEF Call, PortTypeOK
  <1>3. \A q \in Procs : inv'[q] <= clock'
    BY PortAssumption DEF Call, PortTypeOK, Time
  <1> QED
    BY <1>1, <1>2, <1>3 DEF Call, PortTypeOK

(* A call that returns keeps them, granted or refused.                     *)
LEMMA FinishType ==
    ASSUME NEW labels, PortTypeOK(labels), NEW p \in Procs,
           NEW verdict \in Resting, Finish(p, verdict), since' \in [Time -> Nat]
    PROVE  PortTypeOK(labels)'
  <1>1. \A q \in Procs : pc'[q] \notin Resting => arg'[q] > 0
    BY DEF Finish, PortTypeOK
  <1>2. \A q \in Procs : inv'[q] <= clock'
    BY PortAssumption DEF Finish, PortTypeOK, Time
  <1> QED
    BY <1>1, <1>2, PortAssumption DEF Finish, PortTypeOK, Time

LEMMA GrantType ==
    ASSUME NEW labels, PortTypeOK(labels), NEW p \in Procs,
           pc[p] \notin Resting, NEW t, Grant(p, t)
    PROVE  PortTypeOK(labels)'
  <1>1. arg[p] \in Nat
    BY ArgPositive
  <1>2. since' \in [Time -> Nat]
    BY <1>1 DEF Grant, PortTypeOK
  <1> QED
    BY <1>2, FinishType DEF Grant, Resting

LEMMA RefuseType ==
    ASSUME NEW labels, PortTypeOK(labels), NEW p \in Procs, Refuse(p)
    PROVE  PortTypeOK(labels)'
  BY FinishType DEF Refuse, PortTypeOK, Resting

(* Ticks and empty batches keep them.                                      *)
LEMMA TickType ==
    ASSUME NEW labels, PortTypeOK(labels), Tick
    PROVE  PortTypeOK(labels)'
  BY PortAssumption DEF Tick, PortTypeOK, Time

LEMMA CallNothingType ==
    ASSUME NEW labels, PortTypeOK(labels), NEW p \in Procs, CallNothing(p)
    PROVE  PortTypeOK(labels)'
  BY DEF CallNothing, PortTypeOK, Resting

LEMMA InitType ==
    ASSUME NEW labels, PortInit
    PROVE  PortTypeOK(labels)
  BY PortAssumption DEF PortInit, PortTypeOK, Time, Resting

--------------------------------------------------------------------------------

(* Products distribute; the arithmetic backend is not asked to find it.    *)
LEMMA Distribute ==
    ASSUME NEW a \in Int, NEW b \in Int, NEW c \in Int
    PROVE  (a + b) * c = a * c + b * c /\ c * (a + b) = c * a + c * b
  OBVIOUS

LEMMA ProductNat ==
    ASSUME NEW a \in Nat, NEW b \in Nat
    PROVE  a * b \in Nat
  OBVIOUS

(* The credit at a time is an integer within the bucket, and no less than  *)
(* what is held when that time is not in the past.                         *)
LEMMA CreditAtBounds ==
    ASSUME credit \in Int, last \in Int, NEW t \in Int
    PROVE  /\ CreditAt(t) \in Int
           /\ CreditAt(t) <= CapQ
           /\ CreditAt(t) <= credit + Rate * (t - last)
           /\ last <= t /\ credit <= CapQ => credit <= CreditAt(t)
           /\ t < last => CreditAt(t) <= credit
  <1> DEFINE flow == Rate * (t - last)
  <1>1. Rate \in Nat /\ CapQ \in Nat
    BY ContractAssumption
  <1>2. flow \in Int
    BY <1>1
  <1>3. last <= t => flow >= 0
    BY <1>1, ProductNat, t - last \in Int, last <= t => t - last \in Nat
  <1>4. t < last => flow <= 0
    <2>1. t < last => last - t \in Nat /\ Rate * (last - t) \in Nat
      BY <1>1, ProductNat
    <2>2. flow = -(Rate * (last - t))
      BY <1>1
    <2> QED
      BY <2>1, <2>2, <1>2
  <1> HIDE DEF flow
  <1>5. CreditAt(t) = IF credit + flow <= CapQ THEN credit + flow ELSE CapQ
    BY DEF CreditAt, flow
  <1>6. /\ CreditAt(t) \in Int
        /\ CreditAt(t) <= CapQ
        /\ CreditAt(t) <= credit + flow
        /\ last <= t /\ credit <= CapQ => credit <= CreditAt(t)
        /\ t < last => CreditAt(t) <= credit
    BY <1>1, <1>2, <1>3, <1>4, <1>5
  <1> QED
    BY <1>6 DEF flow

(* A decision is made at a time of the clock between call and now.         *)
LEMMA MomentsInTime ==
    ASSUME TypeOK, NEW p \in Procs, NEW t \in Moments(p)
    PROVE  /\ t \in Time /\ t <= clock
           /\ ~Backdating => last <= t
  BY PortAssumption, ContractAssumption DEF TypeOK, PortTypeOK, Moments, Time

(* Settling at such a time keeps the types.                                *)
LEMMA SettleType ==
    ASSUME TypeOK, NEW t \in Time, t <= clock, NEW spent \in Int,
           Settle(t, spent)
    PROVE  credit' \in Int /\ last' \in Time /\ last' <= clock
  <1>1. credit \in Int /\ last \in Int /\ t \in Int /\ last \in Time /\ last <= clock
    BY PortAssumption DEF TypeOK, Time
  <1>2. CreditAt(t) \in Int
    BY <1>1, CreditAtBounds
  <1> QED
    BY <1>1, <1>2 DEF Settle

--------------------------------------------------------------------------------
LEMMA BusyArg ==
    ASSUME TypeOK, NEW p \in Procs, pc[p] = "busy"
    PROVE  /\ pc[p] \notin Resting
           /\ arg[p] \in Nat \ {0}
           /\ arg[p] \in Batches
           /\ arg[p] * Unit \in Nat
  <1>1. pc[p] \notin Resting /\ PortTypeOK({"busy"})
    BY DEF TypeOK, Resting
  <1>2. arg[p] \in Nat \ {0} /\ arg[p] \in Batches
    BY <1>1, ArgPositive
  <1> QED
    BY <1>1, <1>2, ContractAssumption, ProductNat

LEMMA InitTypeOK == Init => TypeOK
  <1> SUFFICES ASSUME Init PROVE TypeOK
    OBVIOUS
  <1>1. PortTypeOK({"busy"})
    BY InitType DEF Init
  <1> QED
    BY <1>1, PortAssumption, ContractAssumption DEF Init, PortInit, TypeOK, Time

LEMMA NextTypeOK == TypeOK /\ [Next]_vars => TypeOK'
  <1> SUFFICES ASSUME TypeOK, [Next]_vars PROVE TypeOK'
    OBVIOUS
  <1>0. PortTypeOK({"busy"}) /\ "busy" \in {"busy"}
    BY DEF TypeOK
  <1>1. CASE Advance
    <2>1. PortTypeOK({"busy"})'
      BY <1>0, <1>1, TickType DEF Advance
    <2> QED
      BY <1>1, <2>1, PortAssumption DEF TypeOK, PortTypeOK, Advance, Tick, Time
  <1>2. ASSUME NEW p \in Procs, Begin(p) PROVE TypeOK'
    <2>1. PortTypeOK({"busy"})'
      BY <1>0, <1>2, CallType DEF Begin
    <2> QED
      BY <1>2, <2>1 DEF TypeOK, Begin, Call
  <1>3. ASSUME NEW p \in Procs, Skip(p) PROVE TypeOK'
    <2>1. PortTypeOK({"busy"})'
      BY <1>0, <1>3, CallNothingType DEF Skip
    <2> QED
      BY <1>3, <2>1 DEF TypeOK, Skip, CallNothing
  <1>4. ASSUME NEW p \in Procs, Admit(p) PROVE TypeOK'
    <2>1. PICK t \in Moments(p) : Settle(t, arg[p] * Unit) /\ Grant(p, t)
      BY <1>4 DEF Admit
    <2>2. pc[p] = "busy"
      BY <1>4 DEF Admit
    <2>3. credit' \in Int /\ last' \in Time /\ last' <= clock
      BY <2>1, <2>2, BusyArg, MomentsInTime, SettleType
    <2>4. PortTypeOK({"busy"})'
      BY <1>0, <2>1, <2>2, BusyArg, GrantType
    <2> QED
      BY <2>1, <2>3, <2>4 DEF TypeOK, Grant, Finish
  <1>5. ASSUME NEW p \in Procs, Deny(p) PROVE TypeOK'
    <2>1. PICK t \in Moments(p) : Settle(t, 0) \/ UNCHANGED <<credit, last>>
      BY <1>5 DEF Deny
    <2>2. credit' \in Int /\ last' \in Time /\ last' <= clock
      BY <2>1, MomentsInTime, SettleType DEF TypeOK
    <2>3. PortTypeOK({"busy"})'
      BY <1>0, <1>5, RefuseType DEF Deny
    <2> QED
      BY <1>5, <2>2, <2>3 DEF TypeOK, Deny, Refuse, Finish
  <1>6. CASE UNCHANGED vars
    BY <1>6 DEF vars, TypeOK, PortTypeOK
  <1> QED
    BY <1>1, <1>2, <1>3, <1>4, <1>5, <1>6 DEF Next

(* Every step keeps the types.                                             *)
THEOREM TypeCorrect == Spec => []TypeOK
  BY InitTypeOK, NextTypeOK, PTL DEF Spec

--------------------------------------------------------------------------------
(* The inductive invariant                                                 *)
Inv == TypeOK /\ Accounting /\ DebtBound

LEMMA InitInv == Init => Inv
  <1> SUFFICES ASSUME Init PROVE Inv
    OBVIOUS
  <1>1. TypeOK
    BY InitTypeOK
  <1>2. Accounting
    BY PortAssumption, ContractAssumption DEF Init, PortInit, Accounting, Time
  <1>3. DebtBound
    BY ContractAssumption DEF Init, DebtBound
  <1> QED
    BY <1>1, <1>2, <1>3 DEF Inv

(* Settling at t moves the right side of the books by the accrual and the  *)
(* credit by no more.                                                      *)
LEMMA SettleBounds ==
    ASSUME Inv, NEW t \in Time, NEW spent \in Nat, Settle(t, spent)
    PROVE  /\ credit' \in Int /\ last' \in Time
           /\ last <= last' /\ t <= last'
           /\ credit' + spent <= CapQ
           /\ credit' + spent <= credit + Rate * (last' - last)
           /\ credit <= credit' + spent
           /\ CreditAt(t) <= credit' + spent
  <1>1. credit \in Int /\ last \in Int /\ t \in Int /\ last \in Time
    BY PortAssumption DEF Inv, TypeOK, Time
  <1>2. credit <= CapQ /\ CapQ \in Int /\ Rate \in Int
    BY ContractAssumption DEF Inv, DebtBound
  <1>3. /\ CreditAt(t) \in Int
        /\ CreditAt(t) <= CapQ
        /\ CreditAt(t) <= credit + Rate * (t - last)
        /\ last <= t => credit <= CreditAt(t)
        /\ t < last => CreditAt(t) <= credit
    BY <1>1, <1>2, CreditAtBounds
  <1>4. CASE t < last
    <2>1. credit' = credit - spent /\ last' = last
      BY <1>4 DEF Settle
    <2>2. Rate * (last' - last) = 0
      BY <2>1, <1>1, <1>2
    <2> QED
      BY <1>1, <1>2, <1>3, <1>4, <2>1, <2>2
  <1>5. CASE ~(t < last)
    <2>1. credit' = CreditAt(t) - spent /\ last' = t
      BY <1>5 DEF Settle
    <2> QED
      BY <1>1, <1>2, <1>3, <1>5, <2>1
  <1> QED
    BY <1>4, <1>5

(* The history records n more units at time t.                             *)
Recorded(t, n) ==
    since' = [s \in Time |-> IF s <= t THEN since[s] + n ELSE since[s]]

(* The books of one time s stay balanced when n units are granted at t.    *)
LEMMA SettleSince ==
    ASSUME Inv, NEW t \in Time, NEW n \in Nat, Settle(t, n * Unit),
           Recorded(t, n),
           NEW s \in Time
    PROVE  /\ s <= last' => since'[s] * Unit + credit' <= CapQ + Rate * (last' - s)
           /\ s > last'  => since'[s] = 0
  <1>1. /\ s \in Nat /\ t \in Nat /\ last \in Nat /\ credit \in Int
        /\ Unit \in Nat /\ Rate \in Nat /\ CapQ \in Nat
    BY PortAssumption, ContractAssumption DEF Inv, TypeOK, Time
  <1>2. since[s] \in Nat
    BY DEF Inv, TypeOK, PortTypeOK
  <1>3. n * Unit \in Nat /\ since[s] * Unit \in Nat
    BY <1>1, <1>2, ProductNat
  <1>4. /\ credit' \in Int /\ last' \in Time
        /\ last <= last' /\ t <= last'
        /\ credit' + n * Unit <= CapQ
        /\ credit' + n * Unit <= credit + Rate * (last' - last)
    BY <1>3, SettleBounds
  <1>5. PICK L \in Int, C \in Int, K \in Nat :
            L = last' /\ C = credit' /\ K = since'[s]
    <2>1. last' \in Int
      BY <1>4, PortAssumption DEF Time
    <2>2. since'[s] \in Nat
      BY <1>2 DEF Recorded
    <2> QED
      BY <1>4, <2>1, <2>2
  <1>6. K = IF s <= t THEN since[s] + n ELSE since[s]
    BY <1>5 DEF Recorded
  <1>7. (since[s] + n) * Unit = since[s] * Unit + n * Unit
    BY <1>1, <1>2, Distribute
  <1>8. last <= L /\ t <= L /\ C + n * Unit <= CapQ
    BY <1>4, <1>5, Zenon
  <1>9. C + n * Unit <= credit + Rate * (L - last)
    BY <1>4, <1>5, Zenon
  <1>10. s <= L => K * Unit + C <= CapQ + Rate * (L - s)
    <2>1. CASE s <= last
      <3>1. since[s] * Unit + credit <= CapQ + Rate * (last - s)
        BY <2>1 DEF Inv, Accounting
      <3>2. K * Unit <= since[s] * Unit + n * Unit
        BY <1>3, <1>6, <1>7
      <3>3. Rate * (L - s) = Rate * (L - last) + Rate * (last - s)
        <4>1. L - last \in Int /\ last - s \in Int /\ L - s = (L - last) + (last - s)
          BY <1>1
        <4> QED
          BY <1>1, <4>1, Distribute
      <3> QED
        BY <1>1, <1>3, <1>9, <3>1, <3>2, <3>3
    <2>2. CASE s > last
      <3>1. since[s] = 0
        BY <2>2 DEF Inv, Accounting
      <3>2. K * Unit <= n * Unit
        BY <1>1, <1>3, <1>6, <1>7, <3>1
      <3>3. s <= L => Rate * (L - s) \in Nat
        BY <1>1, ProductNat, s <= L => L - s \in Nat
      <3> QED
        BY <1>1, <1>3, <1>8, <3>2, <3>3
    <2> QED
      BY <1>1, <2>1, <2>2
  <1>11. s > L => K = 0
    <2>1. s > L => s > last
      BY <1>1, <1>8
    <2>2. s > last => since[s] = 0
      BY DEF Inv, Accounting
    <2> QED
      BY <1>1, <1>6, <1>8, <2>1, <2>2
  <1> QED
    BY <1>5, <1>10, <1>11, Zenon

(* The books stay balanced when n units are granted at t and settled.      *)
LEMMA SettleAccounting ==
    ASSUME Inv, NEW t \in Time, NEW n \in Nat, Settle(t, n * Unit),
           Recorded(t, n)
    PROVE  Accounting'
  <1>1. \A s \in Time :
            /\ s <= last' => since'[s] * Unit + credit' <= CapQ + Rate * (last' - s)
            /\ s > last'  => since'[s] = 0
    BY SettleSince
  <1>2. since'[0] * Unit + credit' >= CapQ
    <2>1. /\ 0 \in Time /\ 0 <= t /\ since[0] \in Nat /\ Unit \in Nat
          /\ credit \in Int /\ CapQ \in Nat
      BY PortAssumption, ContractAssumption DEF Inv, TypeOK, PortTypeOK, Time
    <2>2. since'[0] = since[0] + n
      BY <2>1 DEF Recorded
    <2>3. (since[0] + n) * Unit = since[0] * Unit + n * Unit
      BY <2>1, Distribute
    <2>4. n * Unit \in Nat /\ since[0] * Unit \in Nat
      BY <2>1, ProductNat
    <2>5. PICK C \in Int : C = credit'
      BY <2>4, SettleBounds
    <2>6. credit <= C + n * Unit
      BY <2>4, <2>5, SettleBounds
    <2>7. since[0] * Unit + credit >= CapQ
      BY DEF Inv, Accounting
    <2>8. (since[0] + n) * Unit + C >= CapQ
      BY <2>1, <2>3, <2>4, <2>6, <2>7
    <2> QED
      BY <2>2, <2>5, <2>8, Zenon
  <1> QED
    BY <1>1, <1>2 DEF Accounting

LEMMA NextInv == Inv /\ [Next]_vars => Inv'
  <1> SUFFICES ASSUME Inv, [Next]_vars PROVE Inv'
    OBVIOUS
  <1>0. TypeOK'
    BY NextTypeOK DEF Inv
  <1>1. CASE Advance
    BY <1>0, <1>1 DEF Advance, Tick, Inv, Accounting, DebtBound
  <1>2. ASSUME NEW p \in Procs, Begin(p) PROVE Inv'
    BY <1>0, <1>2 DEF Begin, Call, Inv, Accounting, DebtBound
  <1>3. ASSUME NEW p \in Procs, Skip(p) PROVE Inv'
    BY <1>0, <1>3 DEF Skip, CallNothing, Inv, Accounting, DebtBound
  <1>4. ASSUME NEW p \in Procs, Admit(p) PROVE Inv'
    <2>1. PICK t \in Moments(p) : /\ Fits(arg[p], t)
                                  /\ Settle(t, arg[p] * Unit)
                                  /\ Grant(p, t)
      BY <1>4 DEF Admit
    <2>2. t \in Time
      BY MomentsInTime DEF Inv
    <2>3. arg[p] \in Nat /\ arg[p] \in Batches /\ arg[p] > 0
      BY <1>4, BusyArg DEF Admit, Inv
    <2>4. arg[p] * Unit \in Nat
      BY <1>4, BusyArg DEF Admit, Inv
    <2>5. Accounting'
      BY <2>1, <2>2, <2>3, SettleAccounting DEF Grant, Recorded
    <2>6. /\ credit' \in Int
          /\ credit' + arg[p] * Unit <= CapQ
          /\ CreditAt(t) <= credit' + arg[p] * Unit
      BY <2>1, <2>2, <2>4, SettleBounds
    <2>7. CreditAt(t) \in Int
      BY <2>2, CreditAtBounds DEF Inv, TypeOK, Time
    <2>8. Slack[arg[p]] \in 0..MaxSlack /\ MaxSlack \in Nat /\ CapQ \in Nat
      BY <2>3, ContractAssumption
    <2>9. DebtBound'
      BY <2>1, <2>4, <2>6, <2>7, <2>8 DEF Fits, DebtBound
    <2> QED
      BY <1>0, <2>5, <2>9 DEF Inv
  <1>5. ASSUME NEW p \in Procs, Deny(p) PROVE Inv'
    <2>1. PICK t \in Moments(p) : Settle(t, 0) \/ UNCHANGED <<credit, last>>
      BY <1>5 DEF Deny
    <2>2. since' = since
      BY <1>5 DEF Deny, Refuse
    <2>3. CASE UNCHANGED <<credit, last>>
      BY <1>0, <2>2, <2>3 DEF Inv, Accounting, DebtBound
    <2>4. CASE Settle(t, 0)
      <3>1. t \in Time
        BY MomentsInTime DEF Inv
      <3>2. Recorded(t, 0)
        BY <2>2 DEF Recorded, Inv, TypeOK, PortTypeOK
      <3>3. 0 * Unit = 0 /\ 0 \in Nat
        BY ContractAssumption
      <3>4. Accounting'
        BY <2>4, <3>1, <3>2, <3>3, SettleAccounting
      <3>5. credit' \in Int /\ credit' <= CapQ /\ credit <= credit'
        BY <2>4, <3>1, <3>3, SettleBounds, ContractAssumption
           DEF Inv, TypeOK
      <3>6. DebtBound'
        BY <3>5, ContractAssumption DEF Inv, TypeOK, DebtBound
      <3> QED
        BY <1>0, <3>4, <3>6 DEF Inv
    <2> QED
      BY <2>1, <2>3, <2>4
  <1>6. CASE UNCHANGED vars
    BY <1>0, <1>6 DEF vars, Inv, Accounting, DebtBound
  <1> QED
    BY <1>1, <1>2, <1>3, <1>4, <1>5, <1>6 DEF Next

(* The inductive invariant holds throughout.                               *)
THEOREM Invariance == Spec => []Inv
  BY InitInv, NextInv, PTL DEF Spec

(* The books balance at every moment.                                      *)
THEOREM AccountingHolds == Spec => []Accounting
  BY Invariance, PTL DEF Inv

(* The debt is bounded by one slack for the lifetime of the limiter.       *)
THEOREM DebtBounded == Spec => []DebtBound
  BY Invariance, PTL DEF Inv

LEMMA InvWindowBound == Inv => WindowBound
  <1> SUFFICES ASSUME Inv, NEW s \in Time, s <= last
               PROVE  since[s] * Unit <= CapQ + MaxSlack + Rate * (last - s)
    BY DEF WindowBound
  <1>1. since[s] * Unit + credit <= CapQ + Rate * (last - s) /\ -MaxSlack <= credit
    BY DEF Inv, Accounting, DebtBound
  <1>2. /\ since[s] * Unit \in Int /\ Rate * (last - s) \in Int
        /\ credit \in Int /\ CapQ \in Int /\ MaxSlack \in Int
    BY PortAssumption, ContractAssumption DEF Inv, TypeOK, PortTypeOK, Time
  <1> QED
    BY <1>1, <1>2

(* Over every interval a bucket admits at most a full bucket, the accrual  *)
(* of the interval and one slack.                                          *)
THEOREM WindowBounded == Spec => []WindowBound
  BY Invariance, InvWindowBound, PTL

--------------------------------------------------------------------------------
LEMMA DenyIsShort ==
    ASSUME Inv, NEW p \in Procs, Deny(p), ~Backdating
    PROVE  (since[0] + arg[p]) * Unit > CapQ
  <1>1. PICK t \in Moments(p) : ~Fits(arg[p], t)
    BY DEF Deny
  <1>2. t \in Int /\ last <= t /\ credit \in Int /\ last \in Int
    BY MomentsInTime, PortAssumption DEF Inv, TypeOK, Time
  <1>3. arg[p] \in Nat /\ arg[p] \in Batches /\ arg[p] > 0
    BY BusyArg DEF Deny, Inv
  <1>4. CreditAt(t) \in Int /\ credit <= CreditAt(t)
    BY <1>2, CreditAtBounds DEF Inv, DebtBound
  <1>5. Slack[arg[p]] \in Nat /\ arg[p] * Unit \in Int /\ CapQ \in Int
    BY <1>3, ContractAssumption
  <1>6. credit < arg[p] * Unit
    BY <1>1, <1>2, <1>4, <1>5 DEF Fits
  <1>7. since[0] \in Nat /\ since[0] * Unit \in Int
    BY PortAssumption, ContractAssumption DEF Inv, TypeOK, PortTypeOK, Time
  <1>8. since[0] * Unit + credit >= CapQ
    BY DEF Inv, Accounting
  <1>9. (since[0] + arg[p]) * Unit = since[0] * Unit + arg[p] * Unit
    BY <1>3, <1>7, ContractAssumption, Distribute
  <1> QED
    BY <1>2, <1>5, <1>6, <1>7, <1>8, <1>9

(* Where no call is decided in the past, the burst of a full bucket is     *)
(* served.                                                                 *)
THEOREM BurstServed == Spec => BurstIsServed
  <1>1. Inv /\ [Next]_vars
          => [\A p \in Procs :
                Deny(p) => Backdating \/ (since[0] + arg[p]) * Unit > CapQ]_vars
    BY DenyIsShort
  <1> QED
    BY <1>1, Invariance, PTL DEF Spec, BurstIsServed
================================================================================
