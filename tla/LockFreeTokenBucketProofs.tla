----------------------- MODULE LockFreeTokenBucketProofs -----------------------
(***************************************************************************)
(* Proofs about the bucket that swaps pointers, for every rate, capacity,  *)
(* slack, number of callers and set of addresses: that addresses are not   *)
(* mistaken, that a snapshot never understates the bucket, and that the    *)
(* bucket implements the strict contract.                                  *)
(*                                                                         *)
(* The allocation discipline is what carries it: an address somebody       *)
(* holds is not handed out, so a swap that finds the address it loaded     *)
(* replaces the snapshot it computed from.                                 *)
(***************************************************************************)
EXTENDS LockFreeTokenBucket, TLAPS

(***************************************************************************)
(* The port: every move of a caller keeps its types.                       *)
(***************************************************************************)
LEMMA BatchInteger == \A n \in Batches : n \in Int
  BY PortAssumption, Zenon

(* A call that is doing any work asks for a positive batch.                *)
LEMMA ArgPositive ==
    ASSUME NEW labels, PortTypeOK(labels), NEW p \in Procs, pc[p] \notin Resting
    PROVE  arg[p] \in Nat \ {0} /\ arg[p] \in Batches
  <1>1. arg[p] \in Batches \cup {0} /\ arg[p] > 0
    BY DEF PortTypeOK
  <1>2. arg[p] \in Batches
    BY <1>1
  <1>3. arg[p] \in Int
    BY <1>2, BatchInteger
  <1> QED
    BY <1>1, <1>2, <1>3

(* A call that starts keeps the port's types.                              *)
LEMMA CallType ==
    ASSUME NEW labels, PortTypeOK(labels), NEW label \in labels,
           NEW p \in Procs, Call(p, label)
    PROVE  PortTypeOK(labels)'
  <1>1. PICK n \in Batches : n > 0 /\ arg' = [arg EXCEPT ![p] = n]
    BY DEF Call
  <1>2. \A q \in Procs : pc'[q] \notin Resting => arg'[q] > 0
    BY <1>1 DEF Call, PortTypeOK
  <1>3. \A q \in Procs : inv'[q] <= clock'
    BY PortAssumption DEF Call, PortTypeOK, Time
  <1> QED
    BY <1>1, <1>2, <1>3 DEF Call, PortTypeOK

(* A call that returns keeps them, granted or refused.                     *)
LEMMA FinishType ==
    ASSUME NEW labels, PortTypeOK(labels), NEW p \in Procs,
           NEW verdict \in Resting, Finish(p, verdict), since' \in [Time -> Nat]
    PROVE  PortTypeOK(labels)'
  <1>1. \A q \in Procs : pc'[q] \notin Resting => arg'[q] > 0
    BY DEF Finish, PortTypeOK
  <1>2. \A q \in Procs : inv'[q] <= clock'
    BY PortAssumption DEF Finish, PortTypeOK, Time
  <1> QED
    BY <1>1, <1>2, PortAssumption DEF Finish, PortTypeOK, Time

LEMMA GrantType ==
    ASSUME NEW labels, PortTypeOK(labels), NEW p \in Procs,
           pc[p] \notin Resting, NEW t, Grant(p, t)
    PROVE  PortTypeOK(labels)'
  <1>1. arg[p] \in Nat
    BY ArgPositive
  <1>2. since' \in [Time -> Nat]
    BY <1>1 DEF Grant, PortTypeOK
  <1> QED
    BY <1>2, FinishType DEF Grant, Resting

LEMMA RefuseType ==
    ASSUME NEW labels, PortTypeOK(labels), NEW p \in Procs, Refuse(p)
    PROVE  PortTypeOK(labels)'
  BY FinishType DEF Refuse, PortTypeOK, Resting

(* Ticks and empty batches keep them.                                      *)
LEMMA TickType ==
    ASSUME NEW labels, PortTypeOK(labels), Tick
    PROVE  PortTypeOK(labels)'
  BY PortAssumption DEF Tick, PortTypeOK, Time

LEMMA CallNothingType ==
    ASSUME NEW labels, PortTypeOK(labels), NEW p \in Procs, CallNothing(p)
    PROVE  PortTypeOK(labels)'
  BY DEF CallNothing, PortTypeOK, Resting

(* A step within a call moves its program counter and nothing else here.   *)
LEMMA StepType ==
    ASSUME NEW labels, PortTypeOK(labels), NEW p \in Procs,
           pc[p] \notin Resting, NEW label \in labels,
           pc' = [pc EXCEPT ![p] = label],
           UNCHANGED <<clock, arg, inv, since>>
    PROVE  PortTypeOK(labels)'
  BY DEF PortTypeOK

LEMMA InitType ==
    ASSUME NEW labels, PortInit
    PROVE  PortTypeOK(labels)
  BY PortAssumption DEF PortInit, PortTypeOK, Time, Resting

--------------------------------------------------------------------------------

Holding(p) == pc[p] \in {"deciding", "swapping"}

(* A snapshot that was loaded is still published, or somebody was admitted *)
(* since; either way it does not understate the bucket from now on.        *)
Loaded(p) ==
    /\ \/ old[p] = state
       \/ old[p].addr # state.addr /\ old[p].admitted < state.admitted
    /\ old[p].last <= state.last
    /\ \A t \in Nat : state.last <= t => Refilled(state, t) <= Refilled(old[p], t)

(* What is to be installed is the decision taken on the snapshot loaded,   *)
(* at a time of the call.                                                  *)
Derived(p) ==
    /\ old[p].last <= next[p].last
    /\ inv[p] <= next[p].last /\ next[p].last <= clock
    /\ next[p].tokens = Refilled(old[p], next[p].last) - arg[p] * Unit
    /\ next[p].admitted = old[p].admitted + arg[p]
    /\ Refilled(old[p], next[p].last) + AdmitEpsilon(arg[p]) >= arg[p] * Unit

(* Nobody else knows the address of what is to be installed.               *)
Fresh(p) ==
    /\ next[p].addr # state.addr
    /\ \A q \in Procs : Holding(q) => old[q].addr # next[p].addr
    /\ \A q \in Procs \ {p} : pc[q] = "swapping" => next[q].addr # next[p].addr

CallOK(p) ==
    /\ Holding(p) => Loaded(p)
    /\ pc[p] = "swapping" => Derived(p) /\ Fresh(p)

(* The inductive invariant.                                                *)
IInv ==
    /\ TypeOK
    /\ state.last <= clock
    /\ state.admitted = since[0]
    /\ \A p \in Procs : CallOK(p)

Full == Capacity * Unit

Labels == {"loading", "deciding", "swapping"}

LEMMA Product ==
    ASSUME NEW a \in Nat, NEW b \in Nat
    PROVE  a * b \in Nat
  OBVIOUS

LEMMA Sizes ==
    /\ Unit \in Nat \ {0} /\ Rate \in Nat /\ Eps \in Nat /\ Full \in Nat
    /\ \A n \in Batches : n \in Int
    /\ 0 \in Time /\ \A t \in Time : t \in Nat
    /\ Nil \notin Snapshot
  <1>1. \A t \in Time : t \in Nat
    BY PortAssumption DEF Time
  <1>2. Snapshot \subseteq [addr : Addr, tokens : Int, last : Nat, admitted : Nat]
    BY <1>1 DEF Snapshot
  <1>3. 0 \in Time
    BY PortAssumption DEF Time
  <1> QED
    BY <1>1, <1>2, <1>3, LockFreeAssumption, Product, BatchInteger DEF Full

LEMMA SnapshotParts ==
    ASSUME NEW s \in Snapshot
    PROVE  s.addr \in Addr /\ s.tokens \in Int /\ s.last \in Nat /\ s.last \in Time
           /\ s.admitted \in Nat
  BY Sizes DEF Snapshot

LEMMA RefillIs ==
    ASSUME NEW s \in Snapshot, NEW t \in Nat
    PROVE  /\ Rate * (t - s.last) \in Int
           /\ s.last <= t => Rate * (t - s.last) \in Nat
           /\ Refilled(s, t) \in Int /\ Refilled(s, t) <= Full
           /\ Refilled(s, t) = IF s.tokens + Rate * (t - s.last) <= Full
                               THEN s.tokens + Rate * (t - s.last) ELSE Full
  <1> DEFINE a == Rate * (t - s.last)
  <1>1. s.tokens \in Int /\ s.last \in Nat
    BY SnapshotParts
  <1>2. a \in Int /\ (s.last <= t => a \in Nat)
    <2>1. t - s.last \in Int /\ (s.last <= t => t - s.last \in Nat)
      BY <1>1
    <2> QED
      BY <2>1, Sizes, Product
  <1>3. Refilled(s, t) = IF s.tokens + a <= Full THEN s.tokens + a ELSE Full
    BY DEF Refilled, Full
  <1> HIDE DEF a
  <1>4. Refilled(s, t) \in Int /\ Refilled(s, t) <= Full
    BY <1>1, <1>2, <1>3, Sizes
  <1> QED
    BY <1>2, <1>3, <1>4 DEF a

(* Spending at time l leaves no more at any later time than spending       *)
(* nothing: refilling in two steps or in one is the same.                  *)
LEMMA SpendingLowers ==
    ASSUME NEW s \in Snapshot, NEW u \in Snapshot, NEW cost \in Nat,
           s.last <= u.last, u.tokens = Refilled(s, u.last) - cost,
           NEW t \in Nat, u.last <= t
    PROVE  Refilled(u, t) <= Refilled(s, t)
  <1> DEFINE a == Rate * (u.last - s.last)
             b == Rate * (t - u.last)
             c == Rate * (t - s.last)
  <1>1. u.last \in Nat /\ s.last \in Nat /\ s.tokens \in Int /\ u.tokens \in Int
        /\ s.last <= t
    BY SnapshotParts
  <1>2. a \in Nat /\ b \in Nat /\ c \in Nat
    BY <1>1, RefillIs
  <1>3. c = a + b
    BY <1>1, Sizes
  <1>4. Refilled(s, u.last) = IF s.tokens + a <= Full THEN s.tokens + a ELSE Full
    BY <1>1, RefillIs
  <1>5. Refilled(u, t) = IF u.tokens + b <= Full THEN u.tokens + b ELSE Full
    BY RefillIs
  <1>6. Refilled(s, t) = IF s.tokens + c <= Full THEN s.tokens + c ELSE Full
    BY RefillIs
  <1> HIDE DEF a, b, c
  <1> QED
    BY <1>1, <1>2, <1>3, <1>4, <1>5, <1>6, Sizes

--------------------------------------------------------------------------------
(* What the invariant says of the port and of the snapshots                *)
LEMMA Ranges ==
    ASSUME IInv
    PROVE  /\ PortTypeOK(Labels)
           /\ state \in Snapshot /\ state.last \in Nat /\ state.last <= clock
           /\ clock \in Time /\ clock \in Nat
           /\ \A p \in Procs : /\ inv[p] \in Nat
                               /\ pc[p] \in Resting \cup Labels
  BY Sizes, SnapshotParts DEF IInv, TypeOK, PortTypeOK, Labels

LEMMA HeldParts ==
    ASSUME IInv, NEW p \in Procs, Holding(p)
    PROVE  /\ old[p] \in Snapshot /\ old[p] # Nil /\ Loaded(p)
           /\ arg[p] \in Nat \ {0} /\ arg[p] \in Batches
           /\ arg[p] * Unit \in Nat /\ AdmitEpsilon(arg[p]) \in Nat
  <1>1. old[p] \in Snapshot /\ Loaded(p)
    BY DEF IInv, TypeOK, Holding, CallOK
  <1>2. arg[p] \in Nat \ {0} /\ arg[p] \in Batches
    BY Ranges, ArgPositive DEF Holding, Resting
  <1> QED
    BY <1>1, <1>2, Sizes, Product DEF AdmitEpsilon

LEMMA SwappingParts ==
    ASSUME IInv, NEW p \in Procs, pc[p] = "swapping"
    PROVE  /\ Holding(p) /\ next[p] \in Snapshot /\ next[p] # Nil
           /\ Derived(p) /\ Fresh(p)
  BY Sizes DEF IInv, TypeOK, Holding, CallOK

LEMMA InitIInv == Init => IInv
  <1> SUFFICES ASSUME Init PROVE IInv
    OBVIOUS
  <1>1. PortTypeOK(Labels)
    BY InitType DEF Init
  <1>2. PICK a \in Addr : state = [addr |-> a, tokens |-> Full,
                                   last |-> 0, admitted |-> 0]
    BY DEF Init, Full
  <1>3. state \in Snapshot
    BY <1>2, Sizes DEF Snapshot
  <1>4. \A p \in Procs : pc[p] = "ready" /\ old[p] = Nil /\ next[p] = Nil
    BY DEF Init, PortInit
  <1>5. TypeOK
    <2>1. /\ old  \in [Procs -> Snapshot \cup {Nil}]
          /\ next \in [Procs -> Snapshot \cup {Nil}]
      BY DEF Init
    <2> QED
      BY <1>1, <1>3, <1>4, <2>1 DEF TypeOK, Labels
  <1>6. state.last <= clock /\ state.admitted = since[0]
    BY <1>2, Sizes DEF Init, PortInit
  <1>7. \A p \in Procs : CallOK(p)
    BY <1>4 DEF CallOK, Holding
  <1> QED
    BY <1>5, <1>6, <1>7 DEF IInv

(* A caller whose own variables stay put, while the published snapshot     *)
(* does, keeps what it knows.                                              *)
LEMMA Kept ==
    ASSUME IInv, NEW q \in Procs, state' = state,
           pc'[q] = pc[q], arg'[q] = arg[q], inv'[q] = inv[q],
           old'[q] = old[q], next'[q] = next[q],
           NEW c \in Int, clock' = c, clock <= c
    PROVE  /\ Holding(q)' => Loaded(q)'
           /\ pc'[q] = "swapping" => Derived(q)'
  <1>1. Holding(q)' = Holding(q) /\ Loaded(q)' = Loaded(q)
    BY DEF Holding, Loaded, Refilled
  <1>2. ASSUME pc[q] = "swapping" PROVE Derived(q)'
    <2>1. next[q].last \in Nat /\ next[q].last <= clock
      BY <1>2, SwappingParts, SnapshotParts DEF Derived
    <2>2. next[q].last <= c
      BY <2>1, Ranges
    <2> QED
      BY <1>2, <2>2, SwappingParts DEF Derived, Refilled, AdmitEpsilon
  <1> QED
    BY <1>1, <1>2 DEF IInv, CallOK

(* The addresses of the snapshots not yet installed stay unknown as long   *)
(* as no new snapshot is made and nobody learns another address.           *)
LEMMA StillFresh ==
    ASSUME IInv, state' = state, NEW q \in Procs, pc[q] = "swapping",
           next'[q] = next[q],
           \A r \in Procs : Holding(r)' => \/ old'[r] = state
                                           \/ Holding(r) /\ old'[r] = old[r],
           \A r \in Procs : pc'[r] = "swapping" =>
                                pc[r] = "swapping" /\ next'[r] = next[r]
    PROVE  Fresh(q)'
  BY SwappingParts DEF Fresh

(* Steps outside a call                                                    *)
LEMMA PortStepIInv ==
    ASSUME IInv, UNCHANGED bucketVars,
           \/ Tick
           \/ \E p \in Procs : Call(p, "loading") \/ CallNothing(p)
    PROVE  IInv'
  <1>1. PortTypeOK(Labels)'
    BY Ranges, TickType, CallType, CallNothingType DEF Labels
  <1>2. PICK c \in Nat : clock' = c /\ clock <= c
    BY Ranges DEF Tick, Call, CallNothing
  <1>3. since' = since
    BY DEF Tick, Call, CallNothing
  <1>4. \A q \in Procs :
          \/ pc'[q] = pc[q] /\ arg'[q] = arg[q] /\ inv'[q] = inv[q]
          \/ pc[q] \in Resting /\ pc'[q] \in Resting \cup {"loading"}
    BY Ranges DEF Tick, Call, CallNothing, PortTypeOK, Resting
  <1>5. TypeOK'
    <2>1. \A q \in Procs : \/ pc'[q] = pc[q]
                           \/ pc[q] \notin {"deciding", "swapping"}
                              /\ pc'[q] \notin {"deciding", "swapping"}
      BY <1>4 DEF Resting
    <2> QED
      BY <1>1, <2>1 DEF IInv, TypeOK, bucketVars, Labels, Snapshot
  <1>6. (state.last <= clock)'
    BY <1>2, Ranges DEF bucketVars
  <1>7. ASSUME NEW q \in Procs PROVE CallOK(q)'
    <2>1. CASE pc'[q] = pc[q] /\ arg'[q] = arg[q] /\ inv'[q] = inv[q]
      <3>1. (Holding(q)' => Loaded(q)') /\ (pc'[q] = "swapping" => Derived(q)')
        BY <1>2, <2>1, Kept DEF bucketVars
      <3>2. \A r \in Procs : /\ Holding(r)' => Holding(r)
                             /\ pc'[r] = "swapping" => pc[r] = "swapping"
        BY <1>4 DEF Holding, Resting
      <3>3. pc'[q] = "swapping" => Fresh(q)'
        BY <2>1, <3>2, StillFresh DEF bucketVars
      <3> QED
        BY <3>1, <3>3 DEF CallOK
    <2>2. CASE pc'[q] \in Resting \cup {"loading"}
      BY <2>2 DEF CallOK, Holding, Resting
    <2> QED
      BY <1>4, <2>1, <2>2
  <1> QED
    BY <1>3, <1>5, <1>6, <1>7 DEF IInv, bucketVars

--------------------------------------------------------------------------------
(* Who holds a pointer to what, as TypeOK has it                           *)
SnapshotsTyped ==
    /\ old  \in [Procs -> Snapshot \cup {Nil}]
    /\ next \in [Procs -> Snapshot \cup {Nil}]
    /\ \A p \in Procs : /\ old[p]  # Nil <=> Holding(p)
                        /\ next[p] # Nil <=> pc[p] = "swapping"

(* A step of p that leaves the published snapshot alone keeps the          *)
(* invariant if it keeps the types and what p knows, and no other caller   *)
(* learns of it.                                                           *)
LEMMA OwnStep ==
    ASSUME IInv, NEW p \in Procs, UNCHANGED <<clock, since, state>>,
           PortTypeOK(Labels)', SnapshotsTyped',
           \A q \in Procs \ {p} : /\ pc'[q] = pc[q] /\ arg'[q] = arg[q]
                                   /\ inv'[q] = inv[q]
                                   /\ old'[q] = old[q] /\ next'[q] = next[q],
           CallOK(p)',
           \A q \in Procs \ {p} : pc[q] = "swapping" => Fresh(q)'
    PROVE  IInv'
  <1>1. TypeOK'
    BY Ranges DEF TypeOK, Labels, SnapshotsTyped, Holding, Snapshot
  <1>2. ASSUME NEW q \in Procs, q # p PROVE CallOK(q)'
    <2>1. clock \in Int /\ clock' = clock /\ clock <= clock
      BY Ranges
    <2>2. (Holding(q)' => Loaded(q)') /\ (pc'[q] = "swapping" => Derived(q)')
      BY <1>2, <2>1, Kept
    <2> QED
      BY <1>2, <2>2 DEF CallOK
  <1> QED
    BY <1>1, <1>2 DEF IInv

LEMMA Typed == IInv => SnapshotsTyped /\ pc \in [Procs -> Resting \cup Labels]
  BY Ranges DEF IInv, TypeOK, SnapshotsTyped, Holding, PortTypeOK

LEMMA LoadIInv ==
    ASSUME IInv, NEW p \in Procs, Load(p)
    PROVE  IInv'
  <1>1. /\ pc[p] = "loading" /\ pc' = [pc EXCEPT ![p] = "deciding"]
        /\ old' = [old EXCEPT ![p] = state]
        /\ UNCHANGED <<clock, arg, inv, since, state, next>>
    BY DEF Load
  <1>2. /\ \A q \in Procs \ {p} : pc'[q] = pc[q] /\ old'[q] = old[q]
        /\ pc'[p] = "deciding" /\ old'[p] = state
    BY <1>1, Typed DEF SnapshotsTyped
  <1>3. PortTypeOK(Labels)'
    BY <1>1, Ranges, StepType DEF Labels, Resting
  <1>4. SnapshotsTyped'
    BY <1>1, <1>2, Typed, Ranges, Sizes DEF SnapshotsTyped, Holding, Snapshot
  <1>5. CallOK(p)'
    <2>1. \A t \in Nat : Refilled(state, t) <= Refilled(state, t)
      BY Ranges, RefillIs
    <2>2. Loaded(p)'
      BY <1>1, <1>2, <2>1, Ranges DEF Loaded, Refilled
    <2> QED
      BY <1>2, <2>2 DEF CallOK
  <1>6. ASSUME NEW q \in Procs, q # p, pc[q] = "swapping" PROVE Fresh(q)'
    BY <1>1, <1>2, <1>6, StillFresh DEF Holding
  <1> QED
    BY <1>1, <1>2, <1>3, <1>4, <1>5, <1>6, OwnStep

LEMMA PrepareIInv ==
    ASSUME IInv, NEW p \in Procs, Prepare(p)
    PROVE  IInv'
  <1>1. PICK a \in Addr :
        /\ Free(a)
        /\ next' = [next EXCEPT ![p] =
                      [addr     |-> a,
                       tokens   |-> Refilled(old[p], clock) - arg[p] * Unit,
                       last     |-> clock,
                       admitted |-> old[p].admitted + arg[p]]]
    BY DEF Prepare, Reading
  <1>2. /\ pc[p] = "deciding" /\ pc' = [pc EXCEPT ![p] = "swapping"]
        /\ Enough(p)
        /\ UNCHANGED <<clock, arg, inv, since, state, old>>
    BY DEF Prepare
  <1> DEFINE new == [addr     |-> a,
                     tokens   |-> Refilled(old[p], clock) - arg[p] * Unit,
                     last     |-> clock,
                     admitted |-> old[p].admitted + arg[p]]
  <1>3. /\ \A q \in Procs \ {p} : pc'[q] = pc[q] /\ next'[q] = next[q]
        /\ pc'[p] = "swapping" /\ next'[p] = new
    BY <1>1, <1>2, Typed DEF SnapshotsTyped
  <1>4. Holding(p)
    BY <1>2 DEF Holding
  <1>5. new \in Snapshot /\ new # Nil
    <2>1. Refilled(old[p], clock) \in Int /\ arg[p] * Unit \in Int
      BY <1>4, HeldParts, Ranges, RefillIs
    <2>2. old[p].admitted + arg[p] \in Nat
      BY <1>4, HeldParts, SnapshotParts
    <2>3. Refilled(old[p], clock) - arg[p] * Unit \in Int
      BY <2>1
    <2> QED
      BY <2>2, <2>3, Ranges, Sizes DEF Snapshot
  <1>6. PortTypeOK(Labels)'
    BY <1>2, Ranges, StepType DEF Labels, Resting
  <1>7. SnapshotsTyped'
    BY <1>1, <1>2, <1>3, <1>5, Typed DEF SnapshotsTyped, Holding, Snapshot
  <1>8. Derived(p)'
    <2>1. old[p].last <= clock /\ inv[p] <= clock /\ clock <= clock
      <3>1. old[p].last \in Nat /\ old[p].last <= state.last
        BY <1>4, HeldParts, SnapshotParts DEF Loaded
      <3>2. inv[p] <= clock
        BY Ranges DEF PortTypeOK
      <3> QED
        BY <3>1, <3>2, Ranges
    <2>2. Refilled(old[p], clock) + AdmitEpsilon(arg[p]) >= arg[p] * Unit
      BY <1>2 DEF Enough, Reading
    <2> QED
      BY <1>2, <1>3, <2>1, <2>2 DEF Derived, Refilled, AdmitEpsilon
  <1>9. Loaded(p)'
    BY <1>2, <1>4, HeldParts DEF Loaded, Refilled
  <1>10. \A q \in Procs : /\ Holding(q) => old[q].addr # a
                          /\ pc[q] = "swapping" => next[q].addr # a
    BY <1>1, HeldParts, SwappingParts DEF Free
  <1>11. \A q \in Procs : Holding(q)' <=> Holding(q)
    BY <1>2, <1>3 DEF Holding
  <1>12. Fresh(p)'
    BY <1>1, <1>2, <1>3, <1>10, <1>11 DEF Fresh, Free
  <1>13. ASSUME NEW q \in Procs, q # p, pc[q] = "swapping" PROVE Fresh(q)'
    <2>1. Fresh(q) /\ next'[q] = next[q] /\ next[q].addr # a
      BY <1>3, <1>10, <1>13, SwappingParts
    <2>2. \A r \in Procs \ {q} : pc'[r] = "swapping" => next'[r].addr # next[q].addr
      BY <1>3, <1>13, <2>1 DEF Fresh
    <2> QED
      BY <1>2, <1>11, <2>1, <2>2 DEF Fresh
  <1> QED
    BY <1>2, <1>3, <1>6, <1>7, <1>8, <1>9, <1>12, <1>13, OwnStep DEF CallOK

(* A call that leaves the loop, or goes back to its beginning, forgets     *)
(* what it held.                                                           *)
LEMMA Forgets ==
    ASSUME IInv, NEW p \in Procs, UNCHANGED <<clock, since, state>>,
           PortTypeOK(Labels)',
           NEW label \in Resting \cup {"loading"}, pc' = [pc EXCEPT ![p] = label],
           \A q \in Procs \ {p} : arg'[q] = arg[q] /\ inv'[q] = inv[q],
           old' = [old EXCEPT ![p] = Nil],
           IF pc[p] = "swapping" THEN next' = [next EXCEPT ![p] = Nil]
                                 ELSE next' = next
    PROVE  IInv'
  <1>1. /\ \A q \in Procs \ {p} : /\ pc'[q] = pc[q] /\ old'[q] = old[q]
                                  /\ next'[q] = next[q]
        /\ pc'[p] = label /\ old'[p] = Nil /\ next'[p] = Nil
    BY Typed DEF SnapshotsTyped
  <1>2. ~Holding(p)' /\ pc'[p] # "swapping"
    BY <1>1 DEF Holding, Resting
  <1>3. SnapshotsTyped'
    <2>1. old' \in [Procs -> Snapshot \cup {Nil}] /\ next' \in [Procs -> Snapshot \cup {Nil}]
      BY Typed DEF SnapshotsTyped
    <2>2. \A q \in Procs : (old'[q] # Nil <=> Holding(q)')
                           /\ (next'[q] # Nil <=> pc'[q] = "swapping")
      BY <1>1, <1>2, Typed DEF SnapshotsTyped, Holding
    <2> QED
      BY <2>1, <2>2 DEF SnapshotsTyped, Snapshot
  <1>4. ASSUME NEW q \in Procs, q # p, pc[q] = "swapping" PROVE Fresh(q)'
    BY <1>1, <1>2, <1>4, StillFresh DEF Holding
  <1> QED
    BY <1>1, <1>2, <1>3, <1>4, OwnStep DEF CallOK

LEMMA DenyIInv ==
    ASSUME IInv, NEW p \in Procs, Deny(p)
    PROVE  IInv'
  <1>1. PortTypeOK(Labels)'
    BY Ranges, RefuseType DEF Deny
  <1>2. \A q \in Procs \ {p} : arg'[q] = arg[q] /\ inv'[q] = inv[q]
    BY Ranges DEF Deny, Refuse, Finish, PortTypeOK
  <1> QED
    BY <1>1, <1>2, Forgets DEF Deny, Refuse, Finish, Resting

LEMMA RetryIInv ==
    ASSUME IInv, NEW p \in Procs, Retry(p)
    PROVE  IInv'
  <1>1. PortTypeOK(Labels)'
    BY Ranges, StepType DEF Retry, Labels, Resting
  <1> QED
    BY <1>1, Forgets DEF Retry, Resting

(* A swap installs what was derived from the published snapshot, which is  *)
(* the one it loaded.                                                      *)
LEMMA SwapFinds ==
    ASSUME IInv, NEW p \in Procs, Swap(p)
    PROVE  /\ Holding(p) /\ pc[p] = "swapping" /\ old[p] = state
           /\ Derived(p) /\ Fresh(p)
           /\ next[p] \in Snapshot /\ next[p].last \in Nat
           /\ state.last <= next[p].last /\ next[p].last <= clock
  <1>1. pc[p] = "swapping" /\ state.addr = old[p].addr
    BY DEF Swap
  <1>2. Holding(p) /\ Derived(p) /\ Fresh(p) /\ next[p] \in Snapshot
    BY <1>1, SwappingParts
  <1>3. old[p] = state
    BY <1>1, <1>2, HeldParts DEF Loaded
  <1>4. state.last <= next[p].last /\ next[p].last <= clock
    BY <1>2, <1>3 DEF Derived
  <1> QED
    BY <1>1, <1>2, <1>3, <1>4, SnapshotParts

(* What another caller holds is outdated by a swap, and still does not     *)
(* understate the bucket.                                                  *)
LEMMA SwapKeepsLoaded ==
    ASSUME IInv, NEW p \in Procs, Swap(p), NEW q \in Procs, Holding(q)
    PROVE  /\ old[q].addr # next[p].addr /\ old[q].admitted < next[p].admitted
           /\ old[q].last <= next[p].last
           /\ \A t \in Nat : next[p].last <= t => Refilled(next[p], t) <= Refilled(old[q], t)
  <1>1. old[q].addr # next[p].addr
    BY SwapFinds DEF Fresh
  <1>2. old[q] \in Snapshot /\ Loaded(q) /\ state \in Snapshot
    BY HeldParts, Ranges
  <1>3. old[q].admitted <= state.admitted
    BY <1>2, SnapshotParts DEF Loaded
  <1>4. next[p].admitted = state.admitted + arg[p] /\ arg[p] \in Nat \ {0}
    BY SwapFinds, HeldParts DEF Derived
  <1>5. old[q].admitted < next[p].admitted
    BY <1>2, <1>3, <1>4, SnapshotParts
  <1>6. old[q].last <= state.last /\ state.last <= next[p].last
    BY <1>2, SwapFinds DEF Loaded
  <1>7. old[q].last <= next[p].last
    BY <1>2, <1>6, SwapFinds, SnapshotParts
  <1>8. ASSUME NEW t \in Nat, next[p].last <= t
        PROVE  Refilled(next[p], t) <= Refilled(old[q], t)
    <2>1. state.last <= t
      BY <1>2, <1>6, <1>8, SwapFinds, SnapshotParts
    <2>2. Refilled(state, t) <= Refilled(old[q], t)
      BY <1>2, <2>1 DEF Loaded
    <2>3. next[p].tokens = Refilled(state, next[p].last) - arg[p] * Unit
          /\ arg[p] * Unit \in Nat
      BY SwapFinds, HeldParts DEF Derived
    <2>4. Refilled(next[p], t) <= Refilled(state, t)
      BY <1>2, <1>8, <2>3, SwapFinds, SpendingLowers
    <2>5. /\ Refilled(next[p], t) \in Int /\ Refilled(state, t) \in Int
          /\ Refilled(old[q], t) \in Int
      BY <1>2, SwapFinds, RefillIs
    <2> QED
      BY <2>2, <2>4, <2>5
  <1> QED
    BY <1>1, <1>5, <1>7, <1>8

LEMMA SwapIInv ==
    ASSUME IInv, NEW p \in Procs, Swap(p)
    PROVE  IInv'
  <1>1. /\ state' = next[p] /\ Grant(p, next[p].last) /\ clock' = clock
        /\ pc' = [pc EXCEPT ![p] = "allowed"]
        /\ old' = [old EXCEPT ![p] = Nil] /\ next' = [next EXCEPT ![p] = Nil]
    BY DEF Swap, Grant, Finish
  <1>2. /\ \A q \in Procs \ {p} : /\ pc'[q] = pc[q] /\ old'[q] = old[q]
                                  /\ next'[q] = next[q]
                                  /\ arg'[q] = arg[q] /\ inv'[q] = inv[q]
        /\ pc'[p] = "allowed" /\ old'[p] = Nil /\ next'[p] = Nil
    BY <1>1, Typed, Ranges DEF SnapshotsTyped, Grant, Finish, PortTypeOK
  <1>3. PortTypeOK(Labels)'
    BY <1>1, Ranges, SwapFinds, GrantType DEF Resting
  <1>4. TypeOK'
    <2>1. SnapshotsTyped'
      <3>1. old' \in [Procs -> Snapshot \cup {Nil}] /\ next' \in [Procs -> Snapshot \cup {Nil}]
        BY <1>1, Typed DEF SnapshotsTyped
      <3>2. \A q \in Procs : (old'[q] # Nil <=> Holding(q)')
                             /\ (next'[q] # Nil <=> pc'[q] = "swapping")
        BY <1>2, Typed DEF SnapshotsTyped, Holding
      <3> QED
        BY <3>1, <3>2 DEF SnapshotsTyped, Snapshot
    <2> QED
      BY <1>1, <1>3, <2>1, SwapFinds DEF TypeOK, Labels, SnapshotsTyped, Holding, Snapshot
  <1>5. (state.last <= clock)'
    BY <1>1, SwapFinds
  <1>6. (state.admitted = since[0])'
    <2>1. next[p].admitted = state.admitted + arg[p] /\ 0 <= next[p].last
      BY SwapFinds DEF Derived
    <2>2. since'[0] = since[0] + arg[p]
      BY <1>1, <2>1, Sizes DEF Grant
    <2> QED
      BY <1>1, <2>1, <2>2 DEF IInv
  <1>7. \A q \in Procs : Holding(q)' => q # p /\ Holding(q) /\ old'[q] = old[q]
    BY <1>2 DEF Holding
  <1>8. ASSUME NEW q \in Procs, Holding(q)' PROVE Loaded(q)'
    <2>1. q # p /\ Holding(q) /\ old'[q] = old[q]
      BY <1>7, <1>8
    <2> QED
      BY <1>1, <2>1, SwapKeepsLoaded DEF Loaded, Refilled
  <1>9. ASSUME NEW q \in Procs, pc'[q] = "swapping" PROVE Derived(q)' /\ Fresh(q)'
    <2>1. q # p /\ pc[q] = "swapping" /\ Derived(q) /\ Fresh(q)
          /\ old'[q] = old[q] /\ next'[q] = next[q]
          /\ arg'[q] = arg[q] /\ inv'[q] = inv[q]
      BY <1>2, <1>9, SwappingParts
    <2>2. Derived(q)'
      BY <1>1, <2>1 DEF Derived, Refilled, AdmitEpsilon
    <2>3. next[q].addr # next[p].addr
      BY <2>1, SwapFinds DEF Fresh
    <2>4. \A r \in Procs \ {q} : pc'[r] = "swapping" => next'[r].addr # next[q].addr
      BY <1>2, <2>1 DEF Fresh
    <2> QED
      BY <1>1, <1>7, <2>1, <2>2, <2>3, <2>4 DEF Fresh
  <1> QED
    BY <1>4, <1>5, <1>6, <1>8, <1>9 DEF IInv, CallOK

LEMMA NextIInv == IInv /\ [Next]_vars => IInv'
  <1> SUFFICES ASSUME IInv, [Next]_vars PROVE IInv'
    OBVIOUS
  <1>1. CASE Next
    BY <1>1, PortStepIInv, LoadIInv, PrepareIInv, DenyIInv, SwapIInv, RetryIInv
       DEF Next, Step, Advance, Enter, EnterNothing
  <1>2. CASE UNCHANGED vars
    <2>1. PortTypeOK(Labels)' /\ SnapshotsTyped'
      BY <1>2, Ranges, Typed DEF vars, PortTypeOK, SnapshotsTyped, Holding, Snapshot
    <2>2. TypeOK'
      BY <1>2, <2>1, Ranges DEF vars, TypeOK, Labels, SnapshotsTyped, Holding, Snapshot
    <2>3. \A q \in Procs : CallOK(q)'
      BY <1>2 DEF vars, IInv, CallOK, Holding, Loaded, Derived, Fresh, Refilled, AdmitEpsilon
    <2> QED
      BY <1>2, <2>2, <2>3 DEF vars, IInv
  <1> QED
    BY <1>1, <1>2

(* The inductive invariant holds throughout.                               *)
THEOREM InductiveInvariant == Spec => []IInv
  BY InitIInv, NextIInv, PTL DEF Spec

(* Types, and who holds a pointer to a snapshot at which step of the loop. *)
THEOREM TypeCorrect == Spec => []TypeOK
  <1>1. IInv => TypeOK
    BY DEF IInv
  <1> QED
    BY <1>1, InductiveInvariant, PTL

(* Whatever addresses are reused, a swap that finds the address it loaded  *)
(* finds the snapshot it loaded (lockfree_tokenbucket.go:34-36).           *)
THEOREM AddressesIdentify == Spec => []NoABA
  <1>1. IInv => NoABA
    BY HeldParts DEF NoABA, Loaded, Holding
  <1> QED
    BY <1>1, InductiveInvariant, PTL

(* Whoever loses a swap lost it to an admission since its load             *)
(* (lockfree_tokenbucket.go:107-109).                                      *)
THEOREM LockFreedom == Spec => []LostSwapMeansProgress
  <1>1. IInv => LostSwapMeansProgress
    BY HeldParts DEF LostSwapMeansProgress, Loaded, Holding, IInv
  <1> QED
    BY <1>1, InductiveInvariant, PTL

(* No snapshot in use understates the bucket, however stale it is          *)
(* (lockfree_tokenbucket.go:97-103).                                       *)
THEOREM StaleIsSound == Spec => []StaleOverestimates
  <1>1. ASSUME IInv, NEW p \in Procs, Holding(p)
        PROVE  Refilled(old[p], clock) >= Refilled(state, clock)
    <2>1. Refilled(state, clock) <= Refilled(old[p], clock)
      BY <1>1, HeldParts, Ranges DEF Loaded
    <2>2. Refilled(state, clock) \in Int /\ Refilled(old[p], clock) \in Int
      BY <1>1, HeldParts, Ranges, RefillIs
    <2> QED
      BY <2>1, <2>2
  <1>2. IInv => StaleOverestimates
    BY <1>1 DEF StaleOverestimates, Holding
  <1> QED
    BY <1>2, InductiveInvariant, PTL

--------------------------------------------------------------------------------
(***************************************************************************)
(* The refinement.  Loading, deciding to swap and losing a swap are        *)
(* stutters.  A swap is the contract's admission at the time in the        *)
(* snapshot, a denial the contract's at the reading, with the accrual left *)
(* for later.                                                              *)
(***************************************************************************)

(* The program counters of the contract                                    *)
Mapped == [p \in Procs |-> IF pc[p] \in Resting THEN pc[p] ELSE "busy"]

LEMMA InitMaps == Init => Contract!Init
  <1> SUFFICES ASSUME Init PROVE Contract!Init
    OBVIOUS
  <1>1. Mapped = [p \in Procs |-> "ready"]
    BY DEF Mapped, Init, PortInit, Resting
  <1>2. state.tokens = Capacity * Unit /\ state.last = 0
    BY DEF Init
  <1> QED
    BY <1>1, <1>2 DEF Init, PortInit, Contract!Init, Contract!PortInit,
       Mapped, Contract!Time, Time

(* What happens outside a call                                             *)
LEMMA PortStepMaps ==
    ASSUME IInv, \/ Advance
                 \/ \E p \in Procs : Enter(p) \/ EnterNothing(p)
    PROVE  Contract!Next
  <1>1. CASE Advance
    BY <1>1 DEF Advance, Tick, bucketVars, Contract!Next, Contract!Advance, Contract!Tick
  <1>2. ASSUME NEW p \in Procs, Enter(p) PROVE Contract!Next
    <2>1. Mapped' = [Mapped EXCEPT ![p] = "busy"] /\ Mapped[p] \in Resting
      BY <1>2, Typed DEF Enter, Call, Mapped, Resting
    <2>2. Contract!Begin(p)
      BY <1>2, <2>1 DEF Enter, Call, Mapped, bucketVars, Contract!Begin, Contract!Call,
         Contract!Resting, Resting
    <2> QED
      BY <2>2 DEF Contract!Next
  <1>3. ASSUME NEW p \in Procs, EnterNothing(p) PROVE Contract!Next
    <2>1. Mapped' = [Mapped EXCEPT ![p] = "allowed"] /\ Mapped[p] \in Resting
      BY <1>3, Typed DEF EnterNothing, CallNothing, Mapped, Resting
    <2>2. Contract!Skip(p)
      BY <1>3, <2>1 DEF EnterNothing, CallNothing, Mapped, bucketVars, Contract!Skip,
         Contract!CallNothing, Contract!Resting, Resting
    <2> QED
      BY <2>2 DEF Contract!Next
  <1> QED
    BY <1>1, <1>2, <1>3

(* Steps within the loop that decide nothing                               *)
LEMMA LoopMaps ==
    ASSUME IInv, NEW p \in Procs, Load(p) \/ Prepare(p) \/ Retry(p)
    PROVE  UNCHANGED Contract!vars
  <1>1. Mapped' = Mapped
    BY Typed DEF Load, Prepare, Retry, Mapped, Resting
  <1> QED
    BY <1>1 DEF Load, Prepare, Retry, Mapped, Contract!vars

(* A call that holds a snapshot is busy, and the contract's credit is what *)
(* the published snapshot refills to.                                      *)
LEMMA HolderMaps ==
    ASSUME IInv, NEW p \in Procs, Holding(p), NEW t \in Nat
    PROVE  /\ Mapped[p] = "busy"
           /\ Refilled(state, t) = Contract!CreditAt(t)
           /\ Contract!Fits(arg[p], t)
                <=> Refilled(state, t) + AdmitEpsilon(arg[p]) >= arg[p] * Unit
  <1>1. Mapped[p] = "busy"
    BY DEF Mapped, Holding, Resting
  <1>2. Refilled(state, t) = Contract!CreditAt(t)
    BY DEF Refilled, Contract!CreditAt
  <1>3. [n \in Batches |-> AdmitEpsilon(n)][arg[p]] = AdmitEpsilon(arg[p])
    BY HeldParts
  <1> QED
    BY <1>1, <1>2, <1>3 DEF Contract!Fits

(* A call that returns rests in the contract too.                          *)
LEMMA FinishMaps ==
    ASSUME IInv, NEW p \in Procs, NEW verdict \in Resting, Finish(p, verdict)
    PROVE  Contract!Finish(p, verdict)
  <1>1. Mapped' = [Mapped EXCEPT ![p] = verdict]
    BY Typed DEF Finish, Mapped
  <1> QED
    BY <1>1 DEF Finish, Mapped, Contract!Finish

LEMMA SwapMaps ==
    ASSUME IInv, NEW p \in Procs, Swap(p)
    PROVE  Contract!Admit(p)
  <1> DEFINE t == next[p].last
  <1>1. Grant(p, t) /\ state' = next[p]
    BY DEF Swap
  <1>2. Contract!Finish(p, "allowed")
    BY <1>1, FinishMaps DEF Grant, Resting
  <1>3. Contract!Grant(p, t)
    BY <1>1, <1>2 DEF Grant, Contract!Grant, Time, Contract!Time
  <1>4. t \in Nat /\ state.last <= t /\ inv[p] <= t /\ t <= clock
    BY SwapFinds DEF Derived
  <1>5. t \in Contract!Moments(p)
    <2>1. t \in inv[p]..clock
      BY <1>4, Ranges
    <2> QED
      BY <1>4, <2>1 DEF Contract!Moments
  <1>6. next[p].tokens = Refilled(state, t) - arg[p] * Unit
        /\ Refilled(state, t) + AdmitEpsilon(arg[p]) >= arg[p] * Unit
    BY SwapFinds DEF Derived
  <1>7. Contract!Fits(arg[p], t) /\ Mapped[p] = "busy"
        /\ Refilled(state, t) = Contract!CreditAt(t)
    BY <1>4, <1>6, SwapFinds, HolderMaps
  <1>8. Contract!Settle(t, arg[p] * Unit)
    <2>1. ~(t < state.last)
      BY <1>4, Ranges
    <2> QED
      BY <1>1, <1>6, <1>7, <2>1 DEF Contract!Settle
  <1> QED
    BY <1>3, <1>5, <1>7, <1>8 DEF Contract!Admit, Mapped

(* A denial on a stale snapshot is one on the published snapshot, at the   *)
(* reading.                                                                *)
LEMMA DenyMaps ==
    ASSUME IInv, NEW p \in Procs, Deny(p)
    PROVE  Contract!Deny(p)
  <1>1. Holding(p) /\ ~Enough(p) /\ Refuse(p) /\ UNCHANGED state
    BY DEF Deny, Holding
  <1>2. Contract!Refuse(p)
    BY <1>1, FinishMaps DEF Refuse, Contract!Refuse, Resting
  <1>3. clock \in Contract!Moments(p)
    <2>1. clock \in inv[p]..clock /\ state.last <= clock
      BY Ranges DEF PortTypeOK
    <2> QED
      BY <2>1 DEF Contract!Moments
  <1>4. ~(Refilled(state, clock) + AdmitEpsilon(arg[p]) >= arg[p] * Unit)
    <2>1. Refilled(state, clock) <= Refilled(old[p], clock)
      BY <1>1, HeldParts, Ranges DEF Loaded
    <2>2. /\ Refilled(state, clock) \in Int /\ Refilled(old[p], clock) \in Int
          /\ AdmitEpsilon(arg[p]) \in Int /\ arg[p] * Unit \in Int
      BY <1>1, HeldParts, Ranges, RefillIs
    <2>3. ~(Refilled(old[p], clock) + AdmitEpsilon(arg[p]) >= arg[p] * Unit)
      BY <1>1 DEF Enough, Reading
    <2> DEFINE cost == arg[p] * Unit
    <2> HIDE DEF cost
    <2>4. ~(Refilled(state, clock) + AdmitEpsilon(arg[p]) >= cost)
      BY <2>1, <2>2, <2>3 DEF cost
    <2> QED
      BY <2>4 DEF cost
  <1>5. ~Contract!Fits(arg[p], clock) /\ Mapped[p] = "busy"
    BY <1>1, <1>4, HolderMaps, Ranges
  <1> QED
    BY <1>1, <1>2, <1>3, <1>5 DEF Contract!Deny, Mapped

LEMMA NextMaps == IInv /\ [Next]_vars => [Contract!Next]_(Contract!vars)
  <1> SUFFICES ASSUME IInv, [Next]_vars PROVE [Contract!Next]_(Contract!vars)
    OBVIOUS
  <1>1. ASSUME NEW p \in Procs, Swap(p) \/ Deny(p) PROVE Contract!Next
    BY <1>1, SwapMaps, DenyMaps DEF Contract!Next
  <1>2. CASE UNCHANGED vars
    BY <1>2 DEF vars, Contract!vars
  <1> QED
    BY <1>1, <1>2, PortStepMaps, LoopMaps DEF Next, Step

(* The bucket implements the strict contract: every verdict is the exact   *)
(* answer at a time of its call, never before the last admission, whatever *)
(* was swapped in meanwhile (lockfree_tokenbucket.go, AllowN).             *)
THEOREM LockFreeImplementsContract == Spec => ImplementsContract
  BY InitMaps, NextMaps, InductiveInvariant, PTL
     DEF Spec, ImplementsContract, Contract!Spec

--------------------------------------------------------------------------------
(* The contract's theorems, about the contract of this bucket              *)
Proved == INSTANCE TokenBucketContractProofs WITH
    pc         <- [p \in Procs |-> IF pc[p] \in Resting THEN pc[p] ELSE "busy"],
    credit     <- state.tokens,
    last       <- state.last,
    CapQ       <- Capacity * Unit,
    Slack      <- [n \in Batches |-> AdmitEpsilon(n)],
    MaxSlack   <- Eps * MaxBatch,
    Backdating <- FALSE

LEMMA SlackGrows ==
    ASSUME NEW n \in Batches, n > 0
    PROVE  AdmitEpsilon(n) \in 0..Eps * MaxBatch
  <1>1. n \in Nat /\ MaxBatch - n \in Nat /\ Eps \in Nat /\ MaxBatch \in Nat
    BY LockFreeAssumption, BatchInteger
  <1>2. Eps * n \in Nat /\ Eps * (MaxBatch - n) \in Nat
    BY <1>1, Product
  <1>3. Eps * MaxBatch = Eps * n + Eps * (MaxBatch - n)
    BY <1>1
  <1> QED
    BY <1>2, <1>3 DEF AdmitEpsilon

LEMMA AssumptionsHold == Proved!PortAssumption /\ Proved!ContractAssumption
  <1>1. Unit \in Nat \ {0} /\ Rate \in Nat /\ Capacity * Unit \in Nat
    BY Sizes DEF Full
  <1>2. Eps * MaxBatch \in Nat
    BY LockFreeAssumption, Product
  <1>3. [n \in Batches |-> AdmitEpsilon(n)] \in [Batches -> Int]
    <2>1. ASSUME NEW n \in Batches PROVE Eps * n \in Int
      BY LockFreeAssumption, Sizes
    <2> QED
      BY <2>1 DEF AdmitEpsilon
  <1>4. \A n \in Batches : n > 0 =>
            [m \in Batches |-> AdmitEpsilon(m)][n] \in 0..Eps * MaxBatch
    BY SlackGrows
  <1> QED
    BY <1>1, <1>2, <1>3, <1>4, PortAssumption
       DEF Proved!PortAssumption, Proved!ContractAssumption

(* It is the contract that the bucket was shown to implement.              *)
LEMMA SameContract ==
    /\ Contract!Init <=> Proved!Init
    /\ [Contract!Next]_(Contract!vars) => [Proved!Next]_(Proved!vars)
  BY DEF Contract!Init, Proved!Init, Contract!PortInit, Proved!PortInit,
         Contract!Next, Proved!Next, Contract!Advance, Proved!Advance,
         Contract!Tick, Proved!Tick, Contract!Begin, Proved!Begin,
         Contract!Call, Proved!Call, Contract!Skip, Proved!Skip,
         Contract!CallNothing, Proved!CallNothing, Contract!Admit,
         Proved!Admit, Contract!Deny, Proved!Deny, Contract!Refuse,
         Proved!Refuse, Contract!Grant, Proved!Grant, Contract!Finish,
         Proved!Finish, Contract!Moments, Proved!Moments, Contract!Fits,
         Proved!Fits, Contract!CreditAt, Proved!CreditAt, Contract!Settle,
         Proved!Settle, Contract!Resting, Proved!Resting, Contract!Time,
         Proved!Time, Contract!vars, Proved!vars

LEMMA ProvedSpec == Spec => Proved!Spec
  BY LockFreeImplementsContract, SameContract, PTL
     DEF ImplementsContract, Contract!Spec, Proved!Spec

(* The guarantee of this bucket: from any time s to the last admission, no *)
(* more is admitted than a full bucket, the accrual between and one slack, *)
(* however often the slack was granted and however many swaps were lost    *)
(* (lockfree_tokenbucket.go, AllowN; limiter.go:26-27).                    *)
THEOREM BurstPlusRate ==
    Spec => [](\A s \in Time : s <= state.last =>
                since[s] * Unit <= Capacity * Unit + Eps * MaxBatch + Rate * (state.last - s))
  <1>1. Proved!Spec => []Proved!WindowBound
    BY AssumptionsHold, Proved!WindowBounded
  <1>2. Proved!WindowBound
            => \A s \in Time : s <= state.last =>
                since[s] * Unit <= Capacity * Unit + Eps * MaxBatch + Rate * (state.last - s)
    BY DEF Proved!WindowBound, Proved!Time, Time
  <1> QED
    BY <1>1, <1>2, ProvedSpec, PTL

--------------------------------------------------------------------------------
LEMMA DenyIsProvedDeny ==
    ASSUME IInv, NEW p \in Procs, Deny(p)
    PROVE  Proved!Deny(p)
  <1>1. Contract!Deny(p)
    BY DenyMaps
  <1> QED
    BY <1>1 DEF Contract!Deny, Proved!Deny, Contract!Refuse, Proved!Refuse,
       Contract!Finish, Proved!Finish, Contract!Moments, Proved!Moments,
       Contract!Fits, Proved!Fits, Contract!CreditAt, Proved!CreditAt,
       Contract!Settle, Proved!Settle

LEMMA CancelUnit ==
    ASSUME NEW a \in Int, NEW b \in Int, a * Unit > b * Unit
    PROVE  a > b
  <1> SUFFICES ASSUME a <= b PROVE FALSE
    OBVIOUS
  <1>1. (b - a) * Unit \in Nat
    BY Product, Sizes, b - a \in Nat
  <1>2. b * Unit = a * Unit + (b - a) * Unit
    BY Sizes
  <1>3. a * Unit \in Int /\ b * Unit \in Int
    BY Sizes
  <1> DEFINE x == a * Unit
             y == b * Unit
             z == (b - a) * Unit
  <1>4. x \in Int /\ y \in Int /\ z \in Nat /\ y = x + z /\ x > y
    BY <1>1, <1>2, <1>3
  <1> HIDE DEF x, y, z
  <1> QED
    BY <1>4

(* No batch is denied that fits a full bucket together with everything     *)
(* admitted before it, although denials are decided on stale snapshots     *)
(* (lockfree_tokenbucket.go:101-105).                                      *)
THEOREM BurstServed == Spec => BurstIsServed
  <1>1. Proved!Spec => []Proved!Inv
    BY AssumptionsHold, Proved!Invariance
  <1>2. ASSUME IInv, Proved!Inv, NEW p \in Procs, Deny(p)
        PROVE  since[0] + arg[p] > Capacity
    <2>1. (since[0] + arg[p]) * Unit > Capacity * Unit
      BY <1>2, DenyIsProvedDeny, AssumptionsHold, Proved!DenyIsShort
    <2>2. 0 \in Time
      BY PortAssumption DEF Time
    <2>3. since[0] \in Nat
      BY <1>2, <2>2, Ranges DEF PortTypeOK
    <2>4. arg[p] \in Int
      BY <1>2, HeldParts DEF Holding, Deny
    <2>5. since[0] + arg[p] \in Int /\ Capacity \in Int
      BY <2>3, <2>4, LockFreeAssumption
    <2> QED
      BY <2>1, <2>5, CancelUnit
  <1>3. IInv /\ Proved!Inv /\ [Next]_vars
        => [\A p \in Procs : Deny(p) => since[0] + arg[p] > Capacity]_vars
    BY <1>2
  <1> QED
    BY <1>1, <1>3, ProvedSpec, InductiveInvariant, PTL DEF Spec, BurstIsServed
================================================================================
