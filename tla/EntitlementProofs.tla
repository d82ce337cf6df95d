------------------------- MODULE EntitlementProofs -------------------------
(***************************************************************************)
(* Proofs about Entitlement, for every set of plans, adds, plan changes,   *)
(* webhooks and reconciles, every price and every size; about what is      *)
(* changed without Stripe, SelfHosted; about PriceSync; and about          *)
(* StripeWebhook, for any events, deliveries and faults.                   *)
(***************************************************************************)
EXTENDS MCEntitlement, SizeTotalsProofs, WellFoundedInduction

USE EntitlementAssumption

-----------------------------------------------------------------------------
(* Sums *)

\* The GB and the cost of any set of rows are naturals.
LEMMA SumsType ==
  ASSUME TypeOK, NEW S \in SUBSET Adds
  PROVE  GbSum(S) \in Nat /\ CostSum(S) \in Nat
<1>1. [a \in Adds |-> IF a \in S THEN GbOf[a] ELSE 0] \in [Adds -> Nat]
  OBVIOUS
<1>2. [a \in Adds |-> IF a \in S THEN cost[a] ELSE 0] \in [Adds -> Nat]
  BY DEF TypeOK
<1> QED
  BY <1>1, <1>2, TotalNat DEF GbSum, CostSum

\* A new row adds its GB.
LEMMA NewRowAdds ==
  ASSUME NEW S \in SUBSET Adds, NEW a \in Adds, a \notin S
  PROVE  GbSum(S \cup {a}) = GbSum(S) + GbOf[a]
<1> DEFINE old == [b \in Adds |-> IF b \in S THEN GbOf[b] ELSE 0]
           new == [b \in Adds |-> IF b \in S \cup {a} THEN GbOf[b] ELSE 0]
<1>1. old \in [Adds -> Nat] /\ new \in [Adds -> Nat]
  OBVIOUS
<1>2. \A b \in Adds \ {a} : new[b] = old[b]
  OBVIOUS
<1>3. old[a] = 0 /\ new[a] = GbOf[a]
  OBVIOUS
<1>4. GbSum(S) = Total(old) /\ GbSum(S \cup {a}) = Total(new)
  BY DEF GbSum
<1>5. Total(old) \in Nat
  BY <1>1, TotalNat
<1> HIDE DEF old, new
<1>6. Total(new) = Total(old) - old[a] + new[a]
  BY <1>1, <1>2, TotalUpdate
<1> QED
  BY <1>3, <1>4, <1>5, <1>6

-----------------------------------------------------------------------------
(* Type correctness *)

\* Digits are appended to the quantity: it grows by the GB or by more.
LEMMA QuantityGrows ==
  ASSUME NEW a \in Adds, NEW q \in Nat
  PROVE  NewQuantity(a, q) \in Nat /\ q + GbOf[a] <= NewQuantity(a, q)
<1>1. GbOf[a] \in Nat
  OBVIOUS
<1>2. \A k \in {10, 100, 1000} : k * q \in Nat /\ q <= k * q
  OBVIOUS
<1>3. Joined(q, GbOf[a]) \in Nat /\ q + GbOf[a] <= Joined(q, GbOf[a])
  BY <1>1, <1>2 DEF Joined
<1> QED
  BY <1>1, <1>3 DEF NewQuantity

AddState == [pc : {"start", "claimed", "locked", "listed", "billed", "done"},
             cost : Nat, seen : Nat]

\* What a step of an add may write into its state.
LEMMA AddRecord ==
  ASSUME TypeOK, NEW a \in Adds, NEW n \in Nat
  PROVE  /\ \A pc \in {"claimed", "billed", "done"} : AddTo(a, pc) => add' \in [Adds -> AddState]
         /\ [add EXCEPT ![a] = [@ EXCEPT !.pc = "locked", !.cost = n]] \in [Adds -> AddState]
         /\ [add EXCEPT ![a] = [@ EXCEPT !.pc = "listed", !.seen = n]] \in [Adds -> AddState]
<1>1. add \in [Adds -> AddState]
  BY DEF TypeOK, AddState
<1>2. [add[a] EXCEPT !.pc = "locked", !.cost = n] \in AddState
  BY <1>1 DEF AddState
<1>3. [add[a] EXCEPT !.pc = "listed", !.seen = n] \in AddState
  BY <1>1 DEF AddState
<1>4. \A pc \in {"claimed", "billed", "done"} : [add[a] EXCEPT !.pc = pc] \in AddState
  BY <1>1 DEF AddState
<1> QED
  BY <1>1, <1>2, <1>3, <1>4 DEF AddTo

\* The steps of an add keep the types.
LEMMA AddTypes ==
  ASSUME TypeOK, NEW a \in Adds, Add(a)
  PROVE  TypeOK'
<1>1. CASE AutoClaim(a)
  <2>1. add' \in [Adds -> AddState] /\ cooldown' \in BOOLEAN
    BY <1>1, AddRecord DEF AutoClaim, TypeOK
  <2> QED
    BY <1>1, <2>1 DEF AutoClaim, AddState, TypeOK, ledgerVars, capacityVars, stripeVars
<1>2. CASE AddLock(a)
  <2>1. PICK c \in Costs :
          IF WithinCap(c)
          THEN add' = [add EXCEPT ![a] = [@ EXCEPT !.pc = "locked", !.cost = c]] /\ lock' = {a}
          ELSE AddTo(a, "done") /\ UNCHANGED lock
    BY <1>2 DEF AddLock
  <2>2. c \in Nat
    OBVIOUS
  <2>3. add' \in [Adds -> AddState] /\ lock' \in SUBSET (Adds \cup Changes)
    <3>1. CASE WithinCap(c)
      <4>1. add' = [add EXCEPT ![a] = [@ EXCEPT !.pc = "locked", !.cost = c]]
        BY <2>1, <3>1
      <4>2. lock' = {a}
        BY <2>1, <3>1
      <4>3. [add EXCEPT ![a] = [@ EXCEPT !.pc = "locked", !.cost = c]] \in [Adds -> AddState]
        BY <2>2, AddRecord
      <4> QED
        BY <4>1, <4>2, <4>3
    <3>2. CASE ~WithinCap(c)
      BY <2>1, <3>2, AddRecord DEF TypeOK
    <3> QED
      BY <3>1, <3>2
  <2> QED
    BY <1>2, <2>3 DEF AddLock, AddState, TypeOK, ledgerVars, capacityVars, stripeVars
<1>3. CASE AddList(a)
  <2>1. quantity[plan] \in Nat
    BY DEF TypeOK
  <2>2. add' \in [Adds -> AddState]
    BY <1>3, <2>1, AddRecord DEF AddList
  <2> QED
    BY <1>3, <2>2 DEF AddList, AddState, TypeOK, ledgerVars, capacityVars, stripeVars
<1>4. CASE AddStripe(a) \/ AddStripeFails(a)
  <2>1. Billed(a) \in [Plans -> Nat]
    <3>1. NewQuantity(a, add[a].seen) \in Nat
      BY QuantityGrows DEF TypeOK
    <3> QED
      BY <3>1 DEF Billed, TypeOK
  <2>2. add' \in [Adds -> AddState] /\ quantity' \in [Plans -> Nat]
    BY <1>4, <2>1, AddRecord DEF AddStripe, AddStripeFails, TypeOK
  <2>3. lock' \in SUBSET (Adds \cup Changes)
    BY <1>4 DEF AddStripe, AddStripeFails, TypeOK
  <2> QED
    BY <1>4, <2>2, <2>3 DEF AddStripe, AddStripeFails, AddState, TypeOK, ledgerVars, capacityVars
<1>5. CASE AddCommit(a)
  <2>1. add' \in [Adds -> AddState]
    BY <1>5, AddRecord DEF AddCommit
  <2>2. /\ allocated' \in Nat /\ spend' \in Nat /\ cost' \in [Adds -> Nat]
        /\ rows' \in SUBSET Adds /\ cycle' \in SUBSET Adds /\ lock' = {}
    BY <1>5 DEF AddCommit, TypeOK
  <2> QED
    BY <1>5, <2>1, <2>2 DEF AddCommit, AddState, TypeOK, stripeVars
<1>6. CASE AddAbort(a)
  <2>1. add' \in [Adds -> AddState] /\ lock' = {}
    BY <1>6, AddRecord DEF AddAbort
  <2> QED
    BY <1>6, <2>1 DEF AddAbort, AddState, TypeOK, ledgerVars, capacityVars, stripeVars
<1> QED
  BY <1>1, <1>2, <1>3, <1>4, <1>5, <1>6 DEF Add

\* The steps of a plan change keep the types.
LEMMA ChangeTypes ==
  ASSUME TypeOK, NEW c \in Changes, Change(c)
  PROVE  TypeOK'
<1>1. CASE ChangeLock(c)
  <2>1. IncludedGb[PlanOf[c]] + GbSum(rows) \in Nat
    BY SumsType DEF TypeOK
  <2> DEFINE state == [pc : {"start", "checked", "swapped", "done"}, gb : Nat]
  <2>2. change \in [Changes -> state]
    BY DEF TypeOK
  <2>3. [change[c] EXCEPT !.pc = "done"] \in state
    BY <2>2
  <2>4. change' \in [Changes -> state] /\ lock' \in SUBSET (Adds \cup Changes)
    <3>1. [pc |-> "checked", gb |-> IncludedGb[PlanOf[c]] + GbSum(rows)] \in state
      BY <2>1
    <3>2. lock \in SUBSET (Adds \cup Changes)
      BY DEF TypeOK
    <3> HIDE DEF state
    <3> QED
      BY <1>1, <2>2, <2>3, <3>1, <3>2 DEF ChangeLock, ChangeTo
  <2> QED
    BY <1>1, <2>4 DEF ChangeLock, TypeOK, ledgerVars, capacityVars, stripeVars
<1>2. CASE ChangeStripe(c)
  BY <1>2 DEF ChangeStripe, ChangeTo, TypeOK, ledgerVars, capacityVars
<1>3. CASE ChangeStripeFails(c)
  BY <1>3 DEF ChangeStripeFails, ChangeTo, TypeOK, ledgerVars, capacityVars
<1>4. CASE ChangeCommit(c)
  BY <1>4 DEF ChangeCommit, ChangeTo, TypeOK, stripeVars
<1>5. CASE ChangeAbort(c)
  BY <1>5 DEF ChangeAbort, ChangeTo, TypeOK, ledgerVars, capacityVars, stripeVars
<1> QED
  BY <1>1, <1>2, <1>3, <1>4, <1>5 DEF Change

\* So do the webhooks, the reconcile and the traffic.
LEMMA OtherTypes ==
  ASSUME TypeOK,
         \/ \E f \in Confirms : Confirm(f)
         \/ \E r \in Renewals : Renew(r)
         \/ \E k \in Reconciles : ReconcileRead(k) \/ ReconcileWrite(k)
         \/ CooldownEnds \/ Traffic \/ UNCHANGED vars
  PROVE  TypeOK'
<1>1. ASSUME NEW f \in Confirms, Confirm(f) PROVE TypeOK'
  <2> DEFINE state == [pc : {"start", "plan", "sum"}, included : Nat, addons : Nat]
  <2>1. GbSum(rows) \in Nat /\ CostSum(rows) \in Nat
    BY SumsType DEF TypeOK
  <2>2. CASE ConfirmPlan(f)
    <3>0. confirm[f] \in state /\ IncludedGb[plan] \in Nat
      BY DEF TypeOK
    <3>1. [confirm[f] EXCEPT !.pc = "plan", !.included = IncludedGb[plan]] \in state
      BY <3>0
    <3>2. confirm' \in [Confirms -> state]
      BY <2>2, <3>1 DEF ConfirmPlan, TypeOK
    <3> QED
      BY <2>2, <3>2 DEF ConfirmPlan, TypeOK, ledgerVars, capacityVars, stripeVars
  <2>3. CASE ConfirmSum(f)
    <3>0. confirm[f] \in state
      BY DEF TypeOK
    <3>1. [confirm[f] EXCEPT !.pc = "sum", !.addons = GbSum(rows)] \in state
      BY <2>1, <3>0
    <3>2. confirm' \in [Confirms -> state]
      BY <2>3, <3>1 DEF ConfirmSum, TypeOK
    <3> QED
      BY <2>3, <3>2 DEF ConfirmSum, TypeOK, ledgerVars, capacityVars, stripeVars
  <2>4. CASE ConfirmWrite(f)
    <3>1. confirm[f].included + confirm[f].addons \in Nat
      BY DEF TypeOK
    <3> QED
      BY <2>1, <2>4, <3>1 DEF ConfirmWrite, TypeOK, ledgerVars, stripeVars
  <2> QED
    BY <1>1, <2>2, <2>3, <2>4 DEF Confirm
<1>2. ASSUME NEW r \in Renewals, Renew(r) PROVE TypeOK'
  BY <1>2 DEF Renew, TypeOK, ledgerVars, stripeVars
<1>3. ASSUME NEW k \in Reconciles, ReconcileRead(k) PROVE TypeOK'
  BY <1>3 DEF ReconcileRead, TypeOK, ledgerVars, capacityVars, stripeVars
<1>4. ASSUME NEW k \in Reconciles, ReconcileWrite(k) PROVE TypeOK'
  <2>1. IncludedGb[reconcile[k].plan] + ReconciledGb \in Nat
    BY TotalNat DEF TypeOK, ReconciledGb
  <2> QED
    BY <1>4, <2>1 DEF ReconcileWrite, TypeOK, ledgerVars, stripeVars
<1>5. CASE CooldownEnds
  BY <1>5 DEF CooldownEnds, TypeOK, ledgerVars, capacityVars, stripeVars, processVars
<1>6. CASE Traffic
  BY <1>6 DEF Traffic, TypeOK, ledgerVars, stripeVars, processVars
<1>7. CASE UNCHANGED vars
  BY <1>7 DEF vars, TypeOK, ledgerVars, capacityVars, stripeVars, processVars
<1> QED
  BY <1>1, <1>2, <1>3, <1>4, <1>5, <1>6, <1>7

LEMMA StepTypes ==
  TypeOK /\ [Next]_vars => TypeOK'
BY AddTypes, ChangeTypes, OtherTypes DEF Next

LEMMA InitTypes ==
  Init => TypeOK
<1> SUFFICES ASSUME Init PROVE TypeOK
  OBVIOUS
<1>1. auto \in BOOLEAN /\ allocated \in Nat /\ used \in 0 .. MaxUsed
  BY DEF Init
<1>2. add \in [Adds -> AddState]
  BY DEF Init, AddState
<1>3. change \in [Changes -> [pc : {"start", "checked", "swapped", "done"}, gb : Nat]]
  BY DEF Init
<1>4. confirm \in [Confirms -> [pc : {"start", "plan", "sum"}, included : Nat, addons : Nat]]
  BY DEF Init
<1>5. reconcile \in [Reconciles -> [pc : {"start", "read"}, plan : Plans, gb : Nat]]
  BY DEF Init
<1> QED
  BY <1>1, <1>2, <1>3, <1>4, <1>5 DEF Init, TypeOK, AddState

\* Every column and every local of the handlers keeps its type: the allocation,
\* the spend and the quantity at Stripe are naturals under every interleaving
\* of adds, plan changes, webhooks and reconciles.
THEOREM TypeCorrect == Spec => []TypeOK
BY InitTypes, StepTypes, PTL DEF Spec

-----------------------------------------------------------------------------
(* The advisory lock *)

Holding == {"locked", "listed", "billed"}
Swapping == {"checked", "swapped"}

\* The lock has one holder, and an add that has not ended has no row.
LockInv ==
  /\ \A a \in Adds : add[a].pc \in Holding => lock = {a}
  /\ \A c \in Changes : change[c].pc \in Swapping => lock = {c}
  /\ \A a \in Adds : add[a].pc # "done" => a \notin rows

\* An add that holds the lock holds it alone.
LEMMA AddAlone ==
  ASSUME LockInv, NEW a \in Adds, add[a].pc \in Holding
  PROVE  /\ \A b \in Adds \ {a} : add[b].pc \notin Holding
         /\ \A c \in Changes : change[c].pc \notin Swapping
BY DEF LockInv

\* So does a plan change.
LEMMA ChangeAlone ==
  ASSUME LockInv, NEW c \in Changes, change[c].pc \in Swapping
  PROVE  /\ \A a \in Adds : add[a].pc \notin Holding
         /\ \A d \in Changes \ {c} : change[d].pc \notin Swapping
BY DEF LockInv

LEMMA FreeMeansNobody ==
  ASSUME LockInv, lock = {}
  PROVE  /\ \A a \in Adds : add[a].pc \notin Holding
         /\ \A c \in Changes : change[c].pc \notin Swapping
BY DEF LockInv

LEMMA LockStep ==
  ASSUME TypeOK, LockInv, [Next]_vars
  PROVE  LockInv'
<1>1. ASSUME NEW a \in Adds, Add(a) PROVE LockInv'
  <2>1. CASE AutoClaim(a)
    <3>1. add[a].pc = "start" /\ add'[a].pc \in {"claimed", "done"}
      BY <2>1 DEF AutoClaim, AddTo, TypeOK
    <3>2. \A b \in Adds \ {a} : add'[b] = add[b]
      BY <2>1 DEF AutoClaim, AddTo, TypeOK
    <3>3. UNCHANGED <<rows, change, lock>>
      BY <2>1 DEF AutoClaim, ledgerVars
    <3> QED
      BY <3>1, <3>2, <3>3 DEF LockInv, Holding
  <2>2. CASE AddLock(a)
    <3>1. PICK c \in Costs :
            IF WithinCap(c)
            THEN add' = [add EXCEPT ![a] = [@ EXCEPT !.pc = "locked", !.cost = c]] /\ lock' = {a}
            ELSE AddTo(a, "done") /\ UNCHANGED lock
      BY <2>2 DEF AddLock
    <3>2. add[a].pc # "done"
      BY <2>2 DEF AddLock, Ready
    <3>3. rows' = rows /\ change' = change /\ lock = {}
      BY <2>2 DEF AddLock, ledgerVars
    <3>4. /\ \A b \in Adds \ {a} : add'[b] = add[b]
          /\ \/ add'[a].pc = "locked" /\ lock' = {a}
             \/ add'[a].pc = "done" /\ lock' = lock
      <4>1. CASE WithinCap(c)
        <5>1. add' = [add EXCEPT ![a] = [@ EXCEPT !.pc = "locked", !.cost = c]] /\ lock' = {a}
          BY <3>1, <4>1
        <5>2. add \in [Adds -> AddState]
          BY DEF TypeOK, AddState
        <5>3. add'[a] = [add[a] EXCEPT !.pc = "locked", !.cost = c]
          BY <5>1, <5>2
        <5>4. add'[a].pc = "locked"
          BY <5>2, <5>3 DEF AddState
        <5> QED
          BY <5>1, <5>2, <5>4
      <4>2. CASE ~WithinCap(c)
        BY <3>1, <4>2 DEF AddTo, TypeOK
      <4> QED
        BY <4>1, <4>2
    <3> QED
      BY <3>2, <3>3, <3>4, FreeMeansNobody DEF LockInv, Holding
  <2>3. CASE AddList(a)
    BY <2>3 DEF AddList, LockInv, TypeOK, Holding, ledgerVars
  <2>4. CASE AddStripe(a)
    BY <2>4 DEF AddStripe, AddTo, LockInv, TypeOK, Holding, ledgerVars
  <2>5. CASE AddStripeFails(a) \/ AddCommit(a) \/ AddAbort(a)
    <3>1. add[a].pc \in Holding
      BY <2>5 DEF AddStripeFails, AddCommit, AddAbort, Holding
    <3>2. add'[a].pc = "done" /\ \A b \in Adds \ {a} : add'[b] = add[b]
      BY <2>5 DEF AddStripeFails, AddCommit, AddAbort, AddTo, TypeOK
    <3>3. change' = change /\ rows' \subseteq rows \cup {a}
      BY <2>5 DEF AddStripeFails, AddCommit, AddAbort, ledgerVars
    <3> QED
      BY <3>1, <3>2, <3>3, AddAlone DEF LockInv, Holding
  <2> QED
    BY <1>1, <2>1, <2>2, <2>3, <2>4, <2>5 DEF Add
<1>2. ASSUME NEW c \in Changes, Change(c) PROVE LockInv'
  <2>1. CASE ChangeLock(c)
    <3>1. lock = {} /\ UNCHANGED <<add, rows>>
      BY <2>1 DEF ChangeLock, ledgerVars
    <3>2. \A d \in Changes \ {c} : change'[d] = change[d]
      BY <2>1 DEF ChangeLock, ChangeTo, TypeOK
    <3>3. \/ change'[c].pc = "done" /\ lock' = lock
          \/ change'[c].pc = "checked" /\ lock' = {c}
      <4> DEFINE gb == IncludedGb[PlanOf[c]] + GbSum(rows)
      <4>1. CASE gb < used \/ stripePlan # plan
        <5>1. change' = [change EXCEPT ![c].pc = "done"] /\ lock' = lock
          BY <2>1, <4>1 DEF ChangeLock, ChangeTo
        <5> QED
          BY <5>1 DEF TypeOK
      <4>2. CASE ~(gb < used \/ stripePlan # plan)
        <5>1. change' = [change EXCEPT ![c] = [pc |-> "checked", gb |-> gb]] /\ lock' = {c}
          BY <2>1, <4>2 DEF ChangeLock
        <5> QED
          BY <5>1 DEF TypeOK
      <4> QED
        BY <4>1, <4>2
    <3> QED
      BY <3>1, <3>2, <3>3, FreeMeansNobody DEF LockInv, Swapping
  <2>2. CASE ChangeStripe(c)
    BY <2>2 DEF ChangeStripe, ChangeTo, LockInv, TypeOK, Swapping, ledgerVars
  <2>3. CASE ChangeStripeFails(c) \/ ChangeCommit(c) \/ ChangeAbort(c)
    <3>1. change[c].pc \in Swapping
      BY <2>3 DEF ChangeStripeFails, ChangeCommit, ChangeAbort, Swapping
    <3>2. change'[c].pc = "done" /\ \A d \in Changes \ {c} : change'[d] = change[d]
      BY <2>3 DEF ChangeStripeFails, ChangeCommit, ChangeAbort, ChangeTo, TypeOK
    <3>3. add' = add /\ rows' = rows
      BY <2>3 DEF ChangeStripeFails, ChangeCommit, ChangeAbort, ledgerVars
    <3> QED
      BY <3>1, <3>2, <3>3, ChangeAlone DEF LockInv, Swapping
  <2> QED
    BY <1>2, <2>1, <2>2, <2>3 DEF Change
<1>3. ASSUME UNCHANGED <<add, change, lock, rows>> PROVE LockInv'
  BY <1>3 DEF LockInv
<1>4. ASSUME \/ \E f \in Confirms : Confirm(f)
             \/ \E r \in Renewals : Renew(r)
             \/ \E k \in Reconciles : ReconcileRead(k) \/ ReconcileWrite(k)
             \/ CooldownEnds \/ Traffic \/ UNCHANGED vars
      PROVE  UNCHANGED <<add, change, lock, rows>>
  BY <1>4 DEF Confirm, ConfirmPlan, ConfirmSum, ConfirmWrite, Renew, ReconcileRead,
     ReconcileWrite, CooldownEnds, Traffic, vars, ledgerVars, processVars
<1> QED
  BY <1>1, <1>2, <1>3, <1>4 DEF Next

LEMMA InitLock ==
  Init => LockInv
BY DEF Init, LockInv, Holding, Swapping

-----------------------------------------------------------------------------
(* Adds and plan changes serialise *)

\* What a plan change computed under the lock still holds when it commits.
ChangeInv ==
  \A c \in Changes :
    change[c].pc \in Swapping => change[c].gb = IncludedGb[PlanOf[c]] + GbSum(rows)

LEMMA ChangeStep ==
  ASSUME TypeOK, LockInv, ChangeInv, [Next]_vars
  PROVE  ChangeInv'
<1>1. ASSUME NEW a \in Adds, Add(a) PROVE ChangeInv'
  <2>1. CASE AddCommit(a)
    <3>1. change' = change /\ \A c \in Changes : change[c].pc \notin Swapping
      BY <2>1, AddAlone DEF AddCommit, Holding
    <3> QED
      BY <3>1 DEF ChangeInv
  <2>2. CASE ~AddCommit(a)
    <3>1. UNCHANGED <<rows, change>>
      BY <1>1, <2>2 DEF Add, AutoClaim, AddLock, AddList, AddStripe, AddStripeFails, AddAbort,
         ledgerVars
    <3> QED
      BY <3>1 DEF ChangeInv
  <2> QED
    BY <2>1, <2>2
<1>2. ASSUME NEW c \in Changes, Change(c) PROVE ChangeInv'
  <2> DEFINE gb == IncludedGb[PlanOf[c]] + GbSum(rows)
  <2>1. rows' = rows
    BY <1>2 DEF Change, ChangeLock, ChangeStripe, ChangeStripeFails, ChangeCommit, ChangeAbort,
       ledgerVars
  <2>2. \A d \in Changes \ {c} : change'[d] = change[d]
    BY <1>2 DEF Change, ChangeLock, ChangeStripe, ChangeStripeFails, ChangeCommit, ChangeAbort,
       ChangeTo, TypeOK
  <2>3. change'[c].pc = "done" \/ change'[c].gb = gb
    <3>1. CASE ChangeLock(c)
      <4>1. CASE gb < used \/ stripePlan # plan
        BY <3>1, <4>1 DEF ChangeLock, ChangeTo, TypeOK
      <4>2. CASE ~(gb < used \/ stripePlan # plan)
        <5>1. change' = [change EXCEPT ![c] = [pc |-> "checked", gb |-> gb]]
          BY <3>1, <4>2 DEF ChangeLock
        <5> QED
          BY <5>1 DEF TypeOK
      <4> QED
        BY <4>1, <4>2
    <3>2. CASE ChangeStripe(c)
      <4>1. change[c].gb = gb
        BY <3>2 DEF ChangeStripe, ChangeInv, Swapping
      <4> QED
        BY <3>2, <4>1 DEF ChangeStripe, ChangeTo, TypeOK
    <3>3. CASE ChangeStripeFails(c) \/ ChangeCommit(c) \/ ChangeAbort(c)
      BY <3>3 DEF ChangeStripeFails, ChangeCommit, ChangeAbort, ChangeTo, TypeOK
    <3> QED
      BY <1>2, <3>1, <3>2, <3>3 DEF Change
  <2> QED
    BY <2>1, <2>2, <2>3 DEF ChangeInv, Swapping
<1>3. ASSUME UNCHANGED <<rows, change>> PROVE ChangeInv'
  BY <1>3 DEF ChangeInv
<1>4. ASSUME \/ \E f \in Confirms : Confirm(f)
             \/ \E r \in Renewals : Renew(r)
             \/ \E k \in Reconciles : ReconcileRead(k) \/ ReconcileWrite(k)
             \/ CooldownEnds \/ Traffic \/ UNCHANGED vars
      PROVE  UNCHANGED <<rows, change>>
  BY <1>4 DEF Confirm, ConfirmPlan, ConfirmSum, ConfirmWrite, Renew, ReconcileRead,
     ReconcileWrite, CooldownEnds, Traffic, vars, ledgerVars, processVars
<1> QED
  BY <1>1, <1>2, <1>3, <1>4 DEF Next

LEMMA InitChange ==
  Init => ChangeInv
BY DEF Init, ChangeInv, Swapping

\* A commit under the lock writes the entitlement it leaves behind.
LEMMA EntitledStep ==
  ASSUME TypeOK, LockInv, ChangeInv, Entitled, [Next]_vars, UNCHANGED <<confirm, reconcile>>
  PROVE  Entitled'
<1>1. ASSUME NEW a \in Adds, AddCommit(a) PROVE Entitled'
  <2>1. a \notin rows
    BY <1>1 DEF AddCommit, LockInv
  <2>2. GbSum(rows') = GbSum(rows) + GbOf[a] /\ GbSum(rows) \in Nat
    BY <1>1, <2>1, NewRowAdds, SumsType DEF AddCommit, TypeOK
  <2>3. allocated' = allocated + GbOf[a] /\ plan' = plan
    BY <1>1 DEF AddCommit
  <2>4. IncludedGb[plan] \in Nat /\ GbOf[a] \in Nat
    BY DEF TypeOK
  <2> QED
    BY <2>2, <2>3, <2>4 DEF Entitled
<1>2. ASSUME NEW c \in Changes, ChangeCommit(c) PROVE Entitled'
  <2>1. plan' = PlanOf[c] /\ allocated' = change[c].gb /\ rows' = rows
    BY <1>2 DEF ChangeCommit
  <2>2. change[c].gb = IncludedGb[PlanOf[c]] + GbSum(rows)
    BY <1>2 DEF ChangeCommit, ChangeInv, Swapping
  <2> QED
    BY <2>1, <2>2 DEF Entitled
<1>3. ASSUME NEW f \in Confirms PROVE ~Confirm(f)
  <2>1. confirm' = confirm
    OBVIOUS
  <2>2. confirm \in [Confirms -> [pc : {"start", "plan", "sum"}, included : Nat, addons : Nat]]
    BY DEF TypeOK
  <2>3. ASSUME ConfirmPlan(f) PROVE FALSE
    <3>1. confirm'[f].pc = "plan"
      BY <2>2, <2>3 DEF ConfirmPlan
    <3> QED
      BY <2>1, <2>3, <3>1 DEF ConfirmPlan
  <2>4. ASSUME ConfirmSum(f) PROVE FALSE
    <3>1. confirm'[f].pc = "sum"
      BY <2>2, <2>4 DEF ConfirmSum
    <3> QED
      BY <2>1, <2>4, <3>1 DEF ConfirmSum
  <2>5. ASSUME ConfirmWrite(f) PROVE FALSE
    <3>1. confirm'[f].pc = "start"
      BY <2>2, <2>5 DEF ConfirmWrite
    <3> QED
      BY <2>1, <2>5, <3>1 DEF ConfirmWrite
  <2> QED
    BY <2>3, <2>4, <2>5 DEF Confirm
<1>4. ASSUME NEW k \in Reconciles PROVE ~(ReconcileRead(k) \/ ReconcileWrite(k))
  BY DEF ReconcileRead, ReconcileWrite, TypeOK
<1>5. ASSUME UNCHANGED <<allocated, plan, rows>> PROVE Entitled'
  BY <1>5 DEF Entitled
<1>6. ASSUME \/ \E a \in Adds : Add(a) /\ ~AddCommit(a)
             \/ \E c \in Changes : Change(c) /\ ~ChangeCommit(c)
             \/ \E r \in Renewals : Renew(r)
             \/ CooldownEnds \/ Traffic \/ UNCHANGED vars
      PROVE  UNCHANGED <<allocated, plan, rows>>
  BY <1>6 DEF Add, AutoClaim, AddLock, AddList, AddStripe, AddStripeFails, AddAbort,
     Change, ChangeLock, ChangeStripe, ChangeStripeFails, ChangeAbort,
     Renew, CooldownEnds, Traffic, vars, ledgerVars, capacityVars
<1> QED
  BY <1>1, <1>2, <1>3, <1>4, <1>5, <1>6 DEF Next

\* Any number of concurrent adds and plan changes, whatever Stripe calls and
\* connections they lose, moves the allocation with plan and rows: only a
\* webhook or a reconcile can take it away from the entitlement.
THEOREM AddsAndPlanChangesSerialise == Spec => LockedStepsKeepEntitlement
<1> DEFINE Inv == TypeOK /\ LockInv /\ ChangeInv
<1>1. Init => Inv
  BY InitTypes, InitLock, InitChange
<1>2. Inv /\ [Next]_vars => Inv'
  BY StepTypes, LockStep, ChangeStep
<1>3. Inv /\ [Next]_vars => [Entitled /\ UNCHANGED <<confirm, reconcile>> => Entitled']_vars
  BY EntitledStep
<1> HIDE DEF Inv
<1> QED
  BY <1>1, <1>2, <1>3, PTL DEF Spec, LockedStepsKeepEntitlement

LEMMA InitSums ==
  Init => GbSum(rows) = 0
<1> SUFFICES ASSUME Init PROVE GbSum(rows) = 0
  OBVIOUS
<1>1. rows = {}
  BY DEF Init
<1>2. [a \in Adds |-> IF a \in rows THEN GbOf[a] ELSE 0] = [a \in Adds |-> 0]
  BY <1>1
<1> QED
  BY <1>2, TotalZero DEF GbSum

\* Without them it is the entitlement at every commit.
THEOREM AllocationIsEntitlement ==
  ASSUME Confirms = {}, Reconciles = {}
  PROVE  Spec => []Entitled
<1> DEFINE Inv == TypeOK /\ LockInv /\ ChangeInv /\ Entitled
<1>1. Init => Inv
  BY InitTypes, InitLock, InitChange, InitSums DEF Init, Entitled
<1>2. Inv /\ [Next]_vars => Inv'
  <2> SUFFICES ASSUME Inv, [Next]_vars PROVE Inv'
    OBVIOUS
  <2>1. TypeOK' /\ LockInv' /\ ChangeInv'
    BY StepTypes, LockStep, ChangeStep
  <2>2. UNCHANGED <<confirm, reconcile>>
    BY <2>1 DEF TypeOK
  <2> QED
    BY <2>1, <2>2, EntitledStep
<1>3. Inv => Entitled
  OBVIOUS
<1> HIDE DEF Inv
<1> QED
  BY <1>1, <1>2, <1>3, PTL DEF Spec

-----------------------------------------------------------------------------
(* Capacity is never granted without billing *)

\* The lock keeps what an add read at Stripe and what it billed there.
BilledInv ==
  /\ NeverFree
  /\ \A a \in Adds : add[a].pc = "listed" => add[a].seen = quantity[plan]
  /\ \A a \in Adds : add[a].pc = "billed" => GbSum(rows) + GbOf[a] <= Total(quantity)

LEMMA BilledStep ==
  ASSUME TypeOK, LockInv, BilledInv, [Next]_vars
  PROVE  BilledInv'
<1>0. GbSum(rows) \in Nat /\ quantity \in [Plans -> Nat] /\ Total(quantity) \in Nat
  BY SumsType, TotalNat DEF TypeOK
<1>1. ASSUME NEW a \in Adds, Add(a) PROVE BilledInv'
  <2>1. \A b \in Adds \ {a} : add'[b] = add[b]
    <3>1. CASE AddLock(a)
      BY <3>1 DEF AddLock, AddTo, TypeOK
    <3>2. CASE ~AddLock(a)
      BY <1>1, <3>2 DEF Add, AutoClaim, AddList, AddStripe, AddStripeFails, AddCommit, AddAbort,
         AddTo, TypeOK
    <3> QED
      BY <3>1, <3>2
  <2>2. CASE AutoClaim(a) \/ AddLock(a) \/ AddAbort(a)
    <3>1. UNCHANGED <<quantity, rows, plan>>
      BY <2>2 DEF AutoClaim, AddLock, AddAbort, stripeVars, ledgerVars
    <3>2. add'[a].pc \in {"claimed", "locked", "done"}
      <4>1. CASE AddLock(a)
        <5>1. PICK c \in Costs :
                IF WithinCap(c)
                THEN add' = [add EXCEPT ![a] = [@ EXCEPT !.pc = "locked", !.cost = c]] /\ lock' = {a}
                ELSE AddTo(a, "done") /\ UNCHANGED lock
          BY <4>1 DEF AddLock
        <5>2. add \in [Adds -> AddState]
          BY DEF TypeOK, AddState
        <5>3. add'[a] = [add[a] EXCEPT !.pc = "locked", !.cost = c] \/ add'[a] = [add[a] EXCEPT !.pc = "done"]
          BY <5>1, <5>2 DEF AddTo
        <5> QED
          BY <5>2, <5>3 DEF AddState
      <4>2. CASE AutoClaim(a) \/ AddAbort(a)
        BY <4>2 DEF AutoClaim, AddAbort, AddTo, TypeOK
      <4> QED
        BY <2>2, <4>1, <4>2
    <3> QED
      BY <2>1, <3>1, <3>2 DEF BilledInv, NeverFree
  <2>3. CASE AddList(a)
    <3>1. UNCHANGED <<quantity, rows, plan>>
      BY <2>3 DEF AddList, stripeVars, ledgerVars
    <3>2. add \in [Adds -> AddState]
      BY DEF TypeOK, AddState
    <3>3. add'[a] = [add[a] EXCEPT !.pc = "listed", !.seen = quantity[plan]]
      BY <2>3, <3>2 DEF AddList
    <3>4. add'[a].pc = "listed" /\ add'[a].seen = quantity[plan]
      BY <3>2, <3>3 DEF AddState
    <3> QED
      BY <2>1, <3>1, <3>4 DEF BilledInv, NeverFree
  <2>4. CASE AddStripe(a) \/ AddStripeFails(a)
    <3>1. rows' = rows /\ add[a].pc \in Holding
      BY <2>4 DEF AddStripe, AddStripeFails, ledgerVars, Holding
    <3>2. add'[a].pc \in {"billed", "done"}
      BY <2>4 DEF AddStripe, AddStripeFails, AddTo, TypeOK
    <3>3. add[a].pc = "listed" =>
            Total(Billed(a)) \in Nat /\ Total(quantity) + GbOf[a] <= Total(Billed(a))
      <4> DEFINE n == NewQuantity(a, add[a].seen)
      <4>1. plan \in Plans /\ GbOf[a] \in Nat
        BY DEF TypeOK
      <4>2. n \in Nat /\ (add[a].pc = "listed" => quantity[plan] + GbOf[a] <= n)
        BY <1>0, <4>1, QuantityGrows DEF BilledInv, TypeOK
      <4> HIDE DEF n
      <4>3. Billed(a) = [quantity EXCEPT ![plan] = n]
        BY DEF Billed, n
      <4>4. /\ Billed(a) \in [Plans -> Nat] /\ Billed(a)[plan] = n
            /\ \A p \in Plans \ {plan} : Billed(a)[p] = quantity[p]
        BY <1>0, <4>1, <4>2, <4>3
      <4>5. Total(Billed(a)) = Total(quantity) - quantity[plan] + n
        BY <1>0, <4>1, <4>4, TotalUpdate
      <4> QED
        BY <1>0, <4>1, <4>2, <4>5
    <3>4. \/ add[a].pc = "listed" /\ quantity' = Billed(a)
          \/ quantity' = quantity /\ add'[a].pc = "done"
      BY <2>4 DEF AddStripe, AddStripeFails, AddTo, TypeOK
    <3>5. /\ Total(quantity') \in Nat /\ Total(quantity) <= Total(quantity')
          /\ add'[a].pc = "billed" => Total(quantity) + GbOf[a] <= Total(quantity')
      <4>1. GbOf[a] \in Nat
        OBVIOUS
      <4> QED
        BY <1>0, <3>3, <3>4, <4>1
    <3>6. \A b \in Adds \ {a} : add'[b].pc \notin Holding
      BY <2>1, <3>1, AddAlone
    <3> QED
      BY <1>0, <3>1, <3>2, <3>5, <3>6 DEF BilledInv, NeverFree, Holding
  <2>5. CASE AddCommit(a)
    <3>1. /\ rows' = rows \cup {a} /\ quantity' = quantity
          /\ add[a].pc = "billed" /\ add'[a].pc = "done"
      BY <2>5 DEF AddCommit, AddTo, TypeOK, stripeVars
    <3>2. GbSum(rows') = GbSum(rows) + GbOf[a]
      BY <3>1, NewRowAdds DEF LockInv, TypeOK
    <3>3. \A b \in Adds \ {a} : add'[b].pc \notin Holding
      BY <2>1, <3>1, AddAlone DEF Holding
    <3> QED
      BY <3>1, <3>2, <3>3 DEF BilledInv, NeverFree, Holding
  <2> QED
    BY <1>1, <2>2, <2>3, <2>4, <2>5 DEF Add
<1>2. ASSUME UNCHANGED <<add, quantity, rows, plan>> PROVE BilledInv'
  BY <1>2 DEF BilledInv, NeverFree
<1>3. ASSUME NEW c \in Changes, Change(c) PROVE BilledInv'
  <2>1. UNCHANGED <<add, quantity, rows>>
    BY <1>3 DEF Change, ChangeLock, ChangeStripe, ChangeStripeFails, ChangeCommit, ChangeAbort,
       ledgerVars, stripeVars
  <2>2. CASE ChangeCommit(c)
    <3>1. \A a \in Adds : add[a].pc # "listed"
      BY <2>2, ChangeAlone DEF ChangeCommit, Swapping, Holding
    <3> QED
      BY <2>1, <3>1 DEF BilledInv, NeverFree
  <2>3. CASE ~ChangeCommit(c)
    <3>1. plan' = plan
      BY <1>3, <2>3 DEF Change, ChangeLock, ChangeStripe, ChangeStripeFails, ChangeAbort, ledgerVars
    <3> QED
      BY <2>1, <3>1 DEF BilledInv, NeverFree
  <2> QED
    BY <2>2, <2>3
<1>4. ASSUME \/ \E f \in Confirms : Confirm(f)
             \/ \E r \in Renewals : Renew(r)
             \/ \E k \in Reconciles : ReconcileRead(k) \/ ReconcileWrite(k)
             \/ CooldownEnds \/ Traffic \/ UNCHANGED vars
      PROVE  UNCHANGED <<add, quantity, rows, plan>>
  BY <1>4 DEF Confirm, ConfirmPlan, ConfirmSum, ConfirmWrite, Renew, ReconcileRead, ReconcileWrite,
     CooldownEnds, Traffic, vars, ledgerVars, stripeVars, processVars
<1> QED
  BY <1>1, <1>2, <1>3, <1>4 DEF Next

\* Every recorded GB is on the Stripe item: an add bills before it records, it
\* reads and writes the quantity alone, and no failure of Stripe, of the
\* connection or of a commit leaves a row that nobody pays for.
THEOREM CapacityIsBilled == Spec => []NeverFree
<1>1. Init => BilledInv
  <2> SUFFICES ASSUME Init PROVE BilledInv
    OBVIOUS
  <2>1. GbSum(rows) = 0
    BY InitSums
  <2>2. quantity \in [Plans -> Nat]
    BY DEF Init
  <2>3. Total(quantity) \in Nat
    BY <2>2, TotalNat
  <2> QED
    BY <2>1, <2>3 DEF Init, BilledInv, NeverFree
<1>2. TypeOK /\ LockInv /\ BilledInv /\ [Next]_vars => BilledInv'
  BY BilledStep
<1>3. TypeOK /\ LockInv /\ [Next]_vars => LockInv'
  BY LockStep
<1>4. BilledInv => NeverFree
  BY DEF BilledInv
<1> QED
  BY <1>1, <1>2, <1>3, <1>4, InitTypes, StepTypes, InitLock, PTL DEF Spec

-----------------------------------------------------------------------------
(* The cap on the add-on spend *)

\* What a lock holder compared with the cap still fits under it, and the counter
\* it compared is at least the spend of the cycle.
SpendInv ==
  /\ CycleWithinCap
  /\ cycle \subseteq rows /\ CostSum(cycle) <= spend
  /\ \A a \in Adds :
       add[a].pc \in Holding /\ MaxSpend > 0 => CostSum(cycle) + add[a].cost <= MaxSpend

\* More rows cost more.
LEMMA CostMonotone ==
  ASSUME TypeOK, NEW S \in SUBSET Adds, NEW T \in SUBSET Adds, S \subseteq T
  PROVE  CostSum(S) <= CostSum(T)
<1> DEFINE low == [a \in Adds |-> IF a \in S THEN cost[a] ELSE 0]
           high == [a \in Adds |-> IF a \in T THEN cost[a] ELSE 0]
<1>1. low \in [Adds -> Nat] /\ high \in [Adds -> Nat]
  BY DEF TypeOK
<1>2. \A a \in Adds : low[a] <= high[a]
  BY DEF TypeOK
<1>3. CostSum(S) = Total(low) /\ CostSum(T) = Total(high)
  BY DEF CostSum
<1> HIDE DEF low, high
<1> QED
  BY <1>1, <1>2, <1>3, TotalMonotone

\* A committed add adds its cost to that of the cycle.
LEMMA CommitCosts ==
  ASSUME TypeOK, NEW a \in Adds, AddCommit(a), a \notin cycle
  PROVE  CostSum(cycle)' = CostSum(cycle) + add[a].cost
<1> DEFINE old == [b \in Adds |-> IF b \in cycle THEN cost[b] ELSE 0]
           new == [b \in Adds |-> IF b \in cycle' THEN cost'[b] ELSE 0]
<1>1. cycle' = cycle \cup {a} /\ cost' = [cost EXCEPT ![a] = add[a].cost]
  BY DEF AddCommit
<1>2. cost \in [Adds -> Nat] /\ add[a].cost \in Nat
  BY DEF TypeOK
<1>3. cost' \in [Adds -> Nat]
  BY <1>1, <1>2
<1>4. old \in [Adds -> Nat] /\ new \in [Adds -> Nat]
  BY <1>2, <1>3
<1>5. \A b \in Adds \ {a} : new[b] = old[b]
  BY <1>1, <1>2
<1>6. old[a] = 0 /\ new[a] = add[a].cost
  BY <1>1, <1>2
<1>7. CostSum(cycle) = Total(old) /\ CostSum(cycle)' = Total(new)
  BY DEF CostSum
<1>8. Total(old) \in Nat
  BY <1>4, TotalNat
<1> HIDE DEF old, new
<1>9. Total(new) = Total(old) - old[a] + new[a]
  BY <1>4, <1>5, TotalUpdate
<1> QED
  BY <1>2, <1>6, <1>7, <1>8, <1>9

LEMMA SpendStep ==
  ASSUME TypeOK, LockInv, SpendInv, [Next]_vars
  PROVE  SpendInv'
<1>0. /\ add \in [Adds -> AddState] /\ spend \in Nat
      /\ CostSum(cycle) \in Nat /\ \A a \in Adds : add[a].cost \in Nat
  BY SumsType DEF TypeOK, AddState
<1>1. ASSUME NEW a \in Adds, Add(a) PROVE SpendInv'
  <2>1. CASE AddLock(a)
    <3>1. PICK c \in Costs :
            IF WithinCap(c)
            THEN add' = [add EXCEPT ![a] = [@ EXCEPT !.pc = "locked", !.cost = c]] /\ lock' = {a}
            ELSE AddTo(a, "done") /\ UNCHANGED lock
      BY <2>1 DEF AddLock
    <3>2. UNCHANGED <<spend, rows, cost, cycle>> /\ c \in Nat
      BY <2>1 DEF AddLock, capacityVars, ledgerVars
    <3>3. CostSum(cycle)' = CostSum(cycle)
      BY <3>2 DEF CostSum
    <3>4. CASE WithinCap(c)
      <4>1. add' = [add EXCEPT ![a] = [@ EXCEPT !.pc = "locked", !.cost = c]]
        BY <3>1, <3>4
      <4>2. /\ add'[a] = [add[a] EXCEPT !.pc = "locked", !.cost = c]
            /\ \A b \in Adds \ {a} : add'[b] = add[b]
        BY <1>0, <4>1
      <4>3. add'[a].cost = c
        BY <1>0, <4>2 DEF AddState
      <4>4. MaxSpend > 0 => CostSum(cycle) + c <= MaxSpend
        BY <1>0, <3>2, <3>4 DEF WithinCap, SpendInv
      <4> QED
        BY <3>2, <3>3, <4>2, <4>3, <4>4 DEF SpendInv, CycleWithinCap
    <3>5. CASE ~WithinCap(c)
      <4>1. add'[a].pc = "done" /\ \A b \in Adds \ {a} : add'[b] = add[b]
        BY <1>0, <3>1, <3>5 DEF AddTo, AddState
      <4> QED
        BY <3>2, <3>3, <4>1 DEF SpendInv, CycleWithinCap, Holding
    <3> QED
      BY <3>4, <3>5
  <2>2. CASE AddCommit(a)
    <3>1. /\ add[a].pc \in Holding /\ a \notin cycle
          /\ spend' = spend + add[a].cost
          /\ cycle' = cycle \cup {a} /\ rows' = rows \cup {a}
      BY <2>2 DEF AddCommit, Holding, LockInv, SpendInv
    <3>2. add'[a].pc = "done" /\ \A b \in Adds \ {a} : add'[b] = add[b]
      BY <2>2 DEF AddCommit, AddTo, TypeOK
    <3>3. CostSum(cycle)' = CostSum(cycle) + add[a].cost
      BY <2>2, <3>1, CommitCosts
    <3>4. \A b \in Adds : add'[b].pc \notin Holding
      BY <3>1, <3>2, AddAlone DEF Holding
    <3> QED
      BY <1>0, <3>1, <3>3, <3>4 DEF SpendInv, CycleWithinCap
  <2>3. CASE AutoClaim(a) \/ AddList(a) \/ AddStripe(a) \/ AddStripeFails(a) \/ AddAbort(a)
    <3>1. UNCHANGED <<spend, rows, cost, cycle>> /\ \A b \in Adds \ {a} : add'[b] = add[b]
      BY <2>3 DEF AutoClaim, AddList, AddStripe, AddStripeFails, AddAbort, AddTo, TypeOK,
         capacityVars, ledgerVars
    <3>2. add'[a].cost = add[a].cost /\ (add'[a].pc \in Holding => add[a].pc \in Holding)
      <4>1. CASE AddList(a)
        <5>1. add'[a] = [add[a] EXCEPT !.pc = "listed", !.seen = quantity[plan]]
          BY <1>0, <4>1 DEF AddList
        <5> QED
          BY <1>0, <4>1, <5>1 DEF AddState, AddList, Holding
      <4>2. CASE AutoClaim(a)
        <5>1. AddTo(a, "claimed") \/ AddTo(a, "done")
          BY <4>2 DEF AutoClaim
        <5> QED
          BY <1>0, <5>1 DEF AddTo, AddState, Holding
      <4>3. CASE AddStripe(a) \/ AddStripeFails(a) \/ AddAbort(a)
        BY <4>3 DEF AddStripe, AddStripeFails, AddAbort, AddTo, TypeOK, Holding
      <4> QED
        BY <2>3, <4>1, <4>2, <4>3
    <3>3. CostSum(cycle)' = CostSum(cycle)
      BY <3>1 DEF CostSum
    <3> QED
      BY <3>1, <3>2, <3>3 DEF SpendInv, CycleWithinCap
  <2> QED
    BY <1>1, <2>1, <2>2, <2>3 DEF Add
<1>2. ASSUME NEW r \in Renewals, Renew(r) PROVE SpendInv'
  <2>1. spend' = 0 /\ add' = add /\ cycle' = {}
    BY <1>2 DEF Renew
  <2>2. CostSum(cycle)' = 0
    <3>1. [a \in Adds |-> IF a \in cycle' THEN cost'[a] ELSE 0] = [a \in Adds |-> 0]
      BY <2>1
    <3> QED
      BY <3>1, TotalZero DEF CostSum
  <2>3. \A a \in Adds : add[a].pc \in Holding /\ MaxSpend > 0 => add[a].cost <= MaxSpend
    BY <1>0 DEF SpendInv
  <2> QED
    BY <1>0, <2>1, <2>2, <2>3 DEF SpendInv, CycleWithinCap
<1>3. ASSUME NEW f \in Confirms, Confirm(f) PROVE SpendInv'
  <2>1. UNCHANGED <<rows, cost, cycle, add>>
    BY <1>3 DEF Confirm, ConfirmPlan, ConfirmSum, ConfirmWrite, ledgerVars
  <2>2. CostSum(cycle)' = CostSum(cycle)
    BY <2>1 DEF CostSum
  <2>3. spend' \in {spend, CostSum(rows)}
    BY <1>3 DEF Confirm, ConfirmPlan, ConfirmSum, ConfirmWrite, capacityVars
  <2>4. CostSum(cycle) <= CostSum(rows)
    BY CostMonotone DEF SpendInv, TypeOK
  <2> QED
    BY <2>1, <2>2, <2>3, <2>4 DEF SpendInv, CycleWithinCap
<1>4. ASSUME UNCHANGED <<add, spend, rows, cost, cycle>> PROVE SpendInv'
  <2>1. CostSum(cycle)' = CostSum(cycle)
    BY <1>4 DEF CostSum
  <2> QED
    BY <1>4, <2>1 DEF SpendInv, CycleWithinCap
<1>5. ASSUME \/ \E c \in Changes : Change(c)
             \/ \E k \in Reconciles : ReconcileRead(k) \/ ReconcileWrite(k)
             \/ CooldownEnds \/ Traffic \/ UNCHANGED vars
      PROVE  UNCHANGED <<add, spend, rows, cost, cycle>>
  BY <1>5 DEF Change, ChangeLock, ChangeStripe, ChangeStripeFails, ChangeCommit, ChangeAbort,
     ReconcileRead, ReconcileWrite, CooldownEnds, Traffic, vars, ledgerVars, capacityVars, processVars
<1> QED
  BY <1>1, <1>2, <1>3, <1>4, <1>5 DEF Next

\* Concurrent adds cannot both pass the check of max_monthly_spend_cents: what
\* the adds of a cycle cost stays under the cap, also while confirmAddOn
\* rewrites the counter they compare, because it never falls below their cost.
THEOREM CycleSpendIsCapped == Spec => []CycleWithinCap
<1>1. Init => SpendInv
  <2> SUFFICES ASSUME Init PROVE SpendInv
    OBVIOUS
  <2>1. [a \in Adds |-> IF a \in cycle THEN cost[a] ELSE 0] = [a \in Adds |-> 0]
    BY DEF Init
  <2>2. CostSum(cycle) = 0
    BY <2>1, TotalZero DEF CostSum
  <2> QED
    BY <2>2 DEF Init, SpendInv, CycleWithinCap, Holding
<1>2. TypeOK /\ LockInv /\ SpendInv /\ [Next]_vars => SpendInv'
  BY SpendStep
<1>3. TypeOK /\ LockInv /\ [Next]_vars => LockInv'
  BY LockStep
<1>4. SpendInv => CycleWithinCap
  BY DEF SpendInv
<1> QED
  BY <1>1, <1>2, <1>3, <1>4, InitTypes, StepTypes, InitLock, PTL DEF Spec

-----------------------------------------------------------------------------
(* Stale snapshots never over-grant *)

\* No plan change is a downgrade.
Upgrades == \A c \in Changes : \A p \in Plans : IncludedGb[p] <= IncludedGb[PlanOf[c]]

\* What webhooks and reconciles hold is at most what the ledger holds by now.
SnapshotInv ==
  /\ NeverOverGranted
  /\ \A f \in Confirms : confirm[f].pc # "start" => confirm[f].included <= IncludedGb[plan]
  /\ \A f \in Confirms : confirm[f].pc = "sum" => confirm[f].addons <= GbSum(rows)
  /\ \A k \in Reconciles : reconcile[k].pc = "read" =>
       IncludedGb[reconcile[k].plan] <= IncludedGb[plan]

LEMMA SnapshotStep ==
  ASSUME TypeOK, LockInv, ChangeInv, SnapshotInv, [Next]_vars, Upgrades
  PROVE  SnapshotInv'
<1>0. GbSum(rows) \in Nat /\ IncludedGb[plan] \in Nat
  BY SumsType DEF TypeOK
<1>1. ASSUME NEW a \in Adds, AddCommit(a) PROVE SnapshotInv'
  <2>1. a \notin rows
    BY <1>1 DEF AddCommit, LockInv
  <2>2. GbSum(rows') = GbSum(rows) + GbOf[a]
    BY <1>1, <2>1, NewRowAdds DEF AddCommit, TypeOK
  <2>3. /\ allocated' = allocated + GbOf[a]
        /\ UNCHANGED <<plan, confirm, reconcile>>
    BY <1>1 DEF AddCommit
  <2>4. GbOf[a] \in Nat /\ allocated \in Nat /\ \A f \in Confirms : confirm[f].addons \in Nat
    BY DEF TypeOK
  <2> QED
    BY <1>0, <2>2, <2>3, <2>4 DEF SnapshotInv, NeverOverGranted
<1>2. ASSUME NEW f \in Confirms, Confirm(f) PROVE SnapshotInv'
  <2>1. UNCHANGED <<plan, rows, reconcile>> /\ \A g \in Confirms \ {f} : confirm'[g] = confirm[g]
    BY <1>2 DEF Confirm, ConfirmPlan, ConfirmSum, ConfirmWrite, ledgerVars, TypeOK
  <2> DEFINE state == [pc : {"start", "plan", "sum"}, included : Nat, addons : Nat]
  <2>2. confirm \in [Confirms -> state]
    BY DEF TypeOK
  <2>3. CASE ConfirmPlan(f)
    <3>1. confirm'[f] = [confirm[f] EXCEPT !.pc = "plan", !.included = IncludedGb[plan]]
      BY <2>2, <2>3 DEF ConfirmPlan
    <3>2. confirm'[f].pc = "plan" /\ confirm'[f].included = IncludedGb[plan]
      BY <2>2, <3>1
    <3>3. allocated' = allocated
      BY <2>3 DEF ConfirmPlan, capacityVars
    <3> HIDE DEF state
    <3> QED
      BY <1>0, <2>1, <3>2, <3>3 DEF SnapshotInv, NeverOverGranted
  <2>4. CASE ConfirmSum(f)
    <3>1. confirm'[f] = [confirm[f] EXCEPT !.pc = "sum", !.addons = GbSum(rows)]
      BY <2>2, <2>4 DEF ConfirmSum
    <3>2. /\ confirm'[f].pc = "sum" /\ confirm'[f].addons = GbSum(rows)
          /\ confirm'[f].included = confirm[f].included /\ confirm[f].pc = "plan"
      BY <2>2, <2>4, <3>1 DEF ConfirmSum
    <3>3. allocated' = allocated
      BY <2>4 DEF ConfirmSum, capacityVars
    <3> HIDE DEF state
    <3> QED
      BY <1>0, <2>1, <3>2, <3>3 DEF SnapshotInv, NeverOverGranted
  <2>5. CASE ConfirmWrite(f)
    <3>1. confirm[f].included <= IncludedGb[plan] /\ confirm[f].addons <= GbSum(rows)
      BY <2>5 DEF ConfirmWrite, SnapshotInv
    <3>2. allocated' \in {allocated, confirm[f].included + confirm[f].addons}
      BY <2>5 DEF ConfirmWrite
    <3>3. confirm'[f].pc = "start"
      BY <2>5, <2>2 DEF ConfirmWrite
    <3>4. confirm[f].addons \in Nat /\ confirm[f].included \in Nat /\ allocated \in Nat
      BY DEF TypeOK
    <3>5. allocated' <= IncludedGb[plan] + GbSum(rows)
      BY <1>0, <3>1, <3>2, <3>4 DEF SnapshotInv, NeverOverGranted
    <3> HIDE DEF state
    <3> QED
      BY <2>1, <3>3, <3>5 DEF SnapshotInv, NeverOverGranted
  <2> QED
    BY <1>2, <2>3, <2>4, <2>5 DEF Confirm
<1>3. ASSUME NEW k \in Reconciles, ReconcileRead(k) \/ ReconcileWrite(k) PROVE SnapshotInv'
  <2>1. UNCHANGED <<plan, rows, confirm>> /\ \A j \in Reconciles \ {k} : reconcile'[j] = reconcile[j]
    BY <1>3 DEF ReconcileRead, ReconcileWrite, ledgerVars, TypeOK
  <2>2. CASE ReconcileRead(k)
    <3>1. reconcile'[k].plan = plan /\ allocated' = allocated
      BY <2>2 DEF ReconcileRead, TypeOK, capacityVars
    <3> QED
      BY <1>0, <2>1, <3>1 DEF SnapshotInv, NeverOverGranted
  <2>3. CASE ReconcileWrite(k)
    <3>1. IncludedGb[reconcile[k].plan] <= IncludedGb[plan] /\ ReconciledGb = 0
      BY <2>3 DEF ReconcileWrite, SnapshotInv, ReconciledGb, AddonPriceType, ReconciledType
    <3>0. IncludedGb[reconcile[k].plan] \in Nat
      BY DEF TypeOK
    <3>2. allocated' \in {allocated, IncludedGb[reconcile[k].plan]}
      BY <2>3, <3>0, <3>1 DEF ReconcileWrite
    <3>3. reconcile'[k].pc = "start"
      BY <2>3 DEF ReconcileWrite, TypeOK
    <3>4. allocated' <= IncludedGb[plan] + GbSum(rows)
      BY <1>0, <3>0, <3>1, <3>2 DEF SnapshotInv, NeverOverGranted
    <3> QED
      BY <2>1, <3>3, <3>4 DEF SnapshotInv, NeverOverGranted
  <2> QED
    BY <1>3, <2>2, <2>3
<1>4. ASSUME NEW c \in Changes, ChangeCommit(c) PROVE SnapshotInv'
  <2>1. /\ plan' = PlanOf[c] /\ allocated' = change[c].gb
        /\ UNCHANGED <<rows, confirm, reconcile>>
    BY <1>4 DEF ChangeCommit
  <2>2. allocated' = IncludedGb[plan'] + GbSum(rows')
    BY <1>4, <2>1 DEF ChangeCommit, ChangeInv, Swapping
  <2>3. /\ IncludedGb[plan] <= IncludedGb[plan'] /\ IncludedGb[plan'] \in Nat
        /\ \A f \in Confirms : confirm[f].included \in Nat
        /\ \A k \in Reconciles : IncludedGb[reconcile[k].plan] \in Nat
    BY <2>1 DEF Upgrades, TypeOK
  <2> QED
    BY <1>0, <2>1, <2>2, <2>3 DEF SnapshotInv, NeverOverGranted
<1>5. ASSUME UNCHANGED <<allocated, plan, rows, confirm, reconcile>> PROVE SnapshotInv'
  BY <1>5 DEF SnapshotInv, NeverOverGranted
<1>6. ASSUME \/ \E a \in Adds : Add(a) /\ ~AddCommit(a)
             \/ \E c \in Changes : Change(c) /\ ~ChangeCommit(c)
             \/ \E r \in Renewals : Renew(r)
             \/ CooldownEnds \/ Traffic \/ UNCHANGED vars
      PROVE  UNCHANGED <<allocated, plan, rows, confirm, reconcile>>
  BY <1>6 DEF Add, AutoClaim, AddLock, AddList, AddStripe, AddStripeFails, AddAbort,
     Change, ChangeLock, ChangeStripe, ChangeStripeFails, ChangeAbort,
     Renew, CooldownEnds, Traffic, vars, ledgerVars, capacityVars, processVars
<1> QED
  BY <1>1, <1>2, <1>3, <1>4, <1>5, <1>6 DEF Next

\* Without a downgrade, webhooks and reconciles that write what they read long
\* ago, in any number and any order, take capacity away at worst: rows are only
\* ever added, so no stale sum exceeds the ledger.
THEOREM StaleWritesNeverOverGrant ==
  ASSUME Upgrades
  PROVE  Spec => []NeverOverGranted
<1> DEFINE Inv == TypeOK /\ LockInv /\ ChangeInv /\ SnapshotInv
<1>1. Init => Inv
  <2> SUFFICES ASSUME Init PROVE SnapshotInv
    BY InitTypes, InitLock, InitChange
  <2>1. GbSum(rows) = 0
    BY InitSums
  <2>2. allocated = IncludedGb[plan] /\ IncludedGb[plan] \in Nat
    BY DEF Init
  <2> QED
    BY <2>1, <2>2 DEF Init, SnapshotInv, NeverOverGranted
<1>2. Inv /\ [Next]_vars => Inv'
  BY StepTypes, LockStep, ChangeStep, SnapshotStep
<1>3. Inv => NeverOverGranted
  BY DEF SnapshotInv
<1> HIDE DEF Inv
<1> QED
  BY <1>1, <1>2, <1>3, PTL DEF Spec

-----------------------------------------------------------------------------
(* An install without Stripe, beside the one with it *)

\* What a call has read under the lock, or before a downgrade, is of its plan.
CallInv ==
  /\ \A a \in Adds : call[a].at = "locked" => call[a].max = Capacity!MaxGb(tier)
  /\ \A d \in Downgrades : call[d].at = "checked" => call[d].gb = Capacity!MaxGb(TargetOf[d])

CapacityInv ==
  Capacity!TypeOK /\ CallInv /\ Capacity!PlanBounds /\ Capacity!AddsAddUp /\ Capacity!StoredFits

CallPlaces == {"unmade", "start", "locked", "checked", "read", "done", "refused", "reverted",
               "blocked", "failed"}
CallRecord == [at : CallPlaces, gb : Nat, used : Nat, max : Nat]

\* The GB of the adds that are written.
AddedGb(S) == Total([a \in Adds |-> IF a \in S THEN GbOfCall[a] ELSE 0])

LEMMA SameTotal == \A f : Capacity!Total(f) = Total(f)
<1> SUFFICES ASSUME NEW f PROVE Capacity!Total(f) = Total(f)
  OBVIOUS
<1>1. Capacity!AllUnits(f) = AllUnits(f)
  BY DEF Capacity!AllUnits, Capacity!Units, AllUnits, Units
<1>2. Capacity!Cardinality(AllUnits(f)) = Cardinality(AllUnits(f))
  BY Zenon DEF Capacity!Cardinality, Cardinality
<1> QED
  BY <1>1, <1>2 DEF Capacity!Total, Total

LEMMA AddedAsStated ==
  Capacity!AddsAddUp <=>
    (Capacity!NoTool /\ Capacity!Written(Downgrades) = {}
       => granted = SizeOfPlan[FreePlan] + AddedGb(Capacity!Written(Adds)))
BY SameTotal DEF Capacity!AddsAddUp, AddedGb

LEMMA AddedNat == \A S \in SUBSET Adds : AddedGb(S) \in Nat
<1> SUFFICES ASSUME NEW S \in SUBSET Adds PROVE AddedGb(S) \in Nat
  OBVIOUS
<1>1. [a \in Adds |-> IF a \in S THEN GbOfCall[a] ELSE 0] \in [Adds -> Nat]
  BY CapacityAssumption DEF Capacity!SelfHostedAssumption
<1> QED
  BY <1>1, TotalNat DEF AddedGb

LEMMA AddedOneMore ==
  ASSUME NEW S \in SUBSET Adds, NEW a \in Adds, a \notin S
  PROVE  AddedGb(S \cup {a}) = AddedGb(S) + GbOfCall[a]
<1> USE CapacityAssumption DEF Capacity!SelfHostedAssumption
<1> DEFINE old == [b \in Adds |-> IF b \in S THEN GbOfCall[b] ELSE 0]
           new == [b \in Adds |-> IF b \in S \cup {a} THEN GbOfCall[b] ELSE 0]
<1>1. old \in [Adds -> Nat] /\ new \in [Adds -> Nat]
  OBVIOUS
<1>2. \A b \in Adds \ {a} : new[b] = old[b]
  OBVIOUS
<1>3. old[a] = 0 /\ new[a] = GbOfCall[a]
  OBVIOUS
<1>4. AddedGb(S) = Total(old) /\ AddedGb(S \cup {a}) = Total(new)
  BY DEF AddedGb
<1>5. Total(old) \in Nat
  BY <1>1, TotalNat
<1> HIDE DEF old, new
<1>6. Total(new) = Total(old) - old[a] + new[a]
  BY <1>1, <1>2, TotalUpdate
<1> QED
  BY <1>3, <1>4, <1>5, <1>6

LEMMA PlanSizes ==
  /\ \A p \in Plans : Capacity!MaxGb(p) \in Nat /\ SizeOfPlan[p] <= Capacity!MaxGb(p)
  /\ \A d \in Downgrades : TargetOf[d] \in Plans
BY CapacityAssumption DEF Capacity!SelfHostedAssumption, Capacity!MaxGb

LEMMA InitCapacity == Capacity!Init => CapacityInv
<1> USE CapacityAssumption DEF Capacity!SelfHostedAssumption
<1> SUFFICES ASSUME Capacity!Init PROVE CapacityInv
  OBVIOUS
<1>1. \A c \in Capacity!Calls : call[c] \in CallRecord /\ call[c].at \in {"unmade", "start"}
  <2>1. Capacity!Idle \in CallRecord /\ Capacity!Idle.at = "start"
    BY DEF Capacity!Idle, CallRecord, CallPlaces
  <2>2. [Capacity!Idle EXCEPT !.at = "unmade"] \in CallRecord /\ [Capacity!Idle EXCEPT !.at = "unmade"].at = "unmade"
    BY <2>1 DEF CallRecord, CallPlaces
  <2> QED
    BY <2>1, <2>2 DEF Capacity!Init
<1>2. call \in [Capacity!Calls -> CallRecord]
  BY <1>1 DEF Capacity!Init
<1>3. Capacity!TypeOK
  <2>1. \A a \in Adds : call[a].at # "locked" /\ a # None
    BY <1>1 DEF Capacity!Calls
  <2>2. /\ tier \in Plans /\ granted \in Nat /\ filled \in 0 .. MaxUsed /\ relaxed \in BOOLEAN
        /\ turn = None /\ settings \in 0 .. MaxSettings
    BY DEF Capacity!Init
  <2> QED
    BY <1>2, <2>1, <2>2 DEF Capacity!TypeOK, CallRecord, CallPlaces
<1>4. CallInv
  BY <1>1 DEF CallInv, Capacity!Calls
<1>5. Capacity!PlanBounds /\ Capacity!StoredFits
  BY PlanSizes DEF Capacity!Init, Capacity!PlanBounds, Capacity!StoredFits
<1>6. Capacity!AddsAddUp
  <2>1. Capacity!Written(Adds) = {}
    BY <1>1 DEF Capacity!Written, Capacity!Calls
  <2> DEFINE f == [a \in Adds |-> IF a \in {} THEN GbOfCall[a] ELSE 0]
  <2>2. DOMAIN f = Adds /\ \A a \in Adds : f[a] = 0
    OBVIOUS
  <2> HIDE DEF f
  <2>3. Total(f) = 0
    BY <2>2, TotalZero
  <2>4. AddedGb({}) = 0
    BY <2>3 DEF AddedGb, f
  <2> QED
    BY <2>1, <2>4, AddedAsStated DEF Capacity!Init
<1> QED
  BY <1>3, <1>4, <1>5, <1>6 DEF CapacityInv

\* A call that moves without writing, and gives or takes the lock.
LEMMA CallMoves ==
  ASSUME CapacityInv, NEW c \in Capacity!Calls, NEW to \in CallRecord,
         call' = [call EXCEPT ![c] = to], UNCHANGED <<tier, granted, filled, relaxed, settings>>,
         call[c].at # "done", to.at # "done", turn' \in Adds \cup {None},
         \A a \in Adds : call'[a].at = "locked" <=> turn' = a,
         c \in Adds /\ to.at = "locked" => to.max = Capacity!MaxGb(tier),
         c \in Downgrades /\ to.at = "checked" => to.gb = Capacity!MaxGb(TargetOf[c])
  PROVE  CapacityInv'
<1>1. call \in [Capacity!Calls -> CallRecord]
  BY DEF CapacityInv, Capacity!TypeOK, CallRecord, CallPlaces
<1>2. \A b \in Capacity!Calls : call'[b] = IF b = c THEN to ELSE call[b]
  BY <1>1
<1>3. Capacity!TypeOK'
  <2>1. call' \in [Capacity!Calls -> CallRecord]
    BY <1>1
  <2> QED
    BY <2>1 DEF CapacityInv, Capacity!TypeOK, CallRecord, CallPlaces
<1>4. CallInv'
  <2>1. Adds \subseteq Capacity!Calls /\ Downgrades \subseteq Capacity!Calls
    BY DEF Capacity!Calls
  <2>2. \A p : Capacity!MaxGb(p)' = Capacity!MaxGb(p)
    BY DEF Capacity!MaxGb
  <2> QED
    BY <1>2, <2>1, <2>2 DEF CapacityInv, CallInv, Capacity!MaxGb
<1>5. \A b \in Capacity!Calls : call'[b].at = "done" <=> call[b].at = "done"
  BY <1>2
<1>6. /\ Capacity!NoTool' <=> Capacity!NoTool
      /\ Capacity!Written(Adds)' = Capacity!Written(Adds)
      /\ Capacity!Written(Downgrades)' = Capacity!Written(Downgrades)
  BY <1>5 DEF Capacity!NoTool, Capacity!Written, Capacity!Calls
<1>7. Capacity!PlanBounds' /\ Capacity!StoredFits'
  BY <1>6 DEF CapacityInv, Capacity!PlanBounds, Capacity!StoredFits, Capacity!MaxGb
<1>8. Capacity!AddsAddUp'
  BY <1>6 DEF CapacityInv, Capacity!AddsAddUp, Capacity!Total, Capacity!AllUnits, Capacity!Units
<1> QED
  BY <1>3, <1>4, <1>7, <1>8 DEF CapacityInv

\* A write of a call: the storage fits, the calls but it stay, and the amounts
\* are those of the plan or of what was added.
LEMMA CallWrites ==
  ASSUME CapacityInv, NEW c \in Capacity!Calls, NEW gb \in Nat, NEW p \in Plans,
         NEW to \in CallRecord, to.at = "done", call' = [call EXCEPT ![c] = to],
         granted' = gb, tier' = p, relaxed \/ filled <= gb,
         UNCHANGED <<filled, relaxed, settings>>, turn' \in Adds \cup {None},
         \A a \in Adds : call'[a].at = "locked" <=> turn' = a,
         tier' = tier \/ turn' = None,
         (c \in Enlarges \cup Shrinks) \/ (Capacity!NoTool => gb <= Capacity!MaxGb(p)),
         \/ c \in Enlarges \cup Shrinks \cup Downgrades
         \/ c \in Adds /\ call[c].at = "locked" /\ gb = granted + GbOfCall[c]
  PROVE  CapacityInv'
<1>1. call \in [Capacity!Calls -> CallRecord]
  BY DEF CapacityInv, Capacity!TypeOK, CallRecord, CallPlaces
<1>2. \A b \in Capacity!Calls : call'[b] = IF b = c THEN to ELSE call[b]
  BY <1>1
<1>3. Capacity!TypeOK'
  <2>1. call' \in [Capacity!Calls -> CallRecord]
    BY <1>1
  <2> QED
    BY <2>1 DEF CapacityInv, Capacity!TypeOK, CallRecord, CallPlaces
<1>4. CallInv'
  <2>1. ASSUME NEW a \in Adds, call'[a].at = "locked" PROVE call'[a].max = Capacity!MaxGb(tier)'
    <3>1. a \in Capacity!Calls /\ None \notin Adds
      BY CapacityAssumption DEF Capacity!SelfHostedAssumption, Capacity!Calls
    <3>2. turn' = a /\ tier' = tier
      BY <2>1, <3>1
    <3>3. call'[a] = call[a]
      BY <1>2, <2>1, <3>1
    <3> QED
      BY <2>1, <3>2, <3>3 DEF CapacityInv, CallInv, Capacity!MaxGb
  <2>2. ASSUME NEW d \in Downgrades, call'[d].at = "checked"
        PROVE  call'[d].gb = Capacity!MaxGb(TargetOf[d])
    <3>1. call'[d] = call[d]
      BY <1>2, <2>2 DEF Capacity!Calls
    <3> QED
      BY <2>2, <3>1 DEF CapacityInv, CallInv
  <2> QED
    BY <2>1, <2>2 DEF CallInv, Capacity!MaxGb
<1>5. \A b \in Capacity!Calls : call'[b].at = "done" <=> b = c \/ call[b].at = "done"
  BY <1>2
<1>6. Capacity!NoTool' => Capacity!NoTool /\ c \notin Enlarges \cup Shrinks
  BY <1>5 DEF Capacity!NoTool, Capacity!Calls
<1>7. Capacity!PlanBounds' /\ Capacity!StoredFits'
  BY <1>6 DEF CapacityInv, Capacity!PlanBounds, Capacity!StoredFits, Capacity!MaxGb
<1>8. Capacity!AddsAddUp'
  <2>1. SUFFICES ASSUME Capacity!NoTool', Capacity!Written(Downgrades)' = {}
                 PROVE  gb = SizeOfPlan[FreePlan] + AddedGb(Capacity!Written(Adds)')
    BY SameTotal DEF Capacity!AddsAddUp, AddedGb
  <2>2. c \notin Downgrades /\ Capacity!Written(Downgrades) = {}
    BY <1>5, <2>1 DEF Capacity!Written, Capacity!Calls
  <2>3. Capacity!NoTool /\ c \in Adds /\ call[c].at = "locked" /\ gb = granted + GbOfCall[c]
    BY <1>6, <2>1, <2>2
  <2>4. granted = SizeOfPlan[FreePlan] + AddedGb(Capacity!Written(Adds))
    BY <2>2, <2>3, AddedAsStated DEF CapacityInv
  <2>5. Capacity!Written(Adds)' = Capacity!Written(Adds) \cup {c} /\ c \notin Capacity!Written(Adds)
    BY <1>5, <2>3 DEF Capacity!Written, Capacity!Calls
  <2>6. /\ AddedGb(Capacity!Written(Adds)') = AddedGb(Capacity!Written(Adds)) + GbOfCall[c]
        /\ AddedGb(Capacity!Written(Adds)) \in Nat
    <3>1. Capacity!Written(Adds) \in SUBSET Adds
      BY DEF Capacity!Written
    <3> QED
      BY <2>3, <2>5, <3>1, AddedOneMore, AddedNat
  <2>7. GbOfCall[c] \in Nat /\ SizeOfPlan[FreePlan] \in Nat
    BY <2>3, CapacityAssumption DEF Capacity!SelfHostedAssumption
  <2> QED
    BY <2>3, <2>4, <2>6, <2>7
<1> QED
  BY <1>3, <1>4, <1>7, <1>8 DEF CapacityInv

\* Settings and traffic.
LEMMA StorageKeeps ==
  ASSUME CapacityInv, UNCHANGED <<tier, granted, turn, call>>,
         filled' \in 0 .. MaxUsed, relaxed' \in BOOLEAN, settings' \in 0 .. MaxSettings,
         relaxed' \/ filled' <= granted
  PROVE  CapacityInv'
<1>1. Capacity!TypeOK' /\ CallInv'
  BY DEF CapacityInv, Capacity!TypeOK, CallInv, Capacity!MaxGb
<1>2. Capacity!PlanBounds' /\ Capacity!StoredFits'
  BY DEF CapacityInv, Capacity!PlanBounds, Capacity!StoredFits, Capacity!NoTool, Capacity!MaxGb
<1>3. Capacity!AddsAddUp'
  BY DEF CapacityInv, Capacity!AddsAddUp, Capacity!NoTool, Capacity!Written,
     Capacity!Total, Capacity!AllUnits, Capacity!Units
<1> QED
  BY <1>1, <1>2, <1>3 DEF CapacityInv

LEMMA CapacityKeeps == CapacityInv /\ Capacity!Next => CapacityInv'
<1> SUFFICES ASSUME CapacityInv, Capacity!Next PROVE CapacityInv'
  OBVIOUS
<1> USE CapacityAssumption DEF Capacity!SelfHostedAssumption
<1>0. /\ call \in [Capacity!Calls -> CallRecord] /\ tier \in Plans /\ granted \in Nat
      /\ filled \in 0 .. MaxUsed /\ relaxed \in BOOLEAN /\ turn \in Adds \cup {None}
      /\ settings \in 0 .. MaxSettings
      /\ \A a \in Adds : call[a].at = "locked" <=> turn = a
  BY DEF CapacityInv, Capacity!TypeOK, CallRecord, CallPlaces
<1>1. Adds \cup Downgrades \cup Enlarges \cup Shrinks = Capacity!Calls
  BY DEF Capacity!Calls
\* A call reads, and has not begun.
<1>2. ASSUME NEW c \in Capacity!Calls, NEW at \in {"read", "checked"}, NEW gb \in Nat,
             call[c].at = "start", Capacity!Reads(c, at, gb),
             c \in Downgrades /\ at = "checked" => gb = Capacity!MaxGb(TargetOf[c]),
             UNCHANGED <<tier, granted, filled, relaxed, turn, settings>>
      PROVE  CapacityInv'
  <2> DEFINE to == [at |-> at, gb |-> gb, used |-> filled, max |-> 0]
  <2>1. to \in CallRecord /\ to.at = at /\ to.gb = gb
    BY <1>0 DEF CallRecord, CallPlaces
  <2>2. call' = [call EXCEPT ![c] = to]
    BY <1>2 DEF Capacity!Reads
  <2> HIDE DEF to
  <2>3. \A a \in Adds : call'[a].at = "locked" <=> turn' = a
    BY <1>0, <1>1, <1>2, <2>1, <2>2
  <2> QED
    BY <1>0, <1>2, <2>1, <2>2, <2>3, CallMoves
\* A call ends without a write.
<1>3. ASSUME NEW c \in Capacity!Calls, NEW at \in {"refused", "reverted", "blocked", "failed"},
             call[c].at # "done", Capacity!To(c, at),
             UNCHANGED <<tier, granted, filled, relaxed, settings>>,
             turn' = IF call[c].at = "locked" /\ c \in Adds THEN None ELSE turn
      PROVE  CapacityInv'
  <2> DEFINE to == [call[c] EXCEPT !.at = at]
  <2>1. to \in CallRecord /\ to.at = at
    BY <1>0 DEF CallRecord, CallPlaces
  <2>2. call' = [call EXCEPT ![c] = to]
    BY <1>0, <1>3 DEF Capacity!To
  <2> HIDE DEF to
  <2>3. \A a \in Adds : call'[a].at = "locked" <=> turn' = a
    BY <1>0, <1>1, <1>3, <2>1, <2>2
  <2> QED
    BY <1>0, <1>3, <2>1, <2>2, <2>3, CallMoves
<1>4. ASSUME NEW a \in Adds, Capacity!AddRead(a) PROVE CapacityInv'
  BY <1>0, <1>1, <1>2, <1>4 DEF Capacity!AddRead
<1>5. ASSUME NEW a \in Adds, Capacity!AddBegin(a) PROVE CapacityInv'
  <2> DEFINE to == [at |-> "locked", gb |-> call[a].gb, used |-> call[a].used, max |-> Capacity!MaxGb(tier)]
  <2>1. to \in CallRecord /\ to.at = "locked" /\ to.max = Capacity!MaxGb(tier)
    BY <1>0, <1>1, PlanSizes DEF CallRecord, CallPlaces
  <2>2. call' = [call EXCEPT ![a] = to]
    BY <1>0, <1>1, <1>5 DEF Capacity!AddBegin
  <2> HIDE DEF to
  <2>3. \A b \in Adds : call'[b].at = "locked" <=> turn' = b
    BY <1>0, <1>1, <1>5, <2>1, <2>2 DEF Capacity!AddBegin
  <2>4. a \notin Downgrades
    OBVIOUS
  <2> QED
    BY <1>0, <1>1, <1>5, <2>1, <2>2, <2>3, <2>4, CallMoves DEF Capacity!AddBegin
<1>6. ASSUME NEW a \in Adds, Capacity!AddUpdate(a) PROVE CapacityInv'
  <2> DEFINE gb == granted + GbOfCall[a]
  <2>1. /\ call[a].at = "locked" /\ turn = a /\ turn' = None /\ a \in Capacity!Calls
        /\ call[a].max = Capacity!MaxGb(tier) /\ gb \in Nat /\ gb >= granted
        /\ UNCHANGED <<tier, filled, relaxed, settings>>
    BY <1>0, <1>1, <1>6 DEF Capacity!AddUpdate, CapacityInv, CallInv
  <2>2. CASE gb <= call[a].max /\ granted' = gb /\ Capacity!To(a, "done")
    <3> DEFINE to == [call[a] EXCEPT !.at = "done"]
    <3>0. to \in CallRecord /\ to.at = "done"
      BY <1>0, <1>1, <2>1 DEF CallRecord, CallPlaces
    <3>1. call' = [call EXCEPT ![a] = to]
      BY <1>0, <2>1, <2>2 DEF Capacity!To
    <3> HIDE DEF to
    <3>2. \A b \in Adds : call'[b].at = "locked" <=> turn' = b
      BY <1>0, <1>1, <2>1, <3>0, <3>1
    <3>3. relaxed \/ filled <= gb
      BY <1>0, <2>1 DEF CapacityInv, Capacity!StoredFits
    <3>4. /\ gb \in Nat /\ gb = granted + GbOfCall[a] /\ granted' = gb /\ gb <= Capacity!MaxGb(tier)
          /\ tier \in Plans /\ tier' = tier /\ turn' \in Adds \cup {None}
      BY <1>0, <2>1, <2>2
    <3> HIDE DEF gb
    <3> QED
      BY <2>1, <3>0, <3>1, <3>2, <3>3, <3>4, CallWrites
  <2>3. CASE UNCHANGED granted /\ (Capacity!To(a, "refused") \/ Capacity!To(a, "reverted"))
    BY <1>3, <2>1, <2>3
  <2> QED
    BY <1>6, <2>2, <2>3 DEF Capacity!AddUpdate
<1>7. ASSUME NEW d \in Downgrades, Capacity!DowngradeCheck(d) PROVE CapacityInv'
  <2>1. CASE Capacity!To(d, "blocked")
    BY <1>0, <1>1, <1>3, <1>7, <2>1 DEF Capacity!DowngradeCheck
  <2>2. CASE Capacity!Reads(d, "checked", Capacity!MaxGb(TargetOf[d]))
    BY <1>1, <1>2, <1>7, <2>2, PlanSizes DEF Capacity!DowngradeCheck
  <2> QED
    BY <1>7, <2>1, <2>2 DEF Capacity!DowngradeCheck
<1>8. ASSUME NEW d \in Downgrades, Capacity!DowngradeWrite(d) PROVE CapacityInv'
  <2>1. /\ call[d].at = "checked" /\ turn = None /\ UNCHANGED <<filled, relaxed, turn, settings>>
        /\ call[d].gb = Capacity!MaxGb(TargetOf[d]) /\ d \in Capacity!Calls /\ d \notin Adds
    BY <1>1, <1>8 DEF Capacity!DowngradeWrite, CapacityInv, CallInv
  <2>2. CASE /\ Capacity!Fits(call[d].gb, relaxed) /\ tier' = TargetOf[d]
             /\ granted' = call[d].gb /\ Capacity!To(d, "done")
    <3> DEFINE to == [call[d] EXCEPT !.at = "done"]
    <3>0. to \in CallRecord /\ to.at = "done"
      BY <1>0, <1>1, <2>1 DEF CallRecord, CallPlaces
    <3>1. call' = [call EXCEPT ![d] = to]
      BY <1>0, <2>1, <2>2 DEF Capacity!To
    <3> HIDE DEF to
    <3>2. \A b \in Adds : call'[b].at = "locked" <=> turn' = b
      BY <1>0, <1>1, <2>1, <3>0, <3>1
    <3>3. relaxed \/ filled <= call[d].gb
      BY <2>2 DEF Capacity!Fits
    <3> DEFINE gb == call[d].gb
               p == TargetOf[d]
    <3>4. /\ gb \in Nat /\ p \in Plans /\ gb <= Capacity!MaxGb(p) /\ granted' = gb /\ tier' = p
          /\ turn' = None /\ turn' \in Adds \cup {None} /\ (relaxed \/ filled <= gb)
      BY <2>1, <2>2, <3>3, PlanSizes
    <3> HIDE DEF gb, p
    <3> QED
      BY <2>1, <3>0, <3>1, <3>2, <3>4, CallWrites
  <2>3. CASE UNCHANGED <<tier, granted>> /\ Capacity!To(d, "failed")
    BY <1>3, <2>1, <2>3
  <2> QED
    BY <1>8, <2>2, <2>3 DEF Capacity!DowngradeWrite
<1>9. ASSUME NEW t \in Enlarges \cup Shrinks, Capacity!ToolRead(t) PROVE CapacityInv'
  BY <1>0, <1>1, <1>2, <1>9 DEF Capacity!ToolRead
<1>10. ASSUME NEW t \in Enlarges \cup Shrinks, NEW gb \in Nat, call[t].at = "read",
              Capacity!ToolStores(t, gb)
       PROVE  CapacityInv'
  <2>1. t \in Capacity!Calls /\ UNCHANGED <<tier, filled, relaxed, turn, settings>>
    BY <1>1, <1>10 DEF Capacity!ToolStores
  <2>2. CASE Capacity!Fits(gb, relaxed) /\ granted' = gb /\ Capacity!To(t, "done")
    <3> DEFINE to == [call[t] EXCEPT !.at = "done"]
    <3>0. to \in CallRecord /\ to.at = "done"
      BY <1>0, <1>1, <2>1 DEF CallRecord, CallPlaces
    <3>1. call' = [call EXCEPT ![t] = to]
      BY <1>0, <2>1, <2>2 DEF Capacity!To
    <3> HIDE DEF to
    <3>2. \A b \in Adds : call'[b].at = "locked" <=> turn' = b
      BY <1>0, <1>1, <1>10, <2>1, <3>0, <3>1
    <3>3. relaxed \/ filled <= gb
      BY <2>2 DEF Capacity!Fits
    <3> QED
      BY <1>0, <1>10, <2>1, <2>2, <3>0, <3>1, <3>2, <3>3, CallWrites
  <2>3. CASE UNCHANGED granted /\ Capacity!To(t, "failed")
    BY <1>3, <1>10, <2>1, <2>3
  <2> QED
    BY <1>10, <2>2, <2>3 DEF Capacity!ToolStores
<1>11. ASSUME NEW t \in Enlarges, Capacity!ToolAdd(t) PROVE CapacityInv'
  <2>1. Capacity!Enlarged(t) \in Nat
    BY <1>0, <1>1 DEF Capacity!Enlarged, CallRecord
  <2> QED
    BY <1>10, <1>11, <2>1 DEF Capacity!ToolAdd
<1>12. ASSUME NEW t \in Shrinks, Capacity!ToolRemove(t) PROVE CapacityInv'
  <2>1. Capacity!Shrunk(t) \in Int
    BY <1>0, <1>1 DEF Capacity!Shrunk, CallRecord
  <2>2. CASE Capacity!Shrunk(t) >= 0 /\ Capacity!ToolStores(t, Capacity!Shrunk(t))
    BY <1>10, <1>12, <2>1, <2>2 DEF Capacity!ToolRemove
  <2>3. CASE Capacity!To(t, "refused") /\ UNCHANGED <<tier, granted, filled, relaxed, turn, settings>>
    BY <1>1, <1>3, <1>12, <2>3 DEF Capacity!ToolRemove
  <2> QED
    BY <1>12, <2>1, <2>2, <2>3 DEF Capacity!ToolRemove
<1>13. CASE Capacity!SetAuto
  BY <1>0, <1>13, StorageKeeps DEF Capacity!SetAuto, Capacity!Fits
<1>14. CASE Capacity!Traffic
  <2>1. PICK u \in 0 .. MaxUsed : filled' = u /\ (u < filled \/ u <= granted \/ relaxed)
    BY <1>14 DEF Capacity!Traffic
  <2>2. relaxed \/ filled' <= granted
    BY <1>0, <2>1 DEF CapacityInv, Capacity!StoredFits
  <2> QED
    BY <1>0, <1>14, <2>1, <2>2, StorageKeeps DEF Capacity!Traffic
<1> QED
  BY <1>4, <1>5, <1>6, <1>7, <1>8, <1>9, <1>11, <1>12, <1>13, <1>14
     DEF Capacity!Next, Capacity!Requests, Capacity!Add

\* For any plans, sizes, calls and overlaps of an install without Stripe, the
\* API allocates no more than plan and add-ons allow, no add is lost, and
\* nothing leaves more stored than allocated while auto-capacity is off.
THEOREM CapacityWithoutStripe == MCSpec => []CapacityHolds
<1> DEFINE Inv == part = "selfHosted" => CapacityInv
<1>1. MCInit => Inv
  BY InitCapacity DEF MCInit
<1>2. Inv /\ [MCNext]_mcVars => Inv'
  <2> SUFFICES ASSUME Inv, [MCNext]_mcVars, part' = "selfHosted" PROVE CapacityInv'
    OBVIOUS
  <2>1. CASE Capacity!Next /\ part = "selfHosted"
    BY <2>1, CapacityKeeps
  <2>2. CASE UNCHANGED mcVars
    <3>1. part = "selfHosted" /\ UNCHANGED selfHostedVars
      BY <2>2 DEF mcVars
    <3> QED
      BY <3>1, StorageKeeps DEF selfHostedVars, CapacityInv, Capacity!TypeOK, Capacity!StoredFits
  <2> QED
    BY <2>1, <2>2 DEF MCNext
<1>3. Inv => CapacityHolds
  BY DEF CapacityInv, CapacityHolds
<1> QED
  BY <1>1, <1>2, <1>3, PTL DEF MCSpec

-----------------------------------------------------------------------------
(* The prices of a plan (PriceSync) *)

HIDE EntitlementAssumption

\* The prices, the script and the plan row.
PriceRecord ==
  [id : 1 .. MaxStripe, product : products, type : Pricing!Types, amount : Nat, active : BOOLEAN]
Amounts == {[base |-> 9, addon |-> 4], [base |-> 9, addon |-> 3]}
SyncPlaces == Pricing!Types \cup {"idle", "product", "list", "save"}
SyncTypes ==
  /\ products \subseteq 1 .. MaxStripe /\ found \subseteq products /\ prices \subseteq PriceRecord
  /\ priced \in [amounts : Amounts \cup {None}, product : products \cup {None},
                 ids : [Pricing!Types -> 1 .. MaxStripe \cup {None}]]
  /\ sync \in [at : SyncPlaces, product : products \cup {None}, listed : SUBSET prices,
               ids : [Pricing!Types -> 1 .. MaxStripe \cup {None}], amounts : Amounts \cup {None}]
  /\ runs \in 0 .. MaxRuns

\* An id belongs to one price, and of a product and type one price is active.
PricesDiffer ==
  \A p, q \in prices :
    p.id = q.id \/ (p.active /\ q.active /\ p.product = q.product /\ p.type = q.type) => p = q

\* The types that the script has still to settle, and those it has settled.
Ahead(t) == sync.at = "base" \/ (sync.at = "addon" /\ t = "addon")
Settled(t) == sync.at = "save" \/ (sync.at = "addon" /\ t = "base")
Sold(t) ==
  \E p \in prices : /\ p.id = sync.ids[t] /\ p.active /\ p.product = sync.product /\ p.type = t
                    /\ p.amount = sync.amounts[t]

\* What the script has listed is what is active; what it has settled is sold,
\* at the amounts that the row has.
SyncInv ==
  /\ sync.at # "idle" => sync.amounts \in Amounts /\ sync.amounts = priced.amounts
  /\ sync.at \in Pricing!Types \cup {"list", "save"} => sync.product \in products
  /\ \A t \in Pricing!Types :
       /\ Ahead(t) => Pricing!Listed(t) = Pricing!Active(sync.product, t)
       /\ Settled(t) => Sold(t)

PriceInv == SyncTypes /\ PricesDiffer /\ SyncInv

\* An id that is given out is new.
LEMMA FreshId ==
  ASSUME SyncTypes
  PROVE  Pricing!NextId \in Nat /\ Pricing!NextId >= 1 /\ Pricing!NextId \notin Pricing!Ids
<1> USE PricingAssumption DEF Pricing!PriceSyncAssumption
<1>1. Pricing!Ids \subseteq 1 .. MaxStripe
  BY DEF Pricing!Ids, SyncTypes, PriceRecord
<1>2. CASE Pricing!Ids = {}
  BY <1>2 DEF Pricing!NextId
<1>3. CASE Pricing!Ids # {}
  <2> DEFINE T == {MaxStripe - i : i \in Pricing!Ids}
             R == {ss \in Nat \X Nat : ss[1] < ss[2]}
  <2>1. IsWellFoundedOn(R, Nat)
    BY NatLessThanWellFounded DEF OpToRel
  <2>2. T \subseteq Nat /\ T # {}
    <3>1. \A i \in Pricing!Ids : MaxStripe - i \in Nat
      <4> TAKE i \in Pricing!Ids
      <4>1. i \in 1 .. MaxStripe
        BY <1>1
      <4> QED
        BY <4>1
    <3>2. PICK i \in Pricing!Ids : TRUE
      BY <1>3
    <3>3. MaxStripe - i \in T
      OBVIOUS
    <3> QED
      BY <3>1, <3>3
  <2>3. \E x \in T : \A y \in T : ~(<<y, x>> \in R)
    <3> HIDE DEF T, R
    <3> QED
      BY <2>1, <2>2, WFMin
  <2>4. PICK x \in T : \A y \in T : ~(y < x)
    BY <2>2, <2>3
  <2>5. PICK m \in Pricing!Ids : x = MaxStripe - m
    BY <2>4
  <2>6. \A i \in Pricing!Ids : m >= i
    <3> TAKE i \in Pricing!Ids
    <3>1. ~(MaxStripe - i < MaxStripe - m)
      BY <2>4, <2>5
    <3> QED
      BY <3>1, <1>1
  <2>7. Pricing!Max(Pricing!Ids) \in Pricing!Ids /\ \A i \in Pricing!Ids : Pricing!Max(Pricing!Ids) >= i
    BY <2>6 DEF Pricing!Max
  <2> DEFINE top == Pricing!Max(Pricing!Ids)
  <2>8. Pricing!NextId = top + 1
    BY <1>3 DEF Pricing!NextId
  <2>9. top \in 1 .. MaxStripe /\ \A i \in Pricing!Ids : top >= i
    BY <1>1, <2>7
  <2> HIDE DEF top
  <2> QED
    BY <2>8, <2>9
<1> QED
  BY <1>2, <1>3

LEMMA InitPrices == Pricing!Init => PriceInv
<1> USE PricingAssumption DEF Pricing!PriceSyncAssumption
<1> SUFFICES ASSUME Pricing!Init PROVE PriceInv
  OBVIOUS
<1>1. SyncTypes
  BY DEF Pricing!Init, SyncTypes, Pricing!Idle, SyncPlaces
<1>2. PricesDiffer /\ SyncInv
  BY DEF Pricing!Init, PricesDiffer, SyncInv, Pricing!Idle, Ahead, Settled, Pricing!Types
<1> QED
  BY <1>1, <1>2 DEF PriceInv

\* A price of a type is kept or made: the script goes on to the next type.
LEMMA TypeSettled ==
  ASSUME PriceInv, NEW t \in Pricing!Types, sync.at = t, NEW id \in 1 .. MaxStripe,
         Pricing!Settles(t, id), UNCHANGED <<priced, products, found, runs>>,
         prices' \subseteq PriceRecord, prices \subseteq prices', PricesDiffer',
         \A u \in Pricing!Types \ {t} :
           Pricing!Active(sync.product, u)' = Pricing!Active(sync.product, u),
         \E p \in prices' : /\ p.id = id /\ p.active /\ p.product = sync.product /\ p.type = t
                            /\ p.amount = sync.amounts[t]
  PROVE  PriceInv'
<1>1. SyncTypes /\ SyncInv
  BY DEF PriceInv
<1>2. sync' = [sync EXCEPT !.at = Pricing!Following(t), !.ids[t] = id]
  BY DEF Pricing!Settles
<1>3. /\ sync'.at = IF t = "base" THEN "addon" ELSE "save"
      /\ sync'.product = sync.product /\ sync'.listed = sync.listed /\ sync'.amounts = sync.amounts
      /\ sync'.ids[t] = id /\ \A u \in Pricing!Types \ {t} : sync'.ids[u] = sync.ids[u]
  BY <1>1, <1>2 DEF SyncTypes, Pricing!Following
<1>4. SyncTypes'
  <2>1. sync'.ids \in [Pricing!Types -> 1 .. MaxStripe \cup {None}]
    BY <1>1, <1>2 DEF SyncTypes
  <2>2. sync' \in [at : SyncPlaces, product : products \cup {None}, listed : SUBSET prices',
               ids : [Pricing!Types -> 1 .. MaxStripe \cup {None}], amounts : Amounts \cup {None}]
    BY <1>1, <1>2, <2>1 DEF SyncTypes, SyncPlaces, Pricing!Following, Pricing!Types
  <2> QED
    BY <1>1, <2>2 DEF SyncTypes, PriceRecord
<1>5. SyncInv'
  <2>1. \A u \in Pricing!Types : Ahead(u)' => u # t /\ Ahead(u)
    BY <1>3 DEF Ahead, Pricing!Types
  <2>2. \A u \in Pricing!Types : Ahead(u)' => Pricing!Listed(u)' = Pricing!Active(sync.product, u)'
    BY <1>1, <1>3, <2>1 DEF SyncInv, Pricing!Listed
  <2>3. \A u \in Pricing!Types : Settled(u)' => u = t \/ Settled(u)
    BY <1>3 DEF Settled, Pricing!Types
  <2>4. Sold(t)'
    BY <1>3 DEF Sold
  <2>5. \A u \in Pricing!Types \ {t} : Sold(u) => Sold(u)'
    BY <1>3 DEF Sold
  <2>6. sync'.amounts \in Amounts /\ sync'.amounts = priced'.amounts /\ sync'.product \in products'
    BY <1>1, <1>3 DEF SyncInv, Pricing!Types
  <2> QED
    BY <1>1, <1>3, <2>2, <2>3, <2>4, <2>5, <2>6 DEF SyncInv
<1> QED
  BY <1>4, <1>5 DEF PriceInv

LEMMA PricesKeep ==
  ASSUME PriceInv, Pricing!Next
  PROVE  PriceInv'
<1> USE PricingAssumption DEF Pricing!PriceSyncAssumption, Pricing!Types
<1>1. SyncTypes /\ PricesDiffer /\ SyncInv
  BY DEF PriceInv
<1>2. CASE Pricing!Start
  <2>1. PICK d \in Amounts :
          /\ priced' = [priced EXCEPT !.amounts = d]
          /\ sync' = [Pricing!Idle EXCEPT !.at = "product", !.product = priced.product, !.amounts = d]
    BY <1>2 DEF Pricing!Start, Amounts
  <2>2. SyncTypes'
    <3>1. runs' \in 0 .. MaxRuns
      BY <1>1, <1>2 DEF Pricing!Start, SyncTypes
    <3>2. priced' \in [amounts : Amounts \cup {None}, product : products \cup {None},
                       ids : [Pricing!Types -> 1 .. MaxStripe \cup {None}]]
      BY <1>1, <2>1 DEF SyncTypes
    <3>3. Pricing!Idle \in [at : SyncPlaces, product : products \cup {None}, listed : SUBSET prices,
               ids : [Pricing!Types -> 1 .. MaxStripe \cup {None}], amounts : Amounts \cup {None}]
      BY DEF Pricing!Idle, SyncPlaces
    <3>4. priced.product \in products \cup {None} /\ "product" \in SyncPlaces
      BY <1>1 DEF SyncTypes, SyncPlaces
    <3>5. sync' \in [at : SyncPlaces, product : products \cup {None}, listed : SUBSET prices,
               ids : [Pricing!Types -> 1 .. MaxStripe \cup {None}], amounts : Amounts \cup {None}]
      BY <2>1, <3>3, <3>4
    <3> QED
      BY <1>1, <1>2, <3>1, <3>2, <3>5 DEF Pricing!Start, SyncTypes, PriceRecord
  <2>3. SyncInv'
    <3>1. sync'.at = "product" /\ sync'.amounts = d /\ priced'.amounts = d
      BY <1>1, <2>1 DEF SyncTypes, Pricing!Idle
    <3> QED
      BY <3>1 DEF SyncInv, Ahead, Settled
  <2>4. PricesDiffer'
    BY <1>1, <1>2 DEF Pricing!Start, PricesDiffer
  <2> QED
    BY <2>2, <2>3, <2>4 DEF PriceInv
<1>3. CASE Pricing!Product
  <2>1. PICK p \in 1 .. MaxStripe :
          /\ p \in products' /\ products \subseteq products' /\ products' \subseteq 1 .. MaxStripe
          /\ sync' = [sync EXCEPT !.at = "list", !.product = p]
    <3>1. CASE sync.product # None /\ UNCHANGED products /\ sync' = [sync EXCEPT !.at = "list"]
      BY <1>1, <3>1 DEF SyncTypes
    <3>2. CASE UNCHANGED products /\ \E p \in found : sync' = [sync EXCEPT !.at = "list", !.product = p]
      BY <1>1, <3>2 DEF SyncTypes
    <3>3. CASE /\ Pricing!NextId <= MaxStripe /\ products' = products \cup {Pricing!NextId}
               /\ sync' = [sync EXCEPT !.at = "list", !.product = Pricing!NextId]
      <4>1. Pricing!NextId \in 1 .. MaxStripe
        BY <1>1, <3>3, FreshId
      <4> QED
        BY <1>1, <3>3, <4>1 DEF SyncTypes
    <3> QED
      BY <1>3, <3>1, <3>2, <3>3 DEF Pricing!Product
  <2>2. SyncTypes'
    BY <1>1, <1>3, <2>1 DEF Pricing!Product, SyncTypes, SyncPlaces, PriceRecord
  <2>3. SyncInv'
    <3>1. sync'.at = "list" /\ sync'.amounts = sync.amounts /\ sync'.product \in products'
      BY <1>1, <2>1 DEF SyncTypes
    <3> QED
      BY <1>1, <1>3, <3>1 DEF Pricing!Product, SyncInv, Ahead, Settled
  <2>4. PricesDiffer'
    BY <1>1, <1>3 DEF Pricing!Product, PricesDiffer
  <2> QED
    BY <2>2, <2>3, <2>4 DEF PriceInv
<1>4. CASE Pricing!List
  <2>1. /\ sync'.at = "base" /\ sync'.product = sync.product /\ sync'.amounts = sync.amounts
        /\ sync'.listed = {p \in prices : p.product = sync.product /\ p.active}
    BY <1>1, <1>4 DEF Pricing!List, SyncTypes
  <2>2. SyncTypes'
    <3>1. {p \in prices : p.product = sync.product /\ p.active} \in SUBSET prices
      OBVIOUS
    <3> QED
      BY <1>1, <1>4, <3>1 DEF Pricing!List, SyncTypes, SyncPlaces, PriceRecord
  <2>3. \A t \in Pricing!Types : Pricing!Listed(t)' = Pricing!Active(sync.product, t)'
    BY <1>4, <2>1 DEF Pricing!List, Pricing!Listed, Pricing!Active
  <2>4. SyncInv'
    BY <1>1, <1>4, <2>1, <2>3 DEF Pricing!List, SyncInv, Settled
  <2>5. PricesDiffer'
    BY <1>1, <1>4 DEF Pricing!List, PricesDiffer
  <2> QED
    BY <2>2, <2>4, <2>5 DEF PriceInv
<1>5. ASSUME NEW t \in Pricing!Types, Pricing!Keep(t) PROVE PriceInv'
  <2>1. PICK p \in Pricing!Listed(t) : p.amount = sync.amounts[t] /\ Pricing!Settles(t, p.id)
    BY <1>5 DEF Pricing!Keep
  <2>2. sync.at = t /\ UNCHANGED <<priced, products, found, prices, runs>>
    BY <1>5 DEF Pricing!Keep
  <2>3. p \in Pricing!Active(sync.product, t)
    BY <1>1, <2>1, <2>2 DEF SyncInv, Ahead
  <2>4. p \in prices /\ p.id \in 1 .. MaxStripe /\ p.active /\ p.product = sync.product /\ p.type = t
    BY <1>1, <2>3 DEF Pricing!Active, SyncTypes, PriceRecord
  <2>5. prices' \subseteq PriceRecord /\ PricesDiffer'
    BY <1>1, <2>2 DEF SyncTypes, PricesDiffer
  <2>6. \A u \in Pricing!Types \ {t} : Pricing!Active(sync.product, u)' = Pricing!Active(sync.product, u)
    <3>1. sync'.product = sync.product
      BY <1>1, <2>1 DEF Pricing!Settles, SyncTypes
    <3> QED
      BY <2>2, <3>1 DEF Pricing!Active
  <2> QED
    BY <2>1, <2>2, <2>4, <2>5, <2>6, TypeSettled
<1>6. ASSUME NEW t \in Pricing!Types, Pricing!Retire(t) PROVE PriceInv'
  <2>1. PICK p \in Pricing!Listed(t) : prices' = Pricing!Deactivated(p)
    BY <1>6 DEF Pricing!Retire
  <2>2. /\ sync.at = t /\ sync' = [sync EXCEPT !.listed = @ \ Pricing!Listed(t)]
        /\ UNCHANGED <<priced, products, found, runs>>
    BY <1>6 DEF Pricing!Retire
  <2>3. Pricing!Listed(t) = Pricing!Active(sync.product, t)
    BY <1>1, <2>2 DEF SyncInv, Ahead
  <2>4. p \in prices /\ p.active /\ p.product = sync.product /\ p.type = t
    BY <2>1, <2>3 DEF Pricing!Active
  <2> DEFINE off == [p EXCEPT !.active = FALSE]
  <2>5. /\ off \in PriceRecord /\ ~off.active /\ off.id = p.id /\ off.product = p.product /\ off.type = p.type
    <3>1. p \in PriceRecord
      BY <1>1, <2>4 DEF SyncTypes
    <3> QED
      BY <3>1 DEF PriceRecord
  <2>6. prices' = (prices \ {p}) \cup {off}
    BY <2>1 DEF Pricing!Deactivated
  <2> HIDE DEF off
  <2>7. PricesDiffer'
    BY <1>1, <2>4, <2>5, <2>6 DEF PricesDiffer
  <2>8. /\ sync'.at = t /\ sync'.product = sync.product /\ sync'.amounts = sync.amounts
        /\ sync'.ids = sync.ids /\ sync'.listed = sync.listed \ Pricing!Listed(t)
    BY <1>1, <2>2 DEF SyncTypes
  <2>9. SyncTypes'
    <3>1. sync.listed \ Pricing!Listed(t) \subseteq prices \ {p}
      BY <1>1, <2>1 DEF SyncTypes
    <3>2. sync.listed \ Pricing!Listed(t) \in SUBSET prices'
      BY <2>6, <3>1
    <3>3. prices' \subseteq PriceRecord
      BY <1>1, <2>5, <2>6 DEF SyncTypes
    <3> QED
      BY <1>1, <2>2, <3>2, <3>3 DEF SyncTypes, PriceRecord
  <2>10. \A u \in Pricing!Types : Ahead(u) => Pricing!Listed(u)' = Pricing!Active(sync.product, u)'
    <3> SUFFICES ASSUME NEW u \in Pricing!Types, Ahead(u)
                 PROVE  Pricing!Listed(u)' = Pricing!Active(sync.product, u)'
      OBVIOUS
    <3>1. Pricing!Listed(u) = Pricing!Active(sync.product, u)
      BY <1>1 DEF SyncInv
    <3>2. CASE u = t
      <4>1. Pricing!Listed(u)' = {}
        BY <2>8, <3>2 DEF Pricing!Listed
      <4>2. Pricing!Active(sync.product, u)' = {}
        BY <1>1, <2>4, <2>5, <2>6, <2>8, <3>2 DEF Pricing!Active, PricesDiffer
      <4> QED
        BY <4>1, <4>2
    <3>3. CASE u # t
      <4>1. Pricing!Listed(u)' = Pricing!Listed(u)
        BY <2>8, <3>3 DEF Pricing!Listed
      <4>2. Pricing!Active(sync.product, u)' = Pricing!Active(sync.product, u)
        BY <2>4, <2>5, <2>6, <2>8, <3>3 DEF Pricing!Active
      <4> QED
        BY <3>1, <4>1, <4>2
    <3> QED
      BY <3>2, <3>3
  <2>11. \A u \in Pricing!Types : Settled(u) => Sold(u)'
    <3> SUFFICES ASSUME NEW u \in Pricing!Types, Settled(u) PROVE Sold(u)'
      OBVIOUS
    <3>1. u # t
      BY <2>2 DEF Settled
    <3>2. PICK q \in prices :
            /\ q.id = sync.ids[u] /\ q.active /\ q.product = sync.product /\ q.type = u
            /\ q.amount = sync.amounts[u]
      BY <1>1 DEF SyncInv, Sold
    <3>3. q \in prices'
      BY <2>4, <2>6, <3>1, <3>2
    <3> QED
      BY <2>8, <3>2, <3>3 DEF Sold
  <2>12. SyncInv'
    <3>1. \A u \in Pricing!Types : (Ahead(u)' => Ahead(u)) /\ (Settled(u)' => Settled(u))
      BY <2>2, <2>8 DEF Ahead, Settled
    <3> QED
      BY <1>1, <2>2, <2>8, <2>10, <2>11, <3>1 DEF SyncInv
  <2> QED
    BY <2>7, <2>9, <2>12 DEF PriceInv
<1>7. ASSUME NEW t \in Pricing!Types, Pricing!Create(t) PROVE PriceInv'
  <2> DEFINE id == Pricing!NextId
             new == [id |-> id, product |-> sync.product, type |-> t, amount |-> sync.amounts[t], active |-> TRUE]
  <2>1. /\ sync.at = t /\ Pricing!Listed(t) = {} /\ id <= MaxStripe /\ Pricing!Settles(t, id)
        /\ prices' = prices \cup {new} /\ UNCHANGED <<priced, products, found, runs>>
    BY <1>7 DEF Pricing!Create, Pricing!NewPrice
  <2>2. id \in 1 .. MaxStripe /\ id \notin Pricing!Ids
    BY <1>1, <2>1, FreshId
  <2>3. sync.product \in products /\ sync.amounts \in Amounts
    BY <1>1, <2>1 DEF SyncInv
  <2>4. sync.amounts[t] \in Nat
    BY <2>3 DEF Amounts
  <2>5. new \in PriceRecord /\ new.id = id /\ new.product = sync.product /\ new.type = t /\ new.active
        /\ new.amount = sync.amounts[t]
    BY <2>2, <2>3, <2>4 DEF PriceRecord
  <2>6. Pricing!Active(sync.product, t) = {}
    BY <1>1, <2>1 DEF SyncInv, Ahead
  <2>7. \A p \in prices : p.id # id
    BY <2>2 DEF Pricing!Ids
  <2> HIDE DEF id, new
  <2>8. PricesDiffer'
    BY <1>1, <2>1, <2>5, <2>6, <2>7 DEF PricesDiffer, Pricing!Active
  <2>9. sync'.product = sync.product
    BY <1>1, <2>1 DEF SyncTypes, Pricing!Settles
  <2>10. \A u \in Pricing!Types \ {t} : Pricing!Active(sync.product, u)' = Pricing!Active(sync.product, u)
    BY <2>1, <2>5, <2>9 DEF Pricing!Active
  <2>11. prices' \subseteq PriceRecord
    BY <1>1, <2>1, <2>5 DEF SyncTypes
  <2>12. \E p \in prices' : /\ p.id = id /\ p.active /\ p.product = sync.product /\ p.type = t
                            /\ p.amount = sync.amounts[t]
    BY <2>1, <2>5
  <2> QED
    BY <2>1, <2>2, <2>8, <2>10, <2>11, <2>12, TypeSettled
<1>8. CASE Pricing!Save
  <2>1. sync' = Pricing!Idle /\ priced' = [priced EXCEPT !.product = sync.product, !.ids = sync.ids]
        /\ UNCHANGED <<products, found, prices, runs>>
    BY <1>8 DEF Pricing!Save
  <2>2. SyncTypes'
    BY <1>1, <2>1 DEF SyncTypes, Pricing!Idle, SyncPlaces, PriceRecord
  <2>3. SyncInv' /\ PricesDiffer'
    BY <1>1, <2>1 DEF SyncInv, PricesDiffer, Pricing!Idle, Ahead, Settled
  <2> QED
    BY <2>2, <2>3 DEF PriceInv
<1>9. CASE Pricing!Dies
  <2>1. SyncTypes'
    BY <1>1, <1>9 DEF Pricing!Dies, SyncTypes, Pricing!Idle, SyncPlaces, PriceRecord
  <2>2. SyncInv' /\ PricesDiffer'
    BY <1>1, <1>9 DEF Pricing!Dies, SyncInv, PricesDiffer, Pricing!Idle, Ahead, Settled
  <2> QED
    BY <2>1, <2>2 DEF PriceInv
<1>10. CASE Pricing!Indexed
  <2>1. SyncTypes' /\ PricesDiffer'
    BY <1>1, <1>10 DEF Pricing!Indexed, SyncTypes, PricesDiffer, PriceRecord
  <2>2. SyncInv'
    BY <1>1, <1>10 DEF Pricing!Indexed, SyncInv, Ahead, Settled, Sold, Pricing!Listed, Pricing!Active
  <2> QED
    BY <2>1, <2>2 DEF PriceInv
<1> QED
  BY <1>2, <1>3, <1>4, <1>5, <1>6, <1>7, <1>8, <1>9, <1>10 DEF Pricing!Next, Pricing!Prices

\* A run saves what it has settled, and makes no second product beside one that
\* the search finds.
SavesWhatIsSold ==
  Pricing!Save => \A t \in Pricing!Types : \E p \in prices' :
    p.id = priced'.ids[t] /\ p.active /\ p.product = priced'.product /\ p.amount = priced'.amounts[t]
KeepsItsProduct == (found = products /\ products # {}) => products' = products

LEMMA PriceSteps == PriceInv /\ Pricing!Next => SavesWhatIsSold /\ KeepsItsProduct
<1> SUFFICES ASSUME PriceInv, Pricing!Next PROVE SavesWhatIsSold /\ KeepsItsProduct
  OBVIOUS
<1>1. SavesWhatIsSold
  <2> SUFFICES ASSUME Pricing!Save, NEW t \in Pricing!Types
               PROVE  \E p \in prices' : /\ p.id = priced'.ids[t] /\ p.active /\ p.product = priced'.product
                                         /\ p.amount = priced'.amounts[t]
    BY DEF SavesWhatIsSold
  <2>1. Sold(t) /\ sync.amounts = priced.amounts
    BY DEF PriceInv, SyncInv, Settled, Pricing!Save
  <2>2. priced'.ids = sync.ids /\ priced'.product = sync.product /\ priced'.amounts = priced.amounts
    BY DEF PriceInv, SyncTypes, Pricing!Save
  <2> QED
    BY <2>1, <2>2 DEF Sold, Pricing!Save
<1>2. KeepsItsProduct
  BY DEF KeepsItsProduct, Pricing!Next, Pricing!Start, Pricing!Product, Pricing!List, Pricing!Prices,
         Pricing!Keep, Pricing!Retire, Pricing!Create, Pricing!Save, Pricing!Dies, Pricing!Indexed
<1> QED
  BY <1>1, <1>2

\* For any number of runs of setup:stripe that die anywhere: of a product and
\* type at most one price is active, the plan row that a run saves has active
\* prices of its amounts, and while the search keeps up the tier keeps its
\* product.
THEOREM PlansAreSoldAtOnePrice == MCSpec => PricesHold
<1> DEFINE Inv == part = "prices" => PriceInv
<1>1. MCInit => Inv
  BY InitPrices DEF MCInit
<1>2. Inv /\ [MCNext]_mcVars => Inv'
  <2> SUFFICES ASSUME Inv, [MCNext]_mcVars, part' = "prices" PROVE PriceInv'
    OBVIOUS
  <2>1. CASE Pricing!Next /\ part = "prices"
    BY <2>1, PricesKeep
  <2>2. CASE UNCHANGED mcVars
    <3>1. part = "prices" /\ UNCHANGED priceVars
      BY <2>2 DEF mcVars
    <3> QED
      BY <3>1 DEF priceVars, PriceInv, SyncTypes, PriceRecord, PricesDiffer, SyncInv, Ahead, Settled,
                  Sold, Pricing!Listed, Pricing!Active
  <2> QED
    BY <2>1, <2>2 DEF MCNext
<1>3. Inv => (part = "prices" => Pricing!TypeOK /\ Pricing!OneActive)
  <2> SUFFICES ASSUME PriceInv PROVE Pricing!TypeOK /\ Pricing!OneActive
    OBVIOUS
  <2>1. Pricing!TypeOK
    BY DEF PriceInv, SyncTypes, PriceRecord, PricesDiffer, SyncPlaces, Pricing!TypeOK, Pricing!Types
  <2>2. ASSUME NEW x \in products, NEW t \in Pricing!Types
        PROVE  Pricing!Cardinality(Pricing!Active(x, t)) <= 1
    <3>1. Pricing!Cardinality(Pricing!Active(x, t)) = Cardinality(Pricing!Active(x, t))
      BY Zenon DEF Pricing!Cardinality, Cardinality
    <3>2. CASE Pricing!Active(x, t) = {}
      BY <3>1, <3>2, FS_EmptySet
    <3>3. CASE Pricing!Active(x, t) # {}
      <4>1. PICK p \in Pricing!Active(x, t) : TRUE
        BY <3>3
      <4>2. Pricing!Active(x, t) = {p}
        BY <4>1 DEF PriceInv, PricesDiffer, Pricing!Active
      <4>3. Cardinality({p}) = 1
        BY FS_Singleton
      <4> QED
        BY <3>1, <4>2, <4>3
    <3> QED
      BY <3>2, <3>3
  <2> QED
    BY <2>1, <2>2 DEF Pricing!OneActive
<1>4. Inv /\ [MCNext]_mcVars => [SavesWhatIsSold]_(Pricing!vars) /\ [KeepsItsProduct]_(Pricing!vars)
  <2> SUFFICES ASSUME Inv, [MCNext]_mcVars
               PROVE  [SavesWhatIsSold]_(Pricing!vars) /\ [KeepsItsProduct]_(Pricing!vars)
    OBVIOUS
  <2>1. CASE UNCHANGED priceVars
    BY <2>1 DEF priceVars, Pricing!vars
  <2>2. CASE part = "prices" /\ Pricing!Next
    BY <2>2, PriceSteps
  <2> QED
    BY <2>1, <2>2 DEF MCNext, mcVars
<1>5. [][SavesWhatIsSold]_(Pricing!vars) => Pricing!SavedIsSold
  BY DEF SavesWhatIsSold, Pricing!SavedIsSold
<1>6. [][KeepsItsProduct]_(Pricing!vars) => Pricing!OneProduct
  BY DEF KeepsItsProduct, Pricing!OneProduct
<1>7. /\ MCSpec => [](part = "prices" => Pricing!TypeOK /\ Pricing!OneActive)
      /\ MCSpec => [][SavesWhatIsSold]_(Pricing!vars) /\ [][KeepsItsProduct]_(Pricing!vars)
  BY <1>1, <1>2, <1>3, <1>4, PTL DEF MCSpec
<1> QED
  BY <1>5, <1>6, <1>7, PTL DEF PricesHold

-----------------------------------------------------------------------------
(* The delivery of Stripe's events (StripeWebhook) *)

USE DeliveryAssumption DEF Webhook!WebhookAssumption

States == Webhook!Running \cup {"none", "sent", "duplicate", "error", "done", "stuck", "crashed"}

\* What a delivery that has a claim, or has left one behind, may be at.
ClaimHolders == Webhook!Running \cup {"done", "stuck", "crashed"}

\* One delivery moves, and all others stay.
LEMMA GoesMoves ==
  ASSUME handling \in [Webhook!Events -> [Webhook!Deliveries -> States]],
         NEW e \in Webhook!Events, NEW i \in Webhook!Deliveries, NEW pc \in States, Webhook!Goes(e, i, pc)
  PROVE  /\ handling' \in [Webhook!Events -> [Webhook!Deliveries -> States]]
         /\ \A f \in Webhook!Events, j \in Webhook!Deliveries :
              handling'[f][j] = IF f = e /\ j = i THEN pc ELSE handling[f][j]
<1>1. handling' = [handling EXCEPT ![e] = [handling[e] EXCEPT ![i] = pc]]
  BY DEF Webhook!Goes
<1>2. handling[e] \in [Webhook!Deliveries -> States]
  OBVIOUS
<1>3. [handling[e] EXCEPT ![i] = pc] \in [Webhook!Deliveries -> States]
  BY <1>2
<1>4. handling'[e] = [handling[e] EXCEPT ![i] = pc] /\ \A f \in Webhook!Events \ {e} : handling'[f] = handling[f]
  BY <1>1
<1> QED
  BY <1>1, <1>2, <1>3, <1>4

\* Every step of a handler but the claim moves its delivery, and none into
\* holding the claim.
LEMMA HandlerGoes ==
  ASSUME NEW e \in Webhook!Events, NEW i \in Webhook!Deliveries,
         \/ Webhook!SetStatus(e, i) \/ Webhook!StopAuto(e, i) \/ Webhook!Trim(e, i) \/ Webhook!Finish(e, i)
         \/ Webhook!Refused(e, i) \/ Webhook!Release(e, i) \/ Webhook!Fails(e, i) \/ Webhook!ReleaseFails(e, i) \/ Webhook!Crash(e, i)
  PROVE  \E pc \in States : Webhook!Goes(e, i, pc) /\ (pc \in ClaimHolders => handling[e][i] \in ClaimHolders)
<1>0. /\ {"written", "status", "stopped", "failing", "done", "stuck", "crashed", "error"} \subseteq States
      /\ {"claimed", "written", "status", "stopped", "failing"} \subseteq ClaimHolders
      /\ "error" \notin ClaimHolders
  BY DEF States, ClaimHolders, Webhook!Running
<1>1. CASE Webhook!SetStatus(e, i)
  <2> DEFINE pc == IF Webhook!Known(e) /\ Webhook!KindOf[e] # "resumed" THEN "status" ELSE "written"
  <2>1. pc \in States /\ Webhook!Goes(e, i, pc) /\ handling[e][i] \in ClaimHolders
    BY <1>0, <1>1 DEF Webhook!SetStatus
  <2> QED
    BY <2>1
<1>2. CASE Webhook!StopAuto(e, i)
  <2> DEFINE pc == IF Webhook!KindOf[e] = "failed" THEN "written" ELSE "stopped"
  <2>1. pc \in States /\ Webhook!Goes(e, i, pc) /\ handling[e][i] \in ClaimHolders
    BY <1>0, <1>2 DEF Webhook!StopAuto
  <2> QED
    BY <2>1
<1>3. CASE Webhook!Trim(e, i)
  BY <1>0, <1>3 DEF Webhook!Trim
<1>4. CASE Webhook!Finish(e, i)
  BY <1>0, <1>4 DEF Webhook!Finish
<1>5. CASE Webhook!Refused(e, i)
  <2>1. handling[e][i] \in {"status", "stopped"} /\ Webhook!Goes(e, i, "failing")
    BY <1>5 DEF Webhook!Refused
  <2>2. handling[e][i] \in ClaimHolders /\ "failing" \in States
    BY <1>0, <2>1
  <2> QED
    BY <2>1, <2>2
<1>6. CASE Webhook!Release(e, i)
  BY <1>0, <1>6 DEF Webhook!Release
<1>7. CASE Webhook!Fails(e, i)
  <2>1. CASE handling[e][i] \in {"claimed", "status", "stopped"} /\ Webhook!Goes(e, i, "failing")
    <3>1. handling[e][i] \in ClaimHolders
      BY <1>0, <2>1
    <3> QED
      BY <1>0, <2>1, <3>1
  <2>2. CASE Webhook!Goes(e, i, "error")
    BY <1>0, <2>2
  <2> QED
    BY <1>7, <2>1, <2>2 DEF Webhook!Fails
<1>8. CASE Webhook!ReleaseFails(e, i)
  BY <1>0, <1>8 DEF Webhook!ReleaseFails
<1>9. CASE Webhook!Crash(e, i)
  BY <1>0, <1>9 DEF Webhook!Crash
<1> QED
  BY <1>1, <1>2, <1>3, <1>4, <1>5, <1>6, <1>7, <1>8, <1>9

\* While the part of the deliveries runs, every step is one of them.
LEMMA DeliverySteps ==
  [MCNext]_mcVars /\ part' = "webhook" => part = "webhook" /\ [Webhook!Next]_(Webhook!vars)
BY DEF MCNext, mcVars, webhookVars, Webhook!vars, Webhook!stripeVars, Webhook!capacityVars

LEMMA JoinedType == Webhook!JoinedGb \in Nat
BY DEF Webhook!JoinedGb

-----------------------------------------------------------------------------
(* The types *)

LEMMA InitDelivery == Webhook!Init => Webhook!TypeOK
BY DEF Webhook!Init, Webhook!TypeOK, Webhook!Running

LEMMA AnswerTypes ==
  ASSUME Webhook!TypeOK, NEW e \in Webhook!Events, NEW i \in Webhook!Deliveries, NEW ok \in BOOLEAN, Webhook!Answer(e, i, ok)
  PROVE  waiting' \in SUBSET Webhook!Events /\ acked' \in SUBSET Webhook!Events /\ UNCHANGED <<sent, late>>
BY DEF Webhook!Answer, Webhook!TypeOK

LEMMA StripeTypes ==
  ASSUME Webhook!TypeOK, NEW e \in Webhook!Events, Webhook!Send(e) \/ Webhook!TimeOut(e)
  PROVE  Webhook!TypeOK'
<1>1. CASE Webhook!Send(e)
  <2>1. sent[e] + 1 \in Webhook!Deliveries /\ sent' \in [Webhook!Events -> 0 .. MaxDeliveries]
    BY <1>1 DEF Webhook!Send, Webhook!TypeOK, Webhook!Deliveries
  <2>2. handling' \in [Webhook!Events -> [Webhook!Deliveries -> States]]
    BY <1>1, <2>1, GoesMoves DEF Webhook!Send, Webhook!TypeOK, States
  <2> QED
    BY <1>1, <2>1, <2>2 DEF Webhook!Send, Webhook!TypeOK, States, Webhook!capacityVars
<1>2. CASE Webhook!TimeOut(e)
  BY <1>2 DEF Webhook!TimeOut, Webhook!TypeOK, Webhook!capacityVars
<1> QED
  BY <1>1, <1>2

LEMMA HandlerTypes ==
  ASSUME Webhook!TypeOK, NEW e \in Webhook!Events, NEW i \in Webhook!Deliveries,
         Webhook!Handle(e, i) \/ Webhook!Fails(e, i) \/ Webhook!ReleaseFails(e, i) \/ Webhook!Crash(e, i)
  PROVE  Webhook!TypeOK'
<1> DEFINE moved == handling' \in [Webhook!Events -> [Webhook!Deliveries -> States]]
<1>1. handling \in [Webhook!Events -> [Webhook!Deliveries -> States]]
  BY DEF Webhook!TypeOK, States
<1>2. ASSUME NEW pc \in States, Webhook!Goes(e, i, pc) PROVE moved
  BY <1>1, <1>2, GoesMoves
<1>3. waiting' \in SUBSET Webhook!Events /\ acked' \in SUBSET Webhook!Events /\ UNCHANGED <<sent, late>>
  <2>1. (\E ok \in BOOLEAN : Webhook!Answer(e, i, ok)) \/ UNCHANGED Webhook!stripeVars
    <3>1. CASE Webhook!Claim(e, i)
      BY <3>1 DEF Webhook!Claim
    <3>2. CASE Webhook!Finish(e, i)
      BY <3>2 DEF Webhook!Finish
    <3>3. CASE Webhook!Release(e, i) \/ Webhook!ReleaseFails(e, i)
      BY <3>3 DEF Webhook!Release, Webhook!ReleaseFails
    <3>4. CASE Webhook!Fails(e, i)
      BY <3>4 DEF Webhook!Fails
    <3>5. CASE Webhook!SetStatus(e, i) \/ Webhook!StopAuto(e, i) \/ Webhook!Trim(e, i)
               \/ Webhook!Refused(e, i) \/ Webhook!Crash(e, i)
      BY <3>5 DEF Webhook!SetStatus, Webhook!StopAuto, Webhook!Trim, Webhook!Refused, Webhook!Crash
    <3> QED
      BY <3>1, <3>2, <3>3, <3>4, <3>5 DEF Webhook!Handle
  <2> QED
    BY <2>1, AnswerTypes DEF Webhook!TypeOK, Webhook!stripeVars
<1>4. moved
  <2>1. CASE Webhook!Claim(e, i)
    BY <1>2, <2>1 DEF Webhook!Claim, States, Webhook!Running
  <2> QED
    BY <1>2, <2>1, HandlerGoes DEF Webhook!Handle
<1>5. claims' \in SUBSET Webhook!Events
  <2>1. claims' \in {claims, claims \cup {e}, claims \ {e}}
    <3>1. CASE Webhook!Claim(e, i)
      BY <3>1 DEF Webhook!Claim
    <3>2. CASE ~Webhook!Claim(e, i)
      BY <3>2 DEF Webhook!Handle, Webhook!Fails, Webhook!ReleaseFails, Webhook!Crash, Webhook!SetStatus, Webhook!StopAuto, Webhook!Trim,
         Webhook!Finish, Webhook!Refused, Webhook!Release
    <3> QED
      BY <3>1, <3>2
  <2> QED
    BY <2>1 DEF Webhook!TypeOK
<1>6. status' \in {"active", "canceled", "past_due"}
  <2>1. Webhook!StatusOf(e) \in {"active", "canceled", "past_due"}
     BY DEF Webhook!StatusOf, Webhook!KindOf
  <2>2. status' = status \/ status' = Webhook!StatusOf(e)
    BY DEF Webhook!Handle, Webhook!Fails, Webhook!ReleaseFails, Webhook!Crash, Webhook!Claim, Webhook!SetStatus, Webhook!StopAuto,
       Webhook!Trim, Webhook!Finish, Webhook!Refused, Webhook!Release
  <2> QED
    BY <2>1, <2>2 DEF Webhook!TypeOK
<1>7. autoAdds' \in BOOLEAN /\ allotted' \in Nat /\ occupied' = occupied
  <2>1. CASE Webhook!StopAuto(e, i)
    BY <2>1 DEF Webhook!StopAuto, Webhook!TypeOK
  <2>2. CASE Webhook!Trim(e, i)
    BY <2>2, JoinedType DEF Webhook!Trim, Webhook!TypeOK
  <2>3. ASSUME ~Webhook!StopAuto(e, i), ~Webhook!Trim(e, i) PROVE UNCHANGED Webhook!capacityVars
    BY <2>3 DEF Webhook!Handle, Webhook!Fails, Webhook!ReleaseFails, Webhook!Crash, Webhook!Claim, Webhook!SetStatus, Webhook!Finish, Webhook!Refused, Webhook!Release
  <2> QED
    BY <2>1, <2>2, <2>3 DEF Webhook!capacityVars, Webhook!TypeOK
<1>8. faults' \in 0 .. MaxFaults
  <2>1. Webhook!Fault \/ faults' = faults
    BY DEF Webhook!Handle, Webhook!Fails, Webhook!ReleaseFails, Webhook!Crash, Webhook!Claim, Webhook!SetStatus, Webhook!StopAuto,
       Webhook!Trim, Webhook!Finish, Webhook!Refused, Webhook!Release
  <2> QED
    BY <2>1 DEF Webhook!Fault, Webhook!TypeOK
<1> HIDE DEF moved
<1>9. /\ waiting' \in SUBSET Webhook!Events /\ acked' \in SUBSET Webhook!Events /\ late' \in SUBSET Webhook!Events
      /\ sent' \in [Webhook!Events -> 0 .. MaxDeliveries]
  BY <1>3 DEF Webhook!TypeOK
<1> QED
  BY <1>4, <1>5, <1>6, <1>7, <1>8, <1>9 DEF Webhook!TypeOK, States, moved

LEMMA DeliveryKeepsTypes == Webhook!TypeOK /\ [Webhook!Next]_(Webhook!vars) => Webhook!TypeOK'
<1> SUFFICES ASSUME Webhook!TypeOK, [Webhook!Next]_(Webhook!vars) PROVE Webhook!TypeOK'
  OBVIOUS
<1>1. CASE Webhook!Traffic
  BY <1>1 DEF Webhook!Traffic, Webhook!TypeOK, Webhook!stripeVars
<1>2. CASE UNCHANGED Webhook!vars
  BY <1>2 DEF Webhook!TypeOK, Webhook!vars, Webhook!stripeVars, Webhook!capacityVars
<1> QED
  BY <1>1, <1>2, StripeTypes, HandlerTypes DEF Webhook!Next

-----------------------------------------------------------------------------
(* The claim *)

\* The claim of an event belongs to one delivery, the only one that has ever
\* got past the INSERT without giving the claim back.
ClaimInv ==
  /\ \A e \in Webhook!Events, i \in Webhook!Deliveries : handling[e][i] \in ClaimHolders => e \in claims
  /\ \A e \in Webhook!Events, i, j \in Webhook!Deliveries :
       handling[e][i] \in ClaimHolders /\ handling[e][j] \in ClaimHolders => i = j

LEMMA InitClaim == Webhook!Init => ClaimInv
BY DEF Webhook!Init, ClaimInv, ClaimHolders, Webhook!Running

\* A step of a holder, and a step that leaves a delivery without the claim.
LEMMA HolderSteps ==
  ASSUME Webhook!TypeOK, ClaimInv, NEW e \in Webhook!Events, NEW i \in Webhook!Deliveries, NEW pc \in States,
         Webhook!Goes(e, i, pc), pc \in ClaimHolders => handling[e][i] \in ClaimHolders, claims' = claims
  PROVE  ClaimInv'
<1>1. \A f \in Webhook!Events, j \in Webhook!Deliveries :
        handling'[f][j] = IF f = e /\ j = i THEN pc ELSE handling[f][j]
  BY GoesMoves DEF Webhook!TypeOK, States
<1>2. \A f \in Webhook!Events, j \in Webhook!Deliveries : handling'[f][j] \in ClaimHolders => handling[f][j] \in ClaimHolders
  BY <1>1
<1> QED
  BY <1>2 DEF ClaimInv

LEMMA ClaimStep == Webhook!TypeOK /\ ClaimInv /\ [Webhook!Next]_(Webhook!vars) => ClaimInv'
<1> SUFFICES ASSUME Webhook!TypeOK, ClaimInv, [Webhook!Next]_(Webhook!vars) PROVE ClaimInv'
  OBVIOUS
<1>0. handling \in [Webhook!Events -> [Webhook!Deliveries -> States]]
  BY DEF Webhook!TypeOK, States
<1>1. ASSUME NEW e \in Webhook!Events, Webhook!Send(e) PROVE ClaimInv'
  <2>1. sent[e] + 1 \in Webhook!Deliveries /\ claims' = claims /\ "sent" \in States \ ClaimHolders
    BY <1>1 DEF Webhook!Send, Webhook!TypeOK, Webhook!Deliveries, States, ClaimHolders, Webhook!Running
  <2> QED
    BY <1>1, <2>1, HolderSteps DEF Webhook!Send
<1>2. ASSUME NEW e \in Webhook!Events, NEW i \in Webhook!Deliveries, Webhook!Claim(e, i) PROVE ClaimInv'
  <2>1. CASE e \in claims
    BY <1>2, <2>1, HolderSteps DEF Webhook!Claim, States, ClaimHolders, Webhook!Running
  <2>2. CASE e \notin claims
    <3>1. \A f \in Webhook!Events, j \in Webhook!Deliveries :
            handling'[f][j] = IF f = e /\ j = i THEN "claimed" ELSE handling[f][j]
      BY <1>0, <1>2, <2>2, GoesMoves DEF Webhook!Claim, States, Webhook!Running
    <3>2. claims' = claims \cup {e}
      BY <1>2, <2>2 DEF Webhook!Claim
    <3>3. \A j \in Webhook!Deliveries : handling[e][j] \notin ClaimHolders
      BY <2>2 DEF ClaimInv
    <3> QED
      BY <3>1, <3>2, <3>3 DEF ClaimInv
  <2> QED
    BY <2>1, <2>2
<1>3. ASSUME NEW e \in Webhook!Events, NEW i \in Webhook!Deliveries, Webhook!Release(e, i) PROVE ClaimInv'
  <2>1. \A f \in Webhook!Events, j \in Webhook!Deliveries :
          handling'[f][j] = IF f = e /\ j = i THEN "error" ELSE handling[f][j]
    BY <1>0, <1>3, GoesMoves DEF Webhook!Release, States
  <2>2. claims' = claims \ {e} /\ handling[e][i] \in ClaimHolders /\ "error" \notin ClaimHolders
    BY <1>3 DEF Webhook!Release, ClaimHolders, Webhook!Running
  <2>3. \A j \in Webhook!Deliveries : handling'[e][j] \notin ClaimHolders
    BY <2>1, <2>2 DEF ClaimInv
  <2> QED
    BY <2>1, <2>2, <2>3 DEF ClaimInv
<1>4. ASSUME NEW e \in Webhook!Events, NEW i \in Webhook!Deliveries,
             \/ Webhook!SetStatus(e, i) \/ Webhook!StopAuto(e, i) \/ Webhook!Trim(e, i)
             \/ Webhook!Finish(e, i) \/ Webhook!Refused(e, i) \/ Webhook!Fails(e, i) \/ Webhook!ReleaseFails(e, i) \/ Webhook!Crash(e, i)
      PROVE  ClaimInv'
  <2>1. claims' = claims
    BY <1>4 DEF Webhook!SetStatus, Webhook!StopAuto, Webhook!Trim, Webhook!Finish, Webhook!Refused, Webhook!Fails, Webhook!ReleaseFails, Webhook!Crash
  <2>2. \E pc \in States : Webhook!Goes(e, i, pc) /\ (pc \in ClaimHolders => handling[e][i] \in ClaimHolders)
    BY <1>4, HandlerGoes
  <2> QED
    BY <2>1, <2>2, HolderSteps
<1>5. ASSUME UNCHANGED <<handling, claims>> PROVE ClaimInv'
  BY <1>5 DEF ClaimInv
<1>6. ASSUME (\E e \in Webhook!Events : Webhook!TimeOut(e)) \/ Webhook!Traffic \/ UNCHANGED Webhook!vars
      PROVE  UNCHANGED <<handling, claims>>
  BY <1>6 DEF Webhook!TimeOut, Webhook!Traffic, Webhook!vars
<1> QED
  BY <1>1, <1>2, <1>3, <1>4, <1>5, <1>6 DEF Webhook!Next, Webhook!Handle

\* For any number of deliveries, overlaps and faults, the handler of an event
\* runs in one delivery at a time and never again once it has completed: only
\* the delivery that inserts the claim runs it, and only that one removes it.
THEOREM EventsAreHandledOnce == MCSpec => []HandledOnce
<1> DEFINE Inv == part = "webhook" => Webhook!TypeOK /\ ClaimInv
<1>1. MCInit => Inv
  BY InitDelivery, InitClaim DEF MCInit
<1>2. Inv /\ [MCNext]_mcVars => Inv'
  BY DeliverySteps, DeliveryKeepsTypes, ClaimStep
<1>3. Inv => HandledOnce
  BY DEF HandledOnce, Webhook!HandledOnce, ClaimInv, ClaimHolders
<1> QED
  BY <1>1, <1>2, <1>3, PTL DEF MCSpec

-----------------------------------------------------------------------------
(* What Stripe has heard *)

\* The events whose handler must leave auto-capacity switched off.
Wants(e) == Webhook!Known(e) /\ Webhook!KindOf[e] # "resumed"

\* A delivery that was not sent has not arrived.
SentInOrder == \A e \in Webhook!Events, i \in Webhook!Deliveries : i > sent[e] => handling[e][i] = "none"

\* While Stripe has never stopped waiting, the only delivery at work is the last
\* one, and Stripe waits for its answer.
OneAtWork ==
  \A e \in Webhook!Events \ late, i \in Webhook!Deliveries :
    handling[e][i] \in Webhook!Running \cup {"sent"} => i = sent[e] /\ e \in waiting

\* A claim belongs to a delivery at work or to one that is done.
ClaimIsHeld ==
  \A e \in claims : Webhook!Disturbed(e) \/ \E i \in Webhook!Deliveries : handling[e][i] \in Webhook!Running \cup {"done"}

\* A handler past its second statement has left auto-capacity off for good.
AutoStaysOff ==
  \A e \in Webhook!Events, i \in Webhook!Deliveries :
    Wants(e) /\ handling[e][i] \in {"stopped", "written", "done"} => ~autoAdds

AckedIsDone == \A e \in acked : Webhook!Disturbed(e) \/ Webhook!Applied(e)

AckInv == SentInOrder /\ OneAtWork /\ ClaimIsHeld /\ AutoStaysOff /\ AckedIsDone

LEMMA InitAck == Webhook!Init => AckInv
BY DEF Webhook!Init, AckInv, SentInOrder, OneAtWork, ClaimIsHeld, AutoStaysOff, AckedIsDone, Webhook!Running

\* What one step of delivery i may do to Stripe, to the claims and to the
\* capacity row, given where it leaves the delivery.
HandlerMoves(e, i, pc) ==
  /\ handling[e][i] \in Webhook!Running \cup {"sent"} /\ Webhook!Goes(e, i, pc)
  /\ \/ UNCHANGED Webhook!stripeVars
     \/ pc \in {"done", "duplicate"} /\ Webhook!Answer(e, i, TRUE)
     \/ pc \notin Webhook!Running /\ Webhook!Answer(e, i, FALSE)
  /\ \/ claims' = claims /\ handling[e][i] = "sent"
     \/ claims' = claims \cup {e} /\ pc \in ClaimHolders
     \/ claims' = claims \ {e}
     \/ claims' = claims /\ pc \in ClaimHolders
  /\ pc = "duplicate" => e \in claims /\ handling[e][i] = "sent"
  /\ autoAdds' = autoAdds \/ ~autoAdds'
  /\ Wants(e) /\ pc \in {"stopped", "written", "done"} =>
       ~autoAdds' \/ handling[e][i] \in {"stopped", "written"}

LEMMA EveryHandlerMoves ==
  ASSUME Webhook!TypeOK, NEW e \in Webhook!Events, NEW i \in Webhook!Deliveries,
         Webhook!Handle(e, i) \/ Webhook!Fails(e, i) \/ Webhook!ReleaseFails(e, i) \/ Webhook!Crash(e, i)
  PROVE  \E pc \in States \ {"none", "sent"} : HandlerMoves(e, i, pc)
<1> USE DEF HandlerMoves, States, ClaimHolders, Webhook!Running
<1>1. CASE Webhook!Claim(e, i)
  <2>1. CASE e \in claims
    <3>1. HandlerMoves(e, i, "duplicate")
      BY <1>1, <2>1 DEF Webhook!Claim, Webhook!capacityVars
    <3> QED
      BY <3>1
  <2>2. CASE e \notin claims
    <3>1. HandlerMoves(e, i, "claimed")
      BY <1>1, <2>2 DEF Webhook!Claim, Webhook!capacityVars
    <3> QED
      BY <3>1
  <2> QED
    BY <2>1, <2>2
<1>2. CASE Webhook!SetStatus(e, i)
  <2>1. CASE Wants(e)
    <3>1. HandlerMoves(e, i, "status")
      BY <1>2, <2>1 DEF Webhook!SetStatus, Webhook!capacityVars, Wants
    <3> QED
      BY <3>1
  <2>2. CASE ~Wants(e)
    <3>1. HandlerMoves(e, i, "written")
      BY <1>2, <2>2 DEF Webhook!SetStatus, Webhook!capacityVars, Wants
    <3> QED
      BY <3>1
  <2> QED
    BY <2>1, <2>2
<1>3. CASE Webhook!StopAuto(e, i)
  <2>1. CASE Webhook!KindOf[e] = "failed"
    <3>1. HandlerMoves(e, i, "written")
      BY <1>3, <2>1 DEF Webhook!StopAuto
    <3> QED
      BY <3>1
  <2>2. CASE Webhook!KindOf[e] # "failed"
    <3>1. HandlerMoves(e, i, "stopped")
      BY <1>3, <2>2 DEF Webhook!StopAuto
    <3> QED
      BY <3>1
  <2> QED
    BY <2>1, <2>2
<1>4. CASE Webhook!Trim(e, i)
  <2>1. HandlerMoves(e, i, "written")
    BY <1>4 DEF Webhook!Trim
  <2> QED
    BY <2>1
<1>5. CASE Webhook!Finish(e, i)
  <2>1. HandlerMoves(e, i, "done")
    BY <1>5 DEF Webhook!Finish, Webhook!capacityVars
  <2> QED
    BY <2>1
<1>6. CASE Webhook!Refused(e, i)
  <2>1. HandlerMoves(e, i, "failing")
    BY <1>6 DEF Webhook!Refused, Webhook!capacityVars
  <2> QED
    BY <2>1
<1>7. CASE Webhook!Release(e, i)
  <2>1. HandlerMoves(e, i, "error")
    BY <1>7 DEF Webhook!Release, Webhook!capacityVars
  <2> QED
    BY <2>1
<1>8. CASE Webhook!Fails(e, i)
  <2>1. CASE handling[e][i] \in {"claimed", "status", "stopped"}
    <3>1. HandlerMoves(e, i, "failing")
      BY <1>8, <2>1 DEF Webhook!Fails, Webhook!capacityVars
    <3> QED
      BY <3>1
  <2>2. CASE handling[e][i] = "sent"
    <3>1. HandlerMoves(e, i, "error")
      BY <1>8, <2>2 DEF Webhook!Fails, Webhook!capacityVars
    <3> QED
      BY <3>1
  <2> QED
    BY <1>8, <2>1, <2>2 DEF Webhook!Fails
<1>9. CASE Webhook!ReleaseFails(e, i)
  <2>1. HandlerMoves(e, i, "stuck")
    BY <1>9 DEF Webhook!ReleaseFails, Webhook!capacityVars
  <2> QED
    BY <2>1
<1>10. CASE Webhook!Crash(e, i)
  <2>1. CASE handling[e][i] = "sent"
    <3>1. HandlerMoves(e, i, "error")
      BY <1>10, <2>1 DEF Webhook!Crash, Webhook!capacityVars
    <3> QED
      BY <3>1
  <2>2. CASE handling[e][i] # "sent"
    <3>1. HandlerMoves(e, i, "crashed")
      BY <1>10, <2>2 DEF Webhook!Crash, Webhook!capacityVars
    <3> QED
      BY <3>1
  <2> QED
    BY <2>1, <2>2
<1> QED
  BY <1>1, <1>2, <1>3, <1>4, <1>5, <1>6, <1>7, <1>8, <1>9, <1>10 DEF Webhook!Handle

\* A delivery that is done, stuck or dead stays so.
LEMMA HandlerKeepsAck ==
  ASSUME Webhook!TypeOK, AckInv, NEW e \in Webhook!Events, NEW i \in Webhook!Deliveries,
         NEW pc \in States \ {"none", "sent"}, HandlerMoves(e, i, pc)
  PROVE  AckInv'
<1>1. \A f \in Webhook!Events, j \in Webhook!Deliveries :
        handling'[f][j] = IF f = e /\ j = i THEN pc ELSE handling[f][j]
  BY GoesMoves DEF HandlerMoves, Webhook!TypeOK, States
<1>2. /\ UNCHANGED <<sent, late>>
      /\ waiting' \in {waiting, waiting \ {e}}
      /\ pc \in Webhook!Running => UNCHANGED Webhook!stripeVars
      /\ acked' = acked \/ (acked' = acked \cup {e} /\ pc \in {"done", "duplicate"})
  <2>1. CASE UNCHANGED Webhook!stripeVars
    BY <2>1 DEF Webhook!stripeVars
  <2>2. CASE pc \in {"done", "duplicate"} /\ Webhook!Answer(e, i, TRUE)
    BY <2>2 DEF Webhook!Answer, Webhook!Running
  <2>3. CASE pc \notin Webhook!Running /\ Webhook!Answer(e, i, FALSE)
    BY <2>3 DEF Webhook!Answer
  <2> QED
    BY <2>1, <2>2, <2>3 DEF HandlerMoves
<1>3. handling[e][i] \in Webhook!Running \cup {"sent"}
  BY DEF HandlerMoves
<1>4. \A f \in Webhook!Events : (Webhook!Disturbed(f) => Webhook!Disturbed(f)') /\ (Webhook!Applied(f) => Webhook!Applied(f)')
  BY <1>1, <1>2, <1>3 DEF Webhook!Disturbed, Webhook!Applied, Webhook!Running
<1>5. i <= sent[e]
  <2>1. handling[e][i] # "none"
    BY <1>3 DEF Webhook!Running
  <2> QED
    BY <2>1 DEF AckInv, SentInOrder, Webhook!TypeOK, Webhook!Deliveries
<1>6. SentInOrder'
  BY <1>1, <1>2, <1>5 DEF AckInv, SentInOrder, Webhook!TypeOK, Webhook!Deliveries
<1>7. OneAtWork'
  <2> SUFFICES ASSUME NEW f \in Webhook!Events \ late, NEW j \in Webhook!Deliveries,
                      handling'[f][j] \in Webhook!Running \cup {"sent"}
               PROVE  j = sent[f] /\ f \in waiting'
    BY <1>2 DEF OneAtWork
  <2>1. CASE f = e /\ j = i
    BY <1>1, <1>2, <1>3, <2>1 DEF AckInv, OneAtWork, Webhook!stripeVars
  <2>2. CASE f # e
    BY <1>1, <1>2, <2>2 DEF AckInv, OneAtWork
  <2>3. CASE f = e /\ j # i
    BY <1>1, <1>3, <2>3 DEF AckInv, OneAtWork
  <2> QED
    BY <2>1, <2>2, <2>3
<1>8. ClaimIsHeld'
  <2> SUFFICES ASSUME NEW f \in claims'
               PROVE  Webhook!Disturbed(f)' \/ \E j \in Webhook!Deliveries : handling'[f][j] \in Webhook!Running \cup {"done"}
    BY DEF ClaimIsHeld
  <2>1. CASE f # e
    <3>1. f \in claims /\ f \in Webhook!Events
      BY <2>1 DEF HandlerMoves, Webhook!TypeOK
    <3> QED
      BY <1>1, <1>4, <2>1, <3>1 DEF AckInv, ClaimIsHeld
  <2>2. CASE f = e /\ pc \in Webhook!Running \cup {"done"}
    BY <1>1, <2>2
  <2>3. CASE f = e /\ pc \in {"stuck", "crashed"}
    BY <1>1, <2>3 DEF Webhook!Disturbed
  <2>4. CASE f = e /\ pc \notin ClaimHolders
    <3>1. e \in claims /\ handling[e][i] = "sent"
      BY <2>4 DEF HandlerMoves
    <3>2. Webhook!Disturbed(e) \/ \E j \in Webhook!Deliveries : j # i /\ handling[e][j] \in Webhook!Running \cup {"done"}
      BY <3>1 DEF AckInv, ClaimIsHeld, Webhook!Running
    <3> QED
      BY <1>1, <1>4, <2>4, <3>2
  <2> QED
    BY <2>1, <2>2, <2>3, <2>4 DEF ClaimHolders
<1>9. AutoStaysOff'
  BY <1>1 DEF AckInv, AutoStaysOff, HandlerMoves, Wants, Webhook!Known
<1>10. AckedIsDone'
  <2> SUFFICES ASSUME NEW f \in acked' PROVE Webhook!Disturbed(f)' \/ Webhook!Applied(f)'
    BY DEF AckedIsDone
  <2>1. CASE f \in acked
    BY <1>4, <2>1 DEF AckInv, AckedIsDone, Webhook!TypeOK
  <2>2. CASE f = e /\ pc = "done"
    BY <1>1, <2>2 DEF Webhook!Applied
  <2>3. CASE f = e /\ pc = "duplicate"
    <3>1. e \in claims /\ handling[e][i] = "sent"
      BY <2>3 DEF HandlerMoves
    <3>2. CASE Webhook!Disturbed(e)
      BY <1>4, <2>3, <3>2
    <3>3. CASE ~Webhook!Disturbed(e)
      <4>1. PICK j \in Webhook!Deliveries : handling[e][j] \in Webhook!Running \cup {"done"}
        BY <3>1, <3>3 DEF AckInv, ClaimIsHeld
      <4>2. e \notin late
        BY <3>3 DEF Webhook!Disturbed
      <4>3. handling[e][j] \in Webhook!Running => j = i
        BY <1>3, <4>2 DEF AckInv, OneAtWork
      <4>4. handling[e][j] = "done"
        BY <3>1, <4>1, <4>3 DEF Webhook!Running
      <4> QED
        BY <1>4, <2>3, <4>4 DEF Webhook!Applied
    <3> QED
      BY <3>2, <3>3
  <2> QED
    BY <1>2, <2>1, <2>2, <2>3
<1> QED
  BY <1>6, <1>7, <1>8, <1>9, <1>10 DEF AckInv

LEMMA StripeKeepsAck ==
  ASSUME Webhook!TypeOK, AckInv, NEW e \in Webhook!Events, Webhook!Send(e) \/ Webhook!TimeOut(e)
  PROVE  AckInv'
<1>1. CASE Webhook!Send(e)
  <2> DEFINE n == sent[e] + 1
  <2>0. n \in Webhook!Deliveries /\ handling \in [Webhook!Events -> [Webhook!Deliveries -> States]] /\ "sent" \in States
    BY <1>1 DEF Webhook!Send, Webhook!TypeOK, Webhook!Deliveries, States
  <2>1. \A f \in Webhook!Events, j \in Webhook!Deliveries :
          handling'[f][j] = IF f = e /\ j = n THEN "sent" ELSE handling[f][j]
    BY <1>1, <2>0, GoesMoves DEF Webhook!Send
  <2>2. /\ e \notin acked \cup waiting /\ waiting' = waiting \cup {e}
        /\ UNCHANGED <<acked, late, claims, autoAdds>>
        /\ \A f \in Webhook!Events : sent'[f] = IF f = e THEN n ELSE sent[f]
    BY <1>1 DEF Webhook!Send, Webhook!capacityVars, Webhook!TypeOK
  <2>3. handling[e][n] = "none"
    BY <2>0 DEF AckInv, SentInOrder, Webhook!TypeOK
  <2> HIDE DEF n
  <2>4. \A f \in Webhook!Events : (Webhook!Disturbed(f) => Webhook!Disturbed(f)') /\ (Webhook!Applied(f) => Webhook!Applied(f)')
    BY <2>1, <2>2, <2>3 DEF Webhook!Disturbed, Webhook!Applied
  <2>5. SentInOrder'
    BY <2>0, <2>1, <2>2 DEF AckInv, SentInOrder, Webhook!TypeOK, Webhook!Deliveries, n
  <2>6. OneAtWork'
    BY <2>1, <2>2 DEF AckInv, OneAtWork
  <2>7. ClaimIsHeld'
    BY <2>1, <2>2, <2>3, <2>4 DEF AckInv, ClaimIsHeld, Webhook!TypeOK, Webhook!Running
  <2>8. AutoStaysOff'
    BY <2>1, <2>2 DEF AckInv, AutoStaysOff, Wants, Webhook!Known
  <2>9. AckedIsDone'
    BY <2>2, <2>4 DEF AckInv, AckedIsDone, Webhook!TypeOK
  <2> QED
    BY <2>5, <2>6, <2>7, <2>8, <2>9 DEF AckInv
<1>2. CASE Webhook!TimeOut(e)
  <2>1. /\ waiting' = waiting \ {e} /\ late' = late \cup {e}
        /\ UNCHANGED <<sent, acked, handling, claims, autoAdds>>
    BY <1>2 DEF Webhook!TimeOut, Webhook!capacityVars
  <2>2. \A f \in Webhook!Events : (Webhook!Disturbed(f) => Webhook!Disturbed(f)') /\ (Webhook!Applied(f) => Webhook!Applied(f)')
    BY <2>1 DEF Webhook!Disturbed, Webhook!Applied
  <2>3. SentInOrder' /\ OneAtWork' /\ AutoStaysOff'
    BY <2>1 DEF AckInv, SentInOrder, OneAtWork, AutoStaysOff, Wants, Webhook!Known
  <2>4. ClaimIsHeld' /\ AckedIsDone'
    BY <2>1, <2>2 DEF AckInv, ClaimIsHeld, AckedIsDone, Webhook!TypeOK
  <2> QED
    BY <2>3, <2>4 DEF AckInv
<1> QED
  BY <1>1, <1>2

LEMMA AckStep == Webhook!TypeOK /\ AckInv /\ [Webhook!Next]_(Webhook!vars) => AckInv'
<1> SUFFICES ASSUME Webhook!TypeOK, AckInv, [Webhook!Next]_(Webhook!vars) PROVE AckInv'
  OBVIOUS
<1>1. CASE Webhook!Traffic \/ UNCHANGED Webhook!vars
  <2>1. UNCHANGED <<Webhook!stripeVars, handling, claims, autoAdds>>
    BY <1>1 DEF Webhook!Traffic, Webhook!vars, Webhook!capacityVars
  <2> QED
    BY <2>1 DEF Webhook!stripeVars, AckInv, SentInOrder, OneAtWork, ClaimIsHeld, AutoStaysOff,
       AckedIsDone, Webhook!Disturbed, Webhook!Applied, Wants, Webhook!Known
<1> QED
  BY <1>1, StripeKeepsAck, EveryHandlerMoves, HandlerKeepsAck DEF Webhook!Next

\* For any events, deliveries and faults: Stripe hears a 200 only for an event
\* one of its deliveries has carried through, with auto-capacity off when the
\* event asks for it, unless a delivery of it was late, died or kept its claim.
THEOREM AckedEventsAreApplied == MCSpec => []AckedIsApplied
<1> DEFINE Inv == part = "webhook" => Webhook!TypeOK /\ AckInv
<1>1. MCInit => Inv
  BY InitDelivery, InitAck DEF MCInit
<1>2. Inv /\ [MCNext]_mcVars => Inv'
  BY DeliverySteps, DeliveryKeepsTypes, AckStep
<1>3. Inv => AckedIsApplied
  BY DEF AckedIsApplied, Webhook!AckedIsApplied, Webhook!TypeOK, AckInv, AckedIsDone, AutoStaysOff, Webhook!Applied, Wants
<1> QED
  BY <1>1, <1>2, <1>3, PTL DEF MCSpec
=============================================================================
