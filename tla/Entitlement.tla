---------------------------- MODULE Entitlement ----------------------------
(***************************************************************************)
(* What an organisation may store and what it pays for it: the plan, the   *)
(* billing_addons rows, capacity.allocated_bytes and the add-on spend of   *)
(* the cycle on one side, the Stripe subscription on the other.            *)
(*                                                                         *)
(* Its writers: addCapacity, by hand or from autoAddCapacity, and          *)
(* changePlan, each a transaction under the org's advisory lock with       *)
(* Stripe calls inside it; confirmAddOn, run by the webhook when the items *)
(* of the subscription change; the renewal webhook; and the nightly        *)
(* billing reconcile.  Storage traffic moves used_bytes meanwhile.         *)
(*                                                                         *)
(* Amounts are in GB.  The subscription is active throughout; its statuses *)
(* are in StripeWebhook.  removeCapacity is not modelled.                  *)
(***************************************************************************)
EXTENDS SizeTotals

CONSTANTS
  Plans, IncludedGb,    \* the plans and their storage
  InitialPlan,
  Adds, GbOf,           \* the capacity adds and their size
  Automatic,            \* the adds that come from autoAddCapacity
  Changes, PlanOf,      \* the plan changes and their target
  Confirms,             \* the runs of confirmAddOn: one at a time each
  Renewals,             \* bound: the invoice.paid events of a new cycle
  Reconciles,           \* the nightly reconciles
  Costs,                \* what an add may cost, prorated
  MaxSpend,             \* max_monthly_spend_cents, 0 for no cap
  ThresholdPct,
  AutoModes,
  MaxUsed               \* bound: the storage in use

ASSUME EntitlementAssumption ==
  /\ IsFiniteSet(Adds) /\ Adds \cap Changes = {} /\ Automatic \subseteq Adds
  /\ GbOf \in [Adds -> Nat \ {0}] /\ IsFiniteSet(Plans)
  /\ IncludedGb \in [Plans -> Nat] /\ InitialPlan \in Plans
  /\ PlanOf \in [Changes -> Plans]
  /\ Costs \subseteq Nat /\ MaxSpend \in Nat /\ ThresholdPct \in Nat
  /\ AutoModes \subseteq BOOLEAN /\ MaxUsed \in Nat

VARIABLES
  plan,       \* subscriptions.plan_id
  rows,       \* the adds that have a billing_addons row
  cost,       \* cost_cents of the rows
  allocated, used, auto, spend,  \* the capacity row
  cooldown,   \* last_auto_add_at is within the last minute
  lock,       \* the holder of the org's advisory lock
  stripePlan, \* the plan whose price the base item has
  quantity,   \* the quantity of each plan's add-on item, 0 for none
  add, change, confirm, renewal, reconcile,  \* the processes
  cycle       \* history: the adds paid for since the last renewal

ledgerVars == <<plan, rows, cost>>
capacityVars == <<allocated, used, auto, spend>>
stripeVars == <<stripePlan, quantity>>
processVars == <<add, change, confirm, renewal, reconcile>>
vars == <<ledgerVars, capacityVars, cooldown, lock, stripeVars, processVars, cycle>>

-----------------------------------------------------------------------------
(* Operators *)

\* SUM(gb) and SUM(cost_cents) of a set of rows.
GbSum(S) == Total([a \in Adds |-> IF a \in S THEN GbOf[a] ELSE 0])
CostSum(S) == Total([a \in Adds |-> IF a \in S THEN cost[a] ELSE 0])

\* capacity_used_lte_allocated
CapacityCheck(u, n) == auto \/ u <= n

\* NUMERIC columns arrive as strings, and x + "10" appends the digits.
\* Increments have at most three.
Joined(x, y) == (IF y < 10 THEN 10 ELSE IF y < 100 THEN 100 ELSE 1000) * x + y

\* The quantity an add asks Stripe for: increment_gb is such a string, the GB
\* of a request is a number.  Without an item for the plan the add creates one.
NewQuantity(a, seen) ==
  IF seen > 0 /\ a \in Automatic THEN Joined(seen, GbOf[a]) ELSE seen + GbOf[a]

\* metadata.type of the add-on prices that setup:stripe creates, and the one
\* that the reconcile looks for.
AddonPriceType == "addon"
ReconciledType == "capacity_addon"
ReconciledGb == IF AddonPriceType = ReconciledType THEN Total(quantity) ELSE 0

Init ==
  /\ auto \in AutoModes
  /\ plan = InitialPlan /\ stripePlan = InitialPlan
  /\ rows = {} /\ cost = [a \in Adds |-> 0]
  /\ allocated = IncludedGb[InitialPlan] /\ used = 0 /\ spend = 0
  /\ cooldown = FALSE /\ lock = {} /\ quantity = [p \in Plans |-> 0]
  /\ add = [a \in Adds |-> [pc |-> "start", cost |-> 0, seen |-> 0]]
  /\ change = [c \in Changes |-> [pc |-> "start", gb |-> 0]]
  /\ confirm = [f \in Confirms |-> [pc |-> "start", included |-> 0, addons |-> 0]]
  /\ renewal = [r \in Renewals |-> "due"]
  /\ reconcile = [k \in Reconciles |-> [pc |-> "start", plan |-> InitialPlan, gb |-> 0]]
  /\ cycle = {}

-----------------------------------------------------------------------------
(* addCapacity and autoAddCapacity *)

AddTo(a, pc) == add' = [add EXCEPT ![a].pc = pc]

\* autoAddCapacity: the gates, and the conditional UPDATE of last_auto_add_at.
AutoClaim(a) ==
  /\ a \in Automatic /\ add[a].pc = "start"
  /\ IF auto /\ MaxSpend > 0 /\ 100 * used >= ThresholdPct * allocated /\ ~cooldown
     THEN cooldown' = TRUE /\ AddTo(a, "claimed")
     ELSE UNCHANGED cooldown /\ AddTo(a, "done")
  /\ UNCHANGED <<ledgerVars, capacityVars, lock, stripeVars,
                 change, confirm, renewal, reconcile, cycle>>

\* A minute passes.
CooldownEnds ==
  /\ cooldown /\ cooldown' = FALSE
  /\ UNCHANGED <<ledgerVars, capacityVars, lock, stripeVars, processVars, cycle>>

Ready(a) == add[a].pc = IF a \in Automatic THEN "claimed" ELSE "start"

\* Mutant: the cap is compared with the spend before this add.
WithinCapBefore(c) == MaxSpend = 0 \/ spend <= MaxSpend

WithinCap(c) == MaxSpend = 0 \/ spend + c <= MaxSpend

\* BEGIN, the org lock, the reads, and the cap on the add-on spend.
AddLock(a) ==
  /\ Ready(a) /\ lock = {}
  /\ \E c \in Costs :
       IF WithinCap(c)
       THEN add' = [add EXCEPT ![a] = [@ EXCEPT !.pc = "locked", !.cost = c]] /\ lock' = {a}
       ELSE AddTo(a, "done") /\ UNCHANGED lock
  /\ UNCHANGED <<ledgerVars, capacityVars, cooldown, stripeVars,
                 change, confirm, renewal, reconcile, cycle>>

\* subscriptionItems.list
AddList(a) ==
  /\ add[a].pc = "locked"
  /\ add' = [add EXCEPT ![a] = [@ EXCEPT !.pc = "listed", !.seen = quantity[plan]]]
  /\ UNCHANGED <<ledgerVars, capacityVars, cooldown, lock, stripeVars,
                 change, confirm, renewal, reconcile, cycle>>

\* Mutant: the quantity of the existing item is set to the new GB.
AddStripeReplaces(a) ==
  /\ add[a].pc = "listed"
  /\ quantity' = [quantity EXCEPT ![plan] = GbOf[a]] /\ AddTo(a, "billed")
  /\ UNCHANGED <<ledgerVars, capacityVars, cooldown, lock, stripePlan,
                 change, confirm, renewal, reconcile, cycle>>

Billed(a) == [quantity EXCEPT ![plan] = NewQuantity(a, add[a].seen)]

\* subscriptionItems.update or create, at the add-on price of the plan.
AddStripe(a) ==
  /\ add[a].pc = "listed"
  /\ quantity' = Billed(a) /\ AddTo(a, "billed")
  /\ UNCHANGED <<ledgerVars, capacityVars, cooldown, lock, stripePlan,
                 change, confirm, renewal, reconcile, cycle>>

\* Stripe answers with an error, or its answer is lost after the update.
AddStripeFails(a) ==
  /\ add[a].pc \in {"locked", "listed"}
  /\ \/ UNCHANGED quantity
     \/ add[a].pc = "listed" /\ quantity' = Billed(a)
  /\ AddTo(a, "done") /\ lock' = {}
  /\ UNCHANGED <<ledgerVars, capacityVars, cooldown, stripePlan,
                 change, confirm, renewal, reconcile, cycle>>

\* The capacity row, the billing_addons row, COMMIT.
AddCommit(a) ==
  /\ add[a].pc = "billed"
  /\ allocated' = allocated + GbOf[a]
  /\ spend' = spend + add[a].cost
  /\ rows' = rows \cup {a} /\ cost' = [cost EXCEPT ![a] = add[a].cost]
  /\ cycle' = cycle \cup {a}
  /\ AddTo(a, "done") /\ lock' = {}
  /\ UNCHANGED <<plan, used, auto, cooldown, stripeVars, change, confirm, renewal, reconcile>>

\* The connection is lost: Stripe bills, the transaction is rolled back.
AddAbort(a) ==
  /\ add[a].pc = "billed"
  /\ AddTo(a, "done") /\ lock' = {}
  /\ UNCHANGED <<ledgerVars, capacityVars, cooldown, stripeVars,
                 change, confirm, renewal, reconcile, cycle>>

Add(a) ==
  \/ AutoClaim(a) \/ AddLock(a) \/ AddList(a) \/ AddStripe(a) \/ AddStripeFails(a)
  \/ AddCommit(a) \/ AddAbort(a)

-----------------------------------------------------------------------------
(* changePlan *)

ChangeTo(c, pc) == change' = [change EXCEPT ![c].pc = pc]

\* Mutant: the target is computed before the lock is taken.
ChangeLockLate(c) ==
  /\ change[c].pc = "start"
  /\ change' = [change EXCEPT ![c] =
       [pc |-> "checked", gb |-> IncludedGb[PlanOf[c]] + GbSum(rows)]]
  /\ UNCHANGED <<ledgerVars, capacityVars, cooldown, lock, stripeVars,
                 add, confirm, renewal, reconcile, cycle>>

\* BEGIN, the org lock, the target allocation, the shrink guard, and the base
\* item of the current plan.
ChangeLock(c) ==
  LET gb == IncludedGb[PlanOf[c]] + GbSum(rows) IN
  /\ change[c].pc = "start" /\ lock = {}
  /\ IF gb < used \/ stripePlan # plan
     THEN ChangeTo(c, "done") /\ UNCHANGED lock
     ELSE change' = [change EXCEPT ![c] = [pc |-> "checked", gb |-> gb]] /\ lock' = {c}
  /\ UNCHANGED <<ledgerVars, capacityVars, cooldown, stripeVars,
                 add, confirm, renewal, reconcile, cycle>>

ChangeStripe(c) ==
  /\ change[c].pc = "checked"
  /\ stripePlan' = PlanOf[c] /\ ChangeTo(c, "swapped")
  /\ UNCHANGED <<ledgerVars, capacityVars, cooldown, lock, quantity,
                 add, confirm, renewal, reconcile, cycle>>

\* Stripe answers with an error, or its answer is lost after the swap.
ChangeStripeFails(c) ==
  /\ change[c].pc = "checked"
  /\ stripePlan' \in {stripePlan, PlanOf[c]}
  /\ ChangeTo(c, "done") /\ lock' = {}
  /\ UNCHANGED <<ledgerVars, capacityVars, cooldown, quantity,
                 add, confirm, renewal, reconcile, cycle>>

\* subscriptions.plan_id, allocated_bytes, COMMIT.
ChangeCommit(c) ==
  /\ change[c].pc = "swapped"
  /\ CapacityCheck(used, change[c].gb)
  /\ plan' = PlanOf[c] /\ allocated' = change[c].gb
  /\ ChangeTo(c, "done") /\ lock' = {}
  /\ UNCHANGED <<rows, cost, used, auto, spend, cooldown, stripeVars,
                 add, confirm, renewal, reconcile, cycle>>

\* The CHECK refuses the row, or the connection is lost: ROLLBACK.
ChangeAbort(c) ==
  /\ change[c].pc = "swapped"
  /\ ChangeTo(c, "done") /\ lock' = {}
  /\ UNCHANGED <<ledgerVars, capacityVars, cooldown, stripeVars,
                 add, confirm, renewal, reconcile, cycle>>

Change(c) ==
  ChangeLock(c) \/ ChangeStripe(c) \/ ChangeStripeFails(c) \/ ChangeCommit(c) \/ ChangeAbort(c)

-----------------------------------------------------------------------------
(* confirmAddOn: two reads and an absolute write, in a transaction but without *)
(* the org lock.  The webhook runs it again and again.                         *)

ConfirmPlan(f) ==
  /\ confirm[f].pc = "start" /\ rows # {}
  /\ confirm' = [confirm EXCEPT ![f] = [@ EXCEPT !.pc = "plan", !.included = IncludedGb[plan]]]
  /\ UNCHANGED <<ledgerVars, capacityVars, cooldown, lock, stripeVars,
                 add, change, renewal, reconcile, cycle>>

ConfirmSum(f) ==
  /\ confirm[f].pc = "plan"
  /\ confirm' = [confirm EXCEPT ![f] = [@ EXCEPT !.pc = "sum", !.addons = GbSum(rows)]]
  /\ UNCHANGED <<ledgerVars, capacityVars, cooldown, lock, stripeVars,
                 add, change, renewal, reconcile, cycle>>

\* Mutant: the quantity of the Stripe item is added to the allocation.
ConfirmWriteDelta(f) ==
  /\ confirm[f].pc = "sum"
  /\ allocated' = allocated + confirm[f].addons
  /\ spend' = CostSum(rows)
  /\ confirm' = [confirm EXCEPT ![f] = [pc |-> "start", included |-> 0, addons |-> 0]]
  /\ UNCHANGED <<ledgerVars, used, auto, cooldown, lock, stripeVars,
                 add, change, renewal, reconcile, cycle>>

\* The CHECK may refuse the write; then the webhook is delivered again.
ConfirmWrite(f) ==
  LET gb == confirm[f].included + confirm[f].addons IN
  /\ confirm[f].pc = "sum"
  /\ IF CapacityCheck(used, gb)
     THEN allocated' = gb /\ spend' = CostSum(rows)
     ELSE UNCHANGED <<allocated, spend>>
  /\ confirm' = [confirm EXCEPT ![f] = [pc |-> "start", included |-> 0, addons |-> 0]]
  /\ UNCHANGED <<ledgerVars, used, auto, cooldown, lock, stripeVars,
                 add, change, renewal, reconcile, cycle>>

Confirm(f) == ConfirmPlan(f) \/ ConfirmSum(f) \/ ConfirmWrite(f)

-----------------------------------------------------------------------------
(* The renewal, the reconcile and the traffic *)

\* invoice.paid of a new cycle.
Renew(r) ==
  /\ renewal[r] = "due"
  /\ spend' = 0 /\ cycle' = {}
  /\ renewal' = [renewal EXCEPT ![r] = "done"]
  /\ UNCHANGED <<ledgerVars, allocated, used, auto, cooldown, lock, stripeVars,
                 add, change, confirm, reconcile>>

\* The nightly job reads every active org at once, then asks Stripe org by org.
ReconcileRead(k) ==
  /\ reconcile[k].pc = "start"
  /\ reconcile' = [reconcile EXCEPT ![k] = [pc |-> "read", plan |-> plan, gb |-> allocated]]
  /\ UNCHANGED <<ledgerVars, capacityVars, cooldown, lock, stripeVars,
                 add, change, confirm, renewal, cycle>>

\* Corrects an allocation that is not the plan's plus the recognised add-ons;
\* an error is logged and the org skipped.
ReconcileWrite(k) ==
  LET gb == IncludedGb[reconcile[k].plan] + ReconciledGb IN
  /\ reconcile[k].pc = "read"
  /\ allocated' = IF reconcile[k].gb # gb /\ CapacityCheck(used, gb) THEN gb ELSE allocated
  /\ reconcile' = [reconcile EXCEPT ![k] = [pc |-> "start", plan |-> InitialPlan, gb |-> 0]]
  /\ UNCHANGED <<ledgerVars, used, auto, spend, cooldown, lock, stripeVars,
                 add, change, confirm, renewal, cycle>>

\* Mutant: a release is not clamped at zero.
TrafficUnclamped ==
  /\ \E u \in -1 .. MaxUsed : (u <= used \/ u <= allocated) /\ used' = u
  /\ UNCHANGED <<ledgerVars, allocated, auto, spend, cooldown, lock, stripeVars,
                 processVars, cycle>>

\* Deletes, reservations up to the allocation, and, with auto-capacity, uploads
\* beyond it, confirmed under the org lock.
Traffic ==
  /\ \E u \in 0 .. MaxUsed :
       /\ u <= used \/ u <= allocated \/ (auto /\ lock = {})
       /\ used' = u
  /\ UNCHANGED <<ledgerVars, allocated, auto, spend, cooldown, lock, stripeVars,
                 processVars, cycle>>

-----------------------------------------------------------------------------
Next ==
  \/ \E a \in Adds : Add(a)
  \/ \E c \in Changes : Change(c)
  \/ \E f \in Confirms : Confirm(f)
  \/ \E r \in Renewals : Renew(r)
  \/ \E k \in Reconciles : ReconcileRead(k) \/ ReconcileWrite(k)
  \/ CooldownEnds \/ Traffic

Spec == Init /\ [][Next]_vars

\* Once a request has arrived it ends: the handler runs, or its connection is lost.
Fairness ==
  /\ \A a \in Adds : WF_vars(Add(a))
  /\ \A c \in Changes : WF_vars(Change(c))

FairSpec == Spec /\ Fairness

-----------------------------------------------------------------------------
(* Properties *)

TypeOK ==
  /\ plan \in Plans /\ stripePlan \in Plans /\ quantity \in [Plans -> Nat]
  /\ rows \in SUBSET Adds /\ cost \in [Adds -> Nat] /\ cycle \in SUBSET Adds
  /\ allocated \in Nat /\ used \in 0 .. MaxUsed /\ auto \in BOOLEAN /\ spend \in Nat
  /\ cooldown \in BOOLEAN /\ lock \in SUBSET (Adds \cup Changes)
  /\ add \in [Adds -> [pc : {"start", "claimed", "locked", "listed", "billed", "done"},
                       cost : Nat, seen : Nat]]
  /\ change \in [Changes -> [pc : {"start", "checked", "swapped", "done"}, gb : Nat]]
  /\ confirm \in [Confirms -> [pc : {"start", "plan", "sum"}, included : Nat, addons : Nat]]
  /\ renewal \in [Renewals -> {"due", "done"}]
  /\ reconcile \in [Reconciles -> [pc : {"start", "read"}, plan : Plans, gb : Nat]]

\* What plan and add-on rows entitle the org to.
Entitled == allocated = IncludedGb[plan] + GbSum(rows)

\* The adds and the plan changes of an org take turns: no step of theirs moves
\* the allocation away from the entitlement, however their Stripe calls and
\* transactions fail and whatever webhooks and reconciles write meanwhile.
LockedStepsKeepEntitlement ==
  [][Entitled /\ UNCHANGED <<confirm, reconcile>> => Entitled']_vars

\* The adds paid for in a cycle respect its cap: concurrent adds cannot both
\* pass the check, and a counter that webhooks rewrite never lets one through.
CycleWithinCap == MaxSpend > 0 => CostSum(cycle) <= MaxSpend

\* Capacity is never granted without billing: every recorded GB is on an
\* add-on item, whatever commits and answers are lost and plans are changed.
NeverFree == GbSum(rows) <= Total(quantity)

\* Stale webhooks and reconciles may take capacity away, but without a
\* downgrade they never grant more than plan and rows hold.
NeverOverGranted == allocated <= IncludedGb[plan] + GbSum(rows)

\* Every add and every plan change ends: none waits for the org lock forever.
AllEnded == (\A a \in Adds : add[a].pc = "done") /\ (\A c \in Changes : change[c].pc = "done")
=============================================================================
