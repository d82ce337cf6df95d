----------------------------- MODULE SelfHosted -----------------------------
(***************************************************************************)
(* The capacity of an organisation on an install without Stripe, where     *)
(* nothing is billed and allocated_bytes is written directly: by POST      *)
(* /billing/capacity/add and /billing/downgrade, by the settings of        *)
(* auto-capacity, and by the tool manage_capacity.  Storage traffic moves  *)
(* used_bytes meanwhile.  Entitlement is the same with Stripe.             *)
(*                                                                         *)
(* Amounts are in GB.  The billing_addons rows have no writer here.        *)
(***************************************************************************)
EXTENDS SizeTotals

CONSTANTS
  Plans, IncludedGb, FirstPlan,
  AddonGb,            \* SUM(gb) of the billing_addons rows
  Adds, Downgrades,   \* the calls of the API
  Enlarges, Shrinks,  \* the calls of manage_capacity, add and remove
  GbOf, PlanOf,       \* what a call asks for
  None,
  Mixes,              \* the sets of calls that are made together
  MaxUsed,            \* bound: the storage in use
  MaxSettings         \* bound: the changes of auto_enabled

Calls == Adds \cup Downgrades \cup Enlarges \cup Shrinks

SelfHostedAssumption ==
  /\ IncludedGb \in [Plans -> Nat] /\ FirstPlan \in Plans /\ AddonGb \in Nat
  /\ IsFiniteSet(Adds) /\ Adds \cap Downgrades = {}
  /\ GbOf \in [Adds \cup Enlarges \cup Shrinks -> Nat \ {0}]
  /\ PlanOf \in [Downgrades -> Plans] /\ None \notin Calls
  /\ Mixes \subseteq SUBSET Calls /\ MaxUsed \in Nat /\ MaxSettings \in Nat

VARIABLES
  plan,       \* subscriptions.plan_id
  allocated, used, auto,  \* the capacity row
  lock,       \* the holder of the org's advisory lock
  call,       \* the calls: where they are and what they have read
  settings    \* bound

vars == <<plan, allocated, used, auto, lock, call, settings>>

Idle == [at |-> "start", gb |-> 0, used |-> 0, max |-> 0]

Init ==
  /\ plan = FirstPlan /\ allocated = IncludedGb[FirstPlan] /\ used = 0
  /\ auto \in BOOLEAN /\ lock = None /\ settings = 0
  /\ \E m \in Mixes : call = [c \in Calls |-> IF c \in m THEN Idle ELSE [Idle EXCEPT !.at = "unmade"]]

\* capacity_used_lte_allocated
Fits(gb, on) == on \/ used <= gb

MaxGb(p) == IncludedGb[p] + AddonGb

To(c, at) == call' = [call EXCEPT ![c].at = at]
Reads(c, at, gb) == call' = [call EXCEPT ![c] = [at |-> at, gb |-> gb, used |-> used, max |-> 0]]

-----------------------------------------------------------------------------
(* POST /billing/capacity/add *)

\* The capacity row must exist; what it holds is not used.
AddRead(a) ==
  /\ call[a].at = "start"
  /\ Reads(a, "read", allocated)
  /\ UNCHANGED <<plan, allocated, used, auto, lock, settings>>

\* BEGIN, the org lock, and the most that the plan and the add-ons allow.
AddBegin(a) ==
  /\ call[a].at = "read" /\ lock = None
  /\ lock' = a
  /\ call' = [call EXCEPT ![a] = [at |-> "locked", gb |-> @.gb, used |-> @.used, max |-> MaxGb(plan)]]
  /\ UNCHANGED <<plan, allocated, used, auto, settings>>

\* Mutant: an add that finds no room waits for it, with the lock.
AddUpdateWaits(a) ==
  LET gb == allocated + GbOf[a] IN
  /\ call[a].at = "locked" /\ gb <= call[a].max
  /\ lock' = None /\ allocated' = gb /\ To(a, "done")
  /\ UNCHANGED <<plan, used, auto, settings>>

\* Mutant: the UPDATE writes the sum of what was read before the lock.
AddUpdateStale(a) ==
  LET gb == call[a].gb + GbOf[a] IN
  /\ call[a].at = "locked" /\ lock' = None
  /\ \/ gb <= call[a].max /\ allocated' = gb /\ To(a, "done")
     \/ gb > call[a].max /\ UNCHANGED allocated /\ To(a, "refused")
  /\ UNCHANGED <<plan, used, auto, settings>>

\* The conditional UPDATE, and COMMIT.  The answer is sent before the COMMIT,
\* which may fail.
AddUpdate(a) ==
  LET gb == allocated + GbOf[a] IN
  /\ call[a].at = "locked"
  /\ lock' = None
  /\ \/ gb <= call[a].max /\ allocated' = gb /\ To(a, "done")
     \/ gb > call[a].max /\ UNCHANGED allocated /\ To(a, "refused")
     \/ gb <= call[a].max /\ UNCHANGED allocated /\ To(a, "reverted")
  /\ UNCHANGED <<plan, used, auto, settings>>

-----------------------------------------------------------------------------
(* POST /billing/downgrade *)

\* The plan, the storage in use and the add-ons, and the shrink guard: no lock.
DowngradeCheck(d) ==
  /\ call[d].at = "start"
  /\ IF MaxGb(PlanOf[d]) < used THEN To(d, "blocked") ELSE Reads(d, "checked", MaxGb(PlanOf[d]))
  /\ UNCHANGED <<plan, allocated, used, auto, lock, settings>>

\* Under the lock, both rows in one transaction; the CHECK may refuse it.
DowngradeWrite(d) ==
  /\ call[d].at = "checked" /\ lock = None
  /\ IF Fits(call[d].gb, auto)
     THEN plan' = PlanOf[d] /\ allocated' = call[d].gb /\ To(d, "done")
     ELSE UNCHANGED <<plan, allocated>> /\ To(d, "failed")
  /\ UNCHANGED <<used, auto, lock, settings>>

-----------------------------------------------------------------------------
(* manage_capacity: the row is read, and written back without any lock *)

ToolRead(t) ==
  /\ call[t].at = "start"
  /\ Reads(t, "read", allocated)
  /\ UNCHANGED <<plan, allocated, used, auto, lock, settings>>

Enlarged(t) == call[t].gb + GbOf[t]
Shrunk(t) == call[t].gb - GbOf[t]

\* The absolute UPDATE of either; the CHECK may refuse it.
ToolStores(t, gb) ==
  /\ IF Fits(gb, auto) THEN allocated' = gb /\ To(t, "done") ELSE UNCHANGED allocated /\ To(t, "failed")
  /\ UNCHANGED <<plan, used, auto, lock, settings>>

ToolAdd(t) == call[t].at = "read" /\ ToolStores(t, Enlarged(t))

ToolRemove(t) ==
  /\ call[t].at = "read"
  /\ IF Shrunk(t) < 0 \/ Shrunk(t) < call[t].used
     THEN To(t, "refused") /\ UNCHANGED <<plan, allocated, used, auto, lock, settings>>
     ELSE ToolStores(t, Shrunk(t))

-----------------------------------------------------------------------------
(* Settings and traffic *)

\* PUT /billing/capacity/auto, or manage_capacity; the CHECK may refuse it.
SetAuto ==
  /\ settings < MaxSettings /\ settings' = settings + 1
  /\ auto' = IF auto /\ Fits(allocated, FALSE) THEN FALSE ELSE TRUE
  /\ UNCHANGED <<plan, allocated, used, lock, call>>

\* Deletes, and uploads up to the allocation.  Without Stripe there is no
\* automatic add: an upload that auto-capacity lets through goes beyond it.
Traffic ==
  /\ \E u \in (0 .. MaxUsed) \ {used} :
       /\ used' = u
       /\ (u < used \/ u <= allocated \/ (auto /\ lock = None))
  /\ UNCHANGED <<plan, allocated, auto, lock, call, settings>>

Add(a) == AddRead(a) \/ AddBegin(a) \/ AddUpdate(a)

\* A request of the API goes on.
Requests ==
  \/ \E a \in Adds : Add(a)
  \/ \E d \in Downgrades : DowngradeCheck(d) \/ DowngradeWrite(d)

Next ==
  \/ Requests
  \/ \E t \in Enlarges : ToolRead(t) \/ ToolAdd(t)
  \/ \E t \in Shrinks : ToolRead(t) \/ ToolRemove(t)
  \/ SetAuto \/ Traffic

Spec == Init /\ [][Next]_vars /\ WF_vars(Requests)

-----------------------------------------------------------------------------
TypeOK ==
  /\ plan \in Plans /\ allocated \in Nat /\ used \in 0 .. MaxUsed /\ auto \in BOOLEAN
  /\ lock \in Adds \cup {None} /\ settings \in 0 .. MaxSettings
  /\ call \in [Calls -> [at : {"unmade", "start", "locked", "checked", "read", "done", "refused",
                               "reverted", "blocked", "failed"}, gb : Nat, used : Nat, max : Nat]]
  /\ \A a \in Adds : call[a].at = "locked" <=> lock = a

Written(S) == {c \in S : call[c].at = "done"}
NoTool == \A t \in Enlarges \cup Shrinks : call[t].at # "done"

\* The API allocates no more than the plan of now and the add-ons allow,
\* however its adds and its downgrades overlap.  (The tool has no such cap.)
PlanBounds == NoTool => allocated <= MaxGb(plan)

\* Overlapping adds of the API are all counted: usage.ts "concurrent adds
\* don't race".  (A write of the tool undoes those since it read.)
AddsAddUp ==
  NoTool /\ Written(Downgrades) = {} =>
    allocated = IncludedGb[FirstPlan] + Total([a \in Adds |-> IF a \in Written(Adds) THEN GbOf[a] ELSE 0])

\* Without auto-capacity nothing leaves more stored than allocated, stale as
\* the reading was that a shrinking call checked.
StoredFits == auto \/ used <= allocated

\* A lock is given back: every request of the API is answered in the end.
Answered == \A c \in Adds \cup Downgrades : call[c].at \notin {"start", "locked", "checked"}
=============================================================================
