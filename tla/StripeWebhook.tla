--------------------------- MODULE StripeWebhook ---------------------------
(***************************************************************************)
(* The delivery of Stripe events: Stripe sends an event again until it     *)
(* hears a 200 or gives up; handleWebhook claims the event with a row of   *)
(* webhook_events, runs its handler, and takes the claim back when the     *)
(* handler throws.  A handler is a series of statements that commit one by *)
(* one: syncSubscriptionStatus and handleInvoiceFailed, which stop the     *)
(* auto-capacity of an org that does not pay, are modelled statement by    *)
(* statement, with the CHECK of the capacity row they may run into.        *)
(*                                                                         *)
(* One org with one subscription.  The checkout and the items events are   *)
(* not modelled here; the latter, and invoice.paid, are in Entitlement.    *)
(***************************************************************************)
EXTENDS Integers

CONSTANTS
  Cancellations, Failures, Resumptions,   \* the events: canceled or unpaid, payment failed, resumed
  MaxDeliveries,    \* how often Stripe sends an event before it gives up
  Tagged,           \* the metadata of the subscription name org and plan: those of
                    \* createSubscription do, those of a checkout do not
  InitialGb,        \* the allocation the org has been given
  PlanGb, AddonGb,  \* the storage of the plan in the metadata, and of the add-on rows
  Usages,           \* bound: what the org may be storing
  MaxFaults         \* bound: statements that fail and workers that die

\* What the constants must be; assumed where the module is instantiated.
WebhookAssumption ==
  /\ Tagged \in BOOLEAN /\ MaxDeliveries \in Nat \ {0} /\ MaxFaults \in Nat
  /\ InitialGb \in Nat /\ PlanGb \in Nat /\ AddonGb \in 0 .. 999
  /\ Usages \subseteq Nat /\ 0 \in Usages

Events == Cancellations \cup Failures \cup Resumptions

KindOf ==
  [e \in Events |-> IF e \in Cancellations THEN "canceled" ELSE IF e \in Failures THEN "failed" ELSE "resumed"]

VARIABLES
  sent,      \* the deliveries Stripe has made of an event
  waiting,   \* the events whose last delivery Stripe waits for
  acked,     \* the events Stripe has heard a 200 for
  late,      \* history: the events Stripe once stopped waiting for
  run,       \* where each delivery of each event is
  claims,    \* the rows of webhook_events
  status,    \* of the subscription
  auto, allocated, used,  \* the capacity row
  faults

stripeVars == <<sent, waiting, acked, late>>
capacityVars == <<auto, allocated, used>>
vars == <<stripeVars, run, claims, status, capacityVars, faults>>

Deliveries == 1 .. MaxDeliveries

-----------------------------------------------------------------------------
\* capacity_used_lte_allocated
CapacityCheck(a, u, n) == a \/ u <= n

\* plan.included_gb + SUM(gb): both are NUMERIC, so strings, and + joins them.
JoinedGb == (IF AddonGb < 10 THEN 10 ELSE IF AddonGb < 100 THEN 100 ELSE 1000) * PlanGb + AddonGb

Init ==
  /\ sent = [e \in Events |-> 0] /\ waiting = {} /\ acked = {} /\ late = {}
  /\ run = [e \in Events |-> [i \in Deliveries |-> "none"]]
  /\ claims = {} /\ status = "active" /\ faults = 0
  /\ auto = TRUE /\ allocated = InitialGb /\ used = 0

Goes(e, i, pc) == run' = [run EXCEPT ![e] = [@ EXCEPT ![i] = pc]]

\* Stripe hears the answer to the delivery it is waiting for, and to no other.
Answer(e, i, ok) ==
  LET heard == i = sent[e] /\ e \in waiting IN
  /\ waiting' = IF heard THEN waiting \ {e} ELSE waiting
  /\ acked' = IF heard /\ ok THEN acked \cup {e} ELSE acked
  /\ UNCHANGED <<sent, late>>

-----------------------------------------------------------------------------
(* Stripe *)

Send(e) ==
  /\ e \notin acked \cup waiting /\ sent[e] < MaxDeliveries
  /\ sent' = [sent EXCEPT ![e] = @ + 1] /\ waiting' = waiting \cup {e}
  /\ Goes(e, sent[e] + 1, "sent")
  /\ UNCHANGED <<acked, late, claims, status, capacityVars, faults>>

\* No answer in time, or a broken connection.
TimeOut(e) ==
  /\ e \in waiting
  /\ waiting' = waiting \ {e} /\ late' = late \cup {e}
  /\ UNCHANGED <<sent, acked, run, claims, status, capacityVars, faults>>

-----------------------------------------------------------------------------
(* handleWebhook *)

\* Mutant: the conflict of the INSERT is not looked at.
ClaimUnchecked(e, i) ==
  /\ run[e][i] = "sent"
  /\ claims' = claims \cup {e} /\ Goes(e, i, "claimed")
  /\ UNCHANGED <<stripeVars, status, capacityVars, faults>>

\* INSERT ... ON CONFLICT DO NOTHING RETURNING; a duplicate is answered 200.
Claim(e, i) ==
  /\ run[e][i] = "sent"
  /\ IF e \in claims
     THEN Goes(e, i, "duplicate") /\ Answer(e, i, TRUE) /\ UNCHANGED claims
     ELSE Goes(e, i, "claimed") /\ claims' = claims \cup {e} /\ UNCHANGED stripeVars
  /\ UNCHANGED <<status, capacityVars, faults>>

StatusOf(e) ==
  CASE KindOf[e] = "canceled" -> "canceled"
    [] KindOf[e] = "failed" -> "past_due"
    [] KindOf[e] = "resumed" -> "active"

\* handleInvoiceFailed finds the org by the subscription,
\* syncSubscriptionStatus by the metadata.
Known(e) == KindOf[e] = "failed" \/ Tagged

\* UPDATE subscriptions SET status; without the org, nothing is written.
SetStatus(e, i) ==
  /\ run[e][i] = "claimed"
  /\ status' = IF Known(e) THEN StatusOf(e) ELSE status
  /\ Goes(e, i, IF Known(e) /\ KindOf[e] # "resumed" THEN "status" ELSE "written")
  /\ UNCHANGED <<stripeVars, claims, capacityVars, faults>>

\* UPDATE capacity SET auto_enabled = false
StopAuto(e, i) ==
  /\ run[e][i] = "status" /\ CapacityCheck(FALSE, used, allocated)
  /\ auto' = FALSE
  /\ Goes(e, i, IF KindOf[e] = "failed" THEN "written" ELSE "stopped")
  /\ UNCHANGED <<stripeVars, claims, status, allocated, used, faults>>

\* UPDATE capacity SET allocated_bytes
Trim(e, i) ==
  /\ run[e][i] = "stopped" /\ CapacityCheck(auto, used, JoinedGb)
  /\ allocated' = JoinedGb /\ Goes(e, i, "written")
  /\ UNCHANGED <<stripeVars, claims, status, auto, used, faults>>

Finish(e, i) ==
  /\ run[e][i] = "written" /\ Goes(e, i, "done") /\ Answer(e, i, TRUE)
  /\ UNCHANGED <<claims, status, capacityVars, faults>>

\* The CHECK refuses a statement of the handler.
Refused(e, i) ==
  /\ \/ run[e][i] = "status" /\ ~CapacityCheck(FALSE, used, allocated)
     \/ run[e][i] = "stopped" /\ ~CapacityCheck(auto, used, JoinedGb)
  /\ Goes(e, i, "failing")
  /\ UNCHANGED <<stripeVars, claims, status, capacityVars, faults>>

Fault == faults < MaxFaults /\ faults' = faults + 1

\* The database fails a statement of the handler, or the INSERT of the claim.
Fails(e, i) ==
  /\ Fault /\ UNCHANGED <<claims, status, capacityVars>>
  /\ \/ /\ run[e][i] \in {"claimed", "status", "stopped"}
        /\ Goes(e, i, "failing") /\ UNCHANGED stripeVars
     \/ run[e][i] = "sent" /\ Goes(e, i, "error") /\ Answer(e, i, FALSE)

\* Mutant: the error is not thrown on, so the route answers 200.
ReleaseAnswersOk(e, i) ==
  /\ run[e][i] = "failing"
  /\ claims' = claims \ {e} /\ Goes(e, i, "error") /\ Answer(e, i, TRUE)
  /\ UNCHANGED <<status, capacityVars, faults>>

\* Mutant: the claim of a failed handler is kept.
ReleaseKeepsClaim(e, i) ==
  /\ run[e][i] = "failing"
  /\ Goes(e, i, "error") /\ Answer(e, i, FALSE)
  /\ UNCHANGED <<claims, status, capacityVars, faults>>

\* The catch: DELETE FROM webhook_events, and a 500.
Release(e, i) ==
  /\ run[e][i] = "failing"
  /\ claims' = claims \ {e} /\ Goes(e, i, "error") /\ Answer(e, i, FALSE)
  /\ UNCHANGED <<status, capacityVars, faults>>

\* The DELETE fails too: a 500, and the claim stays.
ReleaseFails(e, i) ==
  /\ run[e][i] = "failing" /\ Fault
  /\ Goes(e, i, "stuck") /\ Answer(e, i, FALSE)
  /\ UNCHANGED <<claims, status, capacityVars>>

\* The worker dies; a claim it holds stays, and Stripe hears nothing.
Crash(e, i) ==
  /\ Fault
  /\ \/ run[e][i] = "sent" /\ Goes(e, i, "error")
     \/ /\ run[e][i] \in {"claimed", "status", "stopped", "written", "failing"}
        /\ Goes(e, i, "crashed")
  /\ UNCHANGED <<stripeVars, claims, status, capacityVars>>

Handle(e, i) ==
  \/ Claim(e, i) \/ SetStatus(e, i) \/ StopAuto(e, i) \/ Trim(e, i) \/ Finish(e, i)
  \/ Refused(e, i) \/ Release(e, i)

\* Uploads and deletes.
Traffic ==
  /\ \E u \in Usages : CapacityCheck(auto, u, allocated) /\ used' = u
  /\ UNCHANGED <<stripeVars, run, claims, status, auto, allocated, faults>>

Next ==
  \/ \E e \in Events : Send(e) \/ TimeOut(e)
  \/ \E e \in Events, i \in Deliveries :
       Handle(e, i) \/ Fails(e, i) \/ ReleaseFails(e, i) \/ Crash(e, i)
  \/ Traffic

Spec == Init /\ [][Next]_vars

\* Stripe keeps sending what is due and waits for no answer forever; a handler
\* that is not killed runs on.
Fairness ==
  /\ \A e \in Events : WF_vars(Send(e)) /\ WF_vars(TimeOut(e))
  /\ \A e \in Events, i \in Deliveries : WF_vars(Handle(e, i))

FairSpec == Spec /\ Fairness

-----------------------------------------------------------------------------
(* Properties *)

Running == {"claimed", "status", "stopped", "written", "failing"}

TypeOK ==
  /\ sent \in [Events -> 0 .. MaxDeliveries]
  /\ waiting \in SUBSET Events /\ acked \in SUBSET Events /\ late \in SUBSET Events
  /\ run \in [Events -> [Deliveries ->
       Running \cup {"none", "sent", "duplicate", "error", "done", "stuck", "crashed"}]]
  /\ claims \in SUBSET Events /\ status \in {"active", "canceled", "past_due"}
  /\ auto \in BOOLEAN /\ allocated \in Nat /\ used \in Usages
  /\ faults \in 0 .. MaxFaults

\* However Stripe repeats an event and whatever fails: its handler runs in one
\* delivery at a time, and in none after it has completed, died or kept its claim.
HandledOnce ==
  \A e \in Events, i, j \in Deliveries :
    run[e][i] \in Running /\ run[e][j] \in Running \cup {"done", "stuck", "crashed"} => i = j

\* A delivery of e died, outlived Stripe's patience or could not be released.
Disturbed(e) ==
  e \in late \/ \E i \in Deliveries : run[e][i] \in {"stuck", "crashed"}

Applied(e) == \E i \in Deliveries : run[e][i] = "done"

\* An event that Stripe takes for delivered has all its writes, also when some
\* of its deliveries failed half way, unless one of them was disturbed.
AckedIsApplied ==
  \A e \in acked : ~Disturbed(e) =>
    Applied(e) /\ (Known(e) /\ KindOf[e] # "resumed" => ~auto)

\* "Release the claim so Stripe's retry can reprocess this event": with fewer
\* faults than deliveries every event is applied in the end, unless a delivery
\* of it is disturbed or the org stores more than it may.
EventuallyApplied ==
  \A e \in Events : <>(Applied(e) \/ Disturbed(e) \/ used > allocated \/ used > JoinedGb)
=============================================================================
