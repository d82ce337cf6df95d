---------------------------- MODULE Provisioning ----------------------------
(***************************************************************************)
(* handleCheckoutCompleted: a person pays for a subscription and the event *)
(* of the checkout gives them a user row, an org, the link to the          *)
(* subscription, a bucket on the object storage, capacity and an API key,  *)
(* in one transaction with calls to Stripe and to the storage inside it.   *)
(*                                                                         *)
(* One person, who may pay again: a checkout is named by the subscription  *)
(* it made.  How an event is claimed, and how duplicates of it are told    *)
(* apart, is in StripeWebhook; here the claim is held, given back or lost. *)
(***************************************************************************)
EXTENDS Integers, FiniteSets

CONSTANTS
  Subs, None,
  PlanGb,      \* included_gb of the plan each was made for
  AddonGb,     \* the sum of the add-on rows
  Usages,      \* bound: what the org may be storing
  MaxTries,    \* bound: the times Stripe sends an event
  MaxFaults    \* bound: calls that fail, workers that die

\* What the constants must be; assumed where the module is instantiated.
ProvisioningAssumption ==
  /\ None \notin Subs /\ PlanGb \in [Subs -> Nat] /\ AddonGb \in 0 .. 999
  /\ Usages \subseteq Nat /\ 0 \in Usages
  /\ MaxTries \in Nat \ {0} /\ MaxFaults \in Nat

VARIABLES
  stripe,    \* of each subscription: "none", "paying" or "ending" (cancel_at_period_end)
  at,        \* where the event of each is
  tries,
  previous,  \* the subscription its transaction found linked
  found,     \* what its transaction found: a bucket, a key
  userLock,  \* the transaction that holds the uncommitted users row
  linkLock,  \* the transaction that holds the subscriptions row
  link,      \* subscriptions.stripe_subscription_id; None before the first checkout
  allocated, used,
  bucket,    \* the row of the default bucket: "none", "live" or "deleted"
  storage,   \* whether the storage has it
  keys,      \* the live API keys
  faults,
  overlap,   \* history: subscriptions whose checkout overlapped another one
  unheard    \* history: subscriptions whose cancellation Stripe did not hear

eventVars == <<stripe, at, tries, previous, found>>
orgVars == <<link, allocated, used, bucket, keys>>
lockVars == <<userLock, linkLock>>
vars == <<eventVars, lockVars, orgVars, storage, faults, overlap, unheard>>

\* plan.included_gb + SUM(gb): both are NUMERIC, so strings, and + joins them.
JoinedGb(s) == (IF AddonGb < 10 THEN 10 ELSE IF AddonGb < 100 THEN 100 ELSE 1000) * PlanGb[s] + AddonGb

Nothing == [bucket |-> FALSE, key |-> FALSE]

Init ==
  /\ stripe = [s \in Subs |-> "none"] /\ at = [s \in Subs |-> "unpaid"]
  /\ tries = [s \in Subs |-> 0] /\ previous = [s \in Subs |-> None]
  /\ found = [s \in Subs |-> Nothing]
  /\ userLock = None /\ linkLock = None
  /\ link = None /\ allocated = 0 /\ used = 0 /\ bucket = "none" /\ keys = 0
  /\ storage = FALSE /\ faults = 0 /\ overlap = {} /\ unheard = {}

Goes(s, place) == at' = [at EXCEPT ![s] = place]
Fault == faults < MaxFaults /\ faults' = faults + 1

InTransaction(s) == at[s] \notin {"unpaid", "sent", "acked", "gaveUp", "stuck"}

-----------------------------------------------------------------------------
(* Stripe *)

Pay(s) ==
  /\ at[s] = "unpaid"
  /\ stripe' = [stripe EXCEPT ![s] = "paying"] /\ Goes(s, "sent")
  /\ UNCHANGED <<tries, previous, found, lockVars, orgVars, storage, faults, overlap, unheard>>

\* The claim of the event; another subscription of the person may be under way.
Deliver(s) ==
  /\ at[s] = "sent"
  /\ tries' = [tries EXCEPT ![s] = @ + 1] /\ Goes(s, "user")
  /\ LET others == {t \in Subs \ {s} : InTransaction(t)} IN
     overlap' = IF others = {} THEN overlap ELSE overlap \cup others \cup {s}
  /\ UNCHANGED <<stripe, previous, found, lockVars, orgVars, storage, faults, unheard>>

-----------------------------------------------------------------------------
(* The transaction *)

\* INSERT INTO users ON CONFLICT DO NOTHING waits for an insert that has not
\* committed; a row that is there is neither changed nor locked.
FindUser(s) ==
  /\ at[s] = "user" /\ userLock = None
  /\ userLock' = IF link = None THEN s ELSE None
  /\ Goes(s, "previous")
  /\ UNCHANGED <<stripe, tries, previous, found, linkLock, orgVars, storage, faults, overlap, unheard>>

\* Mutant: the link is overwritten without a look.
PreviousIgnored(s) ==
  /\ at[s] = "previous" /\ Goes(s, "link")
  /\ UNCHANGED <<stripe, tries, previous, found, lockVars, orgVars, storage, faults, overlap, unheard>>

\* SELECT ... FROM subscriptions, without a lock
Previous(s) ==
  /\ at[s] = "previous"
  /\ previous' = [previous EXCEPT ![s] = link]
  /\ Goes(s, IF link \in {None, s} THEN "link" ELSE "replace")
  /\ UNCHANGED <<stripe, tries, found, lockVars, orgVars, storage, faults, overlap, unheard>>

\* C09: the old subscription ends; a call that fails is only logged.
Replace(s) ==
  /\ at[s] = "replace" /\ Goes(s, "link")
  /\ \/ /\ stripe' = [stripe EXCEPT ![previous[s]] = "ending"]
        /\ UNCHANGED <<faults, unheard>>
     \/ Fault /\ unheard' = unheard \cup {previous[s]} /\ UNCHANGED stripe
  /\ UNCHANGED <<tries, previous, found, lockVars, orgVars, storage, overlap>>

\* The upsert of subscriptions holds its row until the transaction ends.
Link(s) ==
  /\ at[s] = "link" /\ linkLock = None
  /\ linkLock' = s /\ Goes(s, "bucket")
  /\ UNCHANGED <<stripe, tries, previous, found, userLock, orgVars, storage, faults, overlap, unheard>>

\* Without a live bucket one is made on the storage before the row; a bucket
\* that is there already is taken, any other error undoes everything.
Bucket(s) ==
  /\ at[s] = "bucket"
  /\ found' = [found EXCEPT ![s].bucket = bucket = "live"]
  /\ \/ bucket = "live" /\ Goes(s, "capacity") /\ UNCHANGED <<storage, faults>>
     \/ bucket # "live" /\ storage' = TRUE /\ Goes(s, "capacity") /\ UNCHANGED faults
  /\ UNCHANGED <<stripe, tries, previous, lockVars, orgVars, overlap, unheard>>

\* The capacity row, which capacity_used_lte_allocated may refuse, and
\* whether there is an API key.
Capacity(s) ==
  /\ at[s] = "capacity"
  /\ Goes(s, IF used <= JoinedGb(s) THEN "commit" ELSE "rollback")
  /\ found' = [found EXCEPT ![s].key = keys > 0]
  /\ UNCHANGED <<stripe, tries, previous, lockVars, orgVars, storage, faults, overlap, unheard>>

Release(s) ==
  /\ userLock' = IF userLock = s THEN None ELSE userLock
  /\ linkLock' = IF linkLock = s THEN None ELSE linkLock
  /\ found' = [found EXCEPT ![s] = Nothing]

\* The insert of the bucket does nothing when its storage name has a row,
\* a deleted one included.
Commit(s) ==
  /\ at[s] = "commit"
  /\ link' = s /\ allocated' = JoinedGb(s)
  /\ bucket' = IF bucket = "none" THEN "live" ELSE bucket
  /\ keys' = IF found[s].key THEN keys ELSE keys + 1
  /\ Release(s) /\ Goes(s, "acked")
  /\ UNCHANGED <<stripe, tries, previous, used, storage, faults, overlap, unheard>>

\* The handler throws: the claim is given back and Stripe tries again, for a
\* while.  What Stripe and the storage have done stays done.
Rollback(s) ==
  /\ at[s] = "rollback"
  /\ Release(s) /\ Goes(s, IF tries[s] < MaxTries THEN "sent" ELSE "gaveUp")
  /\ UNCHANGED <<stripe, tries, previous, orgVars, storage, faults, overlap, unheard>>

\* A statement fails, or the storage does not make the bucket.
Throws(s) ==
  /\ InTransaction(s) /\ at[s] # "rollback" /\ Fault /\ Goes(s, "rollback")
  /\ UNCHANGED <<stripe, tries, previous, found, lockVars, orgVars, storage, overlap, unheard>>

\* The worker dies: the claim stays, and the redelivery counts as a duplicate.
Dies(s) ==
  /\ InTransaction(s) /\ Fault /\ Release(s) /\ Goes(s, "stuck")
  /\ UNCHANGED <<stripe, tries, previous, orgVars, storage, overlap, unheard>>

-----------------------------------------------------------------------------
(* The org *)

Store(bytes) ==
  /\ bytes # used /\ bytes <= allocated /\ \A s \in Subs : at[s] # "commit"
  /\ used' = bytes
  /\ UNCHANGED <<eventVars, lockVars, link, allocated, bucket, keys, storage, faults, overlap, unheard>>

\* The row of the default bucket is soft-deleted, then its storage, best effort.
DeleteBucket ==
  /\ bucket = "live" /\ bucket' = "deleted"
  /\ UNCHANGED <<eventVars, lockVars, link, allocated, used, keys, storage, faults, overlap, unheard>>

DropStorage ==
  /\ bucket = "deleted" /\ storage /\ storage' = FALSE
  /\ UNCHANGED <<eventVars, lockVars, orgVars, faults, overlap, unheard>>

RevokeKey ==
  /\ keys > 0 /\ keys' = keys - 1
  /\ UNCHANGED <<eventVars, lockVars, link, allocated, used, bucket, storage, faults, overlap, unheard>>

-----------------------------------------------------------------------------
Handle(s) ==
  \/ Deliver(s) \/ FindUser(s) \/ Previous(s) \/ Replace(s) \/ Link(s) \/ Bucket(s)
  \/ Capacity(s) \/ Commit(s) \/ Rollback(s)

Next ==
  \/ \E s \in Subs : Pay(s) \/ Handle(s) \/ Throws(s) \/ Dies(s)
  \/ \E bytes \in Usages : Store(bytes)
  \/ DeleteBucket \/ DropStorage \/ RevokeKey

Spec == Init /\ [][Next]_vars

-----------------------------------------------------------------------------
TypeOK ==
  /\ stripe \in [Subs -> {"none", "paying", "ending"}]
  /\ at \in [Subs -> {"unpaid", "sent", "user", "previous", "replace", "link", "bucket",
                      "capacity", "commit", "rollback", "acked", "gaveUp", "stuck"}]
  /\ tries \in [Subs -> 0 .. MaxTries] /\ previous \in [Subs -> Subs \cup {None}]
  /\ found \in [Subs -> [bucket : BOOLEAN, key : BOOLEAN]]
  /\ {userLock, linkLock, link} \subseteq Subs \cup {None}
  /\ {allocated, used, keys} \subseteq Nat
  /\ bucket \in {"none", "live", "deleted"} /\ storage \in BOOLEAN
  /\ faults \in 0 .. MaxFaults /\ overlap \subseteq Subs /\ unheard \subseteq Subs

\* webhook.ts:246, C09: a subscription that has been provisioned goes on
\* taking money only while it is the one that is linked, unless its checkout
\* overlapped another one or Stripe did not hear that it ends.
NoneOrphaned ==
  \A s \in Subs :
    at[s] = "acked" /\ stripe[s] = "paying" => s = link \/ s \in overlap \cup unheard

\* The org never ends up on a subscription that has been ended: with every
\* event handled, the linked one is being paid for.
LinkedIsPaid ==
  (\A s \in Subs : at[s] \in {"unpaid", "acked"}) /\ link # None => stripe[link] = "paying"

\* "Compute allocated_bytes = plan.included_gb + SUM(billing_addons.gb)"
\* (webhook.ts:334): an org is allocated what its plan includes and what it
\* bought on top.
CapacityIsPlanAndAddons == allocated = IF link = None THEN 0 ELSE PlanGb[link] + AddonGb

\* webhook.ts:274, C03: no org has capacity without a bucket behind it, unless
\* it deleted that bucket itself.
CapacityIsBacked == allocated > 0 /\ bucket # "deleted" => bucket = "live" /\ storage

\* Two checkouts that run at once make one default key between them.
OneDefaultKey == keys <= 1
=============================================================================
