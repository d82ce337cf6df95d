--------------------------- MODULE MCEntitlement ---------------------------
(* What changes an org's capacity and its price: Entitlement on a small     *)
(* instance (one add by hand, one automatic, one plan change), an install   *)
(* without Stripe, the prices of the plans, the delivery of Stripe's        *)
(* events.  They share no state that is modelled: one of them runs, the one *)
(* in part; the others stay where they start.                               *)
EXTENDS Entitlement, TLC

CONSTANTS
  Parts,   \* those that a run looks at: "stripe", "selfHosted", "prices", "webhook"
  a1, a2, c1, small, large,
  d1, d2, e1, s1, None, MaxSettings, MaxFaults, MaxRuns, MaxStripe,
  \* of the install without Stripe
  SizeOfPlan, FreePlan, BoughtGb, Downgrades, Enlarges, Shrinks, GbOfCall, TargetOf, Mixes,
  \* of the events of Stripe
  Cancellations, Failures, Resumptions, MaxDeliveries, Tagged, InitialGb, PlanGb, AddonGb, Usages

MCIncludedGb == [p \in {small, large} |-> IF p = small THEN 1 ELSE 2]
MCGbOf == [a \in Adds |-> 1]
MCUpgrade == [c \in Changes |-> large]

\* Two adds with a tool that shrinks, with downgrades, and tools by themselves.
MCSizeOfPlan == small :> 1 @@ large :> 3
MCGbOfCall == a1 :> 1 @@ a2 :> 1 @@ e1 :> 1 @@ s1 :> 1
MCTargetOf == d1 :> large @@ d2 :> small
MCMixes == {{a1, a2, s1}, {a1, d1, d2}, {d2, e1, s1}}

VARIABLES
  part,
  tier, granted, filled, relaxed, turn, call, settings,
  priced, products, found, prices, sync, runs,
  sent, waiting, acked, late, handling, claims, status, autoAdds, allotted, occupied, faults

Capacity == INSTANCE SelfHosted WITH
  IncludedGb <- SizeOfPlan, FirstPlan <- FreePlan, AddonGb <- BoughtGb,
  GbOf <- GbOfCall, PlanOf <- TargetOf,
  plan <- tier, allocated <- granted, used <- filled, auto <- relaxed, lock <- turn

\* One of the two amounts may change between runs.
Pricing == INSTANCE PriceSync WITH
  Defaults <- {[base |-> 9, addon |-> 4], [base |-> 9, addon |-> 3]}, row <- priced, run <- sync

Webhook == INSTANCE StripeWebhook WITH
  run <- handling, auto <- autoAdds, allocated <- allotted, used <- occupied

ASSUME CapacityAssumption == Capacity!SelfHostedAssumption
ASSUME PricingAssumption == Pricing!PriceSyncAssumption
ASSUME DeliveryAssumption == Webhook!WebhookAssumption

selfHostedVars == <<tier, granted, filled, relaxed, turn, call, settings>>
priceVars == <<priced, products, found, prices, sync, runs>>
webhookVars == <<sent, waiting, acked, late, handling, claims, status, autoAdds, allotted, occupied, faults>>
mcVars == <<part, vars, selfHostedVars, priceVars, webhookVars>>

\* A part that does not run starts in one state.
Rests(p, still) == part = p \/ still

MCInit ==
  /\ part \in Parts
  /\ Init /\ Rests("stripe", ~auto)
  /\ Capacity!Init /\ Rests("selfHosted", ~relaxed /\ call[a1].at = "start" /\ call[a2].at = "start")
  /\ Pricing!Init /\ Webhook!Init

MCNext ==
  /\ UNCHANGED part
  /\ \/ part = "stripe" /\ Next /\ UNCHANGED <<selfHostedVars, priceVars, webhookVars>>
     \/ part = "selfHosted" /\ Capacity!Next /\ UNCHANGED <<vars, priceVars, webhookVars>>
     \/ part = "prices" /\ Pricing!Next /\ UNCHANGED <<vars, selfHostedVars, webhookVars>>
     \/ part = "webhook" /\ Webhook!Next /\ UNCHANGED <<vars, selfHostedVars, priceVars>>

\* The fairness of the modules, each while its part runs.
MCFairness ==
  /\ \A a \in Adds : WF_vars(part = "stripe" /\ Add(a))
  /\ \A c \in Changes : WF_vars(part = "stripe" /\ Change(c))
  /\ WF_selfHostedVars(part = "selfHosted" /\ Capacity!Requests)

\* That of StripeWebhook: Stripe keeps sending what is due and waits for no
\* answer forever, and a handler that is not killed runs on.
DeliveryFairness ==
  \A e \in Webhook!Events :
    /\ WF_webhookVars(part = "webhook" /\ Webhook!Send(e))
    /\ WF_webhookVars(part = "webhook" /\ Webhook!TimeOut(e))
    /\ \A i \in Webhook!Deliveries : WF_webhookVars(part = "webhook" /\ Webhook!Handle(e, i))

MCSpec == MCInit /\ [][MCNext]_mcVars /\ MCFairness /\ DeliveryFairness

-----------------------------------------------------------------------------
\* Capacity without Stripe keeps within plan and add-ons, overlapping adds are
\* all counted, and nothing leaves more stored than allocated (SelfHosted).
CapacityHolds ==
  part = "selfHosted" =>
    /\ Capacity!TypeOK /\ Capacity!PlanBounds /\ Capacity!AddsAddUp /\ Capacity!StoredFits

\* Plans are sold at one price: one active price of a type, saved rows have
\* active prices of their amounts, one product for the tier (PriceSync).
PricesHold ==
  /\ [](part = "prices" => Pricing!TypeOK /\ Pricing!OneActive)
  /\ Pricing!SavedIsSold /\ Pricing!OneProduct

\* However Stripe repeats an event and whatever fails, its handler runs in one
\* delivery at a time and completes at most once (StripeWebhook).
HandledOnce == part = "webhook" => Webhook!TypeOK /\ Webhook!HandledOnce

\* An event that Stripe takes for delivered has all its writes, unless one of
\* its deliveries died, kept its claim or outlived Stripe's patience.
AckedIsApplied == part = "webhook" => Webhook!AckedIsApplied

\* Every other event is applied in the end, unless the org stores more than the
\* handler would leave it.
EventuallyApplied == part = "webhook" => Webhook!EventuallyApplied

\* Every request that has arrived ends: adds and plan changes (Entitlement) and
\* those of an install without Stripe, which give the lock back (SelfHosted).
CallsEnd ==
  /\ []<>(part = "stripe" => AllEnded)
  /\ []<>(part = "selfHosted" => Capacity!Answered)
=============================================================================
