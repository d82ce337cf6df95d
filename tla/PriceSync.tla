------------------------------ MODULE PriceSync -----------------------------
(***************************************************************************)
(* setup:stripe for one plan: the plan row is written from the defaults,   *)
(* and syncPlanToStripe makes a Stripe product with a base and an add-on   *)
(* price of the amounts of the row, and puts their ids into the row.       *)
(* Nothing spans the two sides: the script may die after any Stripe call,  *)
(* and is then run again, perhaps with other amounts.  The search of       *)
(* products lags behind what was just created.                             *)
(***************************************************************************)
EXTENDS Integers, FiniteSets, FiniteSetsExt

CONSTANTS
  Defaults,     \* the amounts that a run may come with: [base, addon] records
  None,
  MaxRuns,      \* bound: the runs of the script
  MaxStripe     \* bound: the ids that Stripe gives out

Types == {"base", "addon"}

PriceSyncAssumption ==
  /\ IsFiniteSet(Defaults) /\ \A d \in Defaults : DOMAIN d = Types /\ \A t \in Types : d[t] \in Nat
  /\ None \notin 1 .. MaxStripe /\ MaxRuns \in Nat /\ MaxStripe \in Nat

VARIABLES
  row,        \* the plan row: its amounts, and the ids of Stripe
  products,   \* the products of the tier, and those the search finds
  found,
  prices,     \* the prices: their product, type, amount and active
  run,        \* the script: where it is and what it holds
  runs

vars == <<row, products, found, prices, run, runs>>

Idle == [at |-> "idle", product |-> None, listed |-> {}, ids |-> [t \in Types |-> None], amounts |-> None]

Init ==
  /\ row = [amounts |-> None, product |-> None, ids |-> [t \in Types |-> None]]
  /\ products = {} /\ found = {} /\ prices = {} /\ run = Idle /\ runs = 0

\* Ids are given out in order.
Ids == products \cup {p.id : p \in prices}
NextId == IF Ids = {} THEN 1 ELSE Max(Ids) + 1

Active(product, type) == {p \in prices : p.product = product /\ p.type = type /\ p.active}
Deactivated(p) == (prices \ {p}) \cup {[p EXCEPT !.active = FALSE]}
NewPrice(product, type, amount) ==
  [id |-> NextId, product |-> product, type |-> type, amount |-> amount, active |-> TRUE]

-----------------------------------------------------------------------------
\* The plan row is inserted, or updated with the defaults; its ids are kept.
Start ==
  /\ run.at = "idle" /\ runs < MaxRuns /\ runs' = runs + 1
  /\ \E d \in Defaults :
       /\ row' = [row EXCEPT !.amounts = d]
       /\ run' = [Idle EXCEPT !.at = "product", !.product = row.product, !.amounts = d]
  /\ UNCHANGED <<products, found, prices>>

\* The product of the row, one that the search finds, or a new one.
Product ==
  /\ run.at = "product"
  /\ \/ run.product # None /\ UNCHANGED products /\ run' = [run EXCEPT !.at = "list"]
     \/ /\ run.product = None /\ UNCHANGED products
        /\ \E p \in found : run' = [run EXCEPT !.at = "list", !.product = p]
     \/ /\ run.product = None /\ found = {} /\ NextId <= MaxStripe
        /\ products' = products \cup {NextId} /\ run' = [run EXCEPT !.at = "list", !.product = NextId]
  /\ UNCHANGED <<row, found, prices, runs>>

\* prices.list: the active ones, at most five.
List ==
  /\ run.at = "list"
  /\ run' = [run EXCEPT !.at = "base", !.listed = {p \in prices : p.product = run.product /\ p.active}]
  /\ UNCHANGED <<row, products, found, prices, runs>>

\* The one of a type that was listed; there is never more than one.
Listed(t) == {p \in run.listed : p.type = t}
Following(t) == IF t = "base" THEN "addon" ELSE "save"

Settles(t, id) == run' = [run EXCEPT !.at = Following(t), !.ids[t] = id]

\* Mutant: the price that was listed is kept whatever its amount.
KeepAnyway(t) ==
  /\ run.at = t
  /\ \E p \in Listed(t) : Settles(t, p.id)
  /\ UNCHANGED <<row, products, found, prices, runs>>

\* A price of the right amount is kept.
Keep(t) ==
  /\ run.at = t
  /\ \E p \in Listed(t) : p.amount = run.amounts[t] /\ Settles(t, p.id)
  /\ UNCHANGED <<row, products, found, prices, runs>>

\* One of another amount is deactivated.
Retire(t) ==
  /\ run.at = t
  /\ \E p \in Listed(t) : p.amount # run.amounts[t] /\ prices' = Deactivated(p)
  /\ run' = [run EXCEPT !.listed = @ \ Listed(t)]
  /\ UNCHANGED <<row, products, found, runs>>

\* There is none: it is created.
Create(t) ==
  /\ run.at = t /\ Listed(t) = {} /\ NextId <= MaxStripe
  /\ prices' = prices \cup {NewPrice(run.product, t, run.amounts[t])} /\ Settles(t, NextId)
  /\ UNCHANGED <<row, products, found, runs>>

\* The ids go into the row.
Save ==
  /\ run.at = "save"
  /\ row' = [row EXCEPT !.product = run.product, !.ids = run.ids]
  /\ run' = Idle
  /\ UNCHANGED <<products, found, prices, runs>>

\* A Stripe call fails or the process dies.
Dies == run.at # "idle" /\ run' = Idle /\ UNCHANGED <<row, products, found, prices, runs>>

\* The search catches up.
Indexed == found # products /\ found' = products /\ UNCHANGED <<row, products, prices, run, runs>>

Prices(t) == Keep(t) \/ Retire(t) \/ Create(t)

Next == Start \/ Product \/ List \/ (\E t \in Types : Prices(t)) \/ Save \/ Dies \/ Indexed

Spec == Init /\ [][Next]_vars

-----------------------------------------------------------------------------
TypeOK ==
  /\ products \subseteq 1 .. MaxStripe /\ found \subseteq products
  /\ \A p \in prices : p.id \in 1 .. MaxStripe /\ p.product \in products /\ p.type \in Types
  /\ \A p, q \in prices : p.id = q.id => p = q
  /\ row.product \in products \cup {None} /\ run.product \in products \cup {None}
  /\ run.at \in Types \cup {"idle", "product", "list", "save"} /\ runs \in 0 .. MaxRuns

\* A product has at most one active price of a type, wherever earlier runs died.
OneActive == \A x \in products, t \in Types : Cardinality(Active(x, t)) <= 1

\* A run that comes to its end leaves the row with active prices of its
\* amounts, whatever the runs before it left behind.
SavedIsSold ==
  [][Save => \A t \in Types : \E p \in prices' :
       p.id = row'.ids[t] /\ p.active /\ p.product = row'.product /\ p.amount = row'.amounts[t]]_vars

\* While the search keeps up no second product is made for the tier.
OneProduct == [][(found = products /\ products # {}) => products' = products]_vars
=============================================================================
