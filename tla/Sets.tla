-------------------------------- MODULE Sets --------------------------------
(***************************************************************************)
(* Sets of objects and the generation of their variants.  Two doors, the   *)
(* API and the MCP server, read the items of a set with what is known of   *)
(* their objects, and queue one job per item under an id of the item's     *)
(* own; a job whose id the queue still knows is not queued again.  A job   *)
(* renders what its item asked when it was read, puts it under a key of    *)
(* the object and the aspect ratio, and writes the size it came to back    *)
(* into the item.  Sizes are widths here; what the ledger makes of a job   *)
(* is the matter of VariantLedger.                                         *)
(***************************************************************************)
EXTENDS Integers, FiniteSets

CONSTANTS
  Items, Doors,
  SetOf, ObjectOf, AspectOf,  \* of each item
  Asked,     \* the width each item is added with, or None
  KindOf,    \* of each object
  Source,    \* the width of the objects
  None,
  MaxCalls,  \* bound: generations
  MaxFaults, \* bound: jobs given up and calls that break
  MaxRemovals \* bound: items removed, sets and objects deleted

Objects == {ObjectOf[i] : i \in Items}
SetIds == {SetOf[i] : i \in Items}
Key(i) == <<ObjectOf[i], AspectOf[i]>>
Keys == {Key(i) : i \in Items}

\* What the constants must be; assumed where the module is instantiated.
SetsAssumption ==
  /\ DOMAIN SetOf = Items /\ DOMAIN ObjectOf = Items /\ DOMAIN AspectOf = Items /\ DOMAIN Asked = Items
  /\ \A i, j \in Items : i # j => <<SetOf[i], ObjectOf[i]>> # <<SetOf[j], ObjectOf[j]>>
  /\ \A i \in Items : Asked[i] = None \/ Asked[i] \in Nat \ {0}
  /\ KindOf \in [Objects -> {"image", "video", "audio", "other"}]
  /\ Source \in Nat \ {0} /\ {MaxCalls, MaxFaults, MaxRemovals} \subseteq Nat

VARIABLES
  sets,      \* the sets there are
  rows,      \* the width in the row of each item, None if it has none
  status,    \* each item is new, in its set, or out of it
  gone,      \* objects deleted
  probed,    \* objects whose kind is known
  queue,     \* the jobs the queue knows
  calls,     \* the generation under way at each door, and what it has yet to queue
  made,      \* what each key holds: a width, or None
  count, faults, removals,
  answered,  \* history: items a generation counted as enqueued, not settled since
  early,     \* history: keys of items read before the kind was known
  renders    \* history: renderings of each item since its job was forgotten

setsVars == <<sets, rows, status, gone, probed, queue, calls, made, count, faults, removals, answered, early, renders>>
catalogue == <<sets, rows, status, gone, probed, removals>>
history == <<answered, early, renders>>

present == {i \in Items : status[i] = "in"}
NoCall == [at |-> "idle", todo |-> {}]

Init ==
  /\ sets = SetIds /\ status \in [Items -> {"new", "in"}]
  /\ rows = [i \in Items |-> IF status[i] = "in" THEN Asked[i] ELSE None]
  /\ gone = {} /\ probed \in SUBSET Objects
  /\ queue = {} /\ calls = [d \in Doors |-> NoCall] /\ made = [k \in Keys |-> None]
  /\ count = 0 /\ faults = 0 /\ removals = 0
  /\ answered = {} /\ early = {} /\ renders = [i \in Items |-> 0]

-----------------------------------------------------------------------------
(* The catalogue *)

\* The set and the object must be there, and not deleted.
Addable(i) == SetOf[i] \in sets /\ ObjectOf[i] \notin gone

\* POST /sets/:id/items and add_variant, once each.
AddItem ==
  /\ \E i \in Items :
       /\ status[i] = "new" /\ Addable(i)
       /\ status' = [status EXCEPT ![i] = "in"] /\ rows' = [rows EXCEPT ![i] = Asked[i]]
  /\ UNCHANGED <<sets, gone, probed, queue, calls, made, count, faults, removals, history>>

Removal == removals < MaxRemovals /\ removals' = removals + 1

\* Items leave their set, and what is queued for them stays queued.
Leave(out) ==
  /\ Removal
  /\ status' = [i \in Items |-> IF i \in out THEN "out" ELSE status[i]]
  /\ rows' = [i \in Items |-> IF i \in out THEN None ELSE rows[i]]
  /\ answered' = answered \ out
  /\ UNCHANGED <<gone, probed, queue, calls, made, count, faults, early, renders>>

RemoveItem == \E i \in present : Leave({i}) /\ UNCHANGED sets

\* The items go with their set.
DeleteSet == \E s \in sets : sets' = sets \ {s} /\ Leave({i \in present : SetOf[i] = s})

\* DELETE /media/:id and the end of a probe, as far as they matter here.
DeleteObject ==
  /\ Removal
  /\ \E o \in Objects \ gone : gone' = gone \cup {o} /\ answered' = {i \in answered : ObjectOf[i] # o}
  /\ UNCHANGED <<sets, rows, status, probed, queue, calls, made, count, faults, early, renders>>

Probe ==
  /\ \E o \in Objects \ probed : probed' = probed \cup {o}
  /\ UNCHANGED <<sets, rows, status, gone, queue, calls, made, count, faults, removals, history>>

-----------------------------------------------------------------------------
(* Generating *)

\* An object without a media_assets row is of no kind.
KindRead(o) == IF o \in probed THEN KindOf[o] ELSE "other"

\* Both doors read the items of live objects, with the kind that is known.
Generate(d) ==
  /\ calls[d].at = "idle" /\ count < MaxCalls /\ count' = count + 1
  /\ \E s \in sets :
       LET read == {i \in present : SetOf[i] = s /\ ObjectOf[i] \notin gone}
       IN  /\ calls' = [calls EXCEPT ![d] = [at |-> "adding",
                          todo |-> {[item |-> i, width |-> rows[i], kind |-> KindRead(ObjectOf[i])] : i \in read}]]
           /\ early' = early \cup {Key(i) : i \in {j \in read : ObjectOf[j] \notin probed}}
  /\ UNCHANGED <<catalogue, queue, made, faults, answered, renders>>

\* variant-<item>, whichever generation it is.
JobId(i, n) == <<i, 0>>

\* A job the queue knows by its id is not added.
Queued(job) == queue' = IF \E j \in queue : j.id = job.id THEN queue ELSE queue \cup {job}

\* An item that still wants its variant: its job has not failed for good.
Wanting(i) ==
  i \in present /\ ObjectOf[i] \notin gone /\ made[Key(i)] = None /\ ~\E j \in queue : j.item = i /\ j.at = "failed"

\* Items without a width, or of width 0, are skipped; the others are counted
\* as enqueued, whether the queue took the job or knew it.
Enqueue(d) ==
  /\ calls[d].at = "adding"
  /\ \E it \in calls[d].todo :
       /\ calls' = [calls EXCEPT ![d].todo = @ \ {it}]
       /\ IF it.width \in {None, 0} THEN UNCHANGED <<queue, answered>>
          ELSE /\ Queued([id |-> JobId(it.item, count), item |-> it.item, width |-> it.width, kind |-> it.kind, at |-> "waiting"])
               /\ answered' = IF Wanting(it.item) THEN answered \cup {it.item} ELSE answered
  /\ UNCHANGED <<catalogue, made, count, faults, early, renders>>

\* 202, with the number of the items.
Answer(d) ==
  /\ calls[d].at = "adding" /\ calls[d].todo = {} /\ calls' = [calls EXCEPT ![d] = NoCall]
  /\ UNCHANGED <<catalogue, queue, made, count, faults, history>>

\* Redis is not to be had: 500, with some of the items queued.
Breaks(d) ==
  /\ calls[d].at = "adding" /\ faults < MaxFaults /\ faults' = faults + 1
  /\ calls' = [calls EXCEPT ![d] = NoCall]
  /\ UNCHANGED <<catalogue, queue, made, count, history>>

-----------------------------------------------------------------------------
(* The worker *)

Ends(j, at) == queue' = (queue \ {j}) \cup {[j EXCEPT !.at = at]}

\* The width a job comes to.
Fit(kind, width) ==
  CASE kind = "image" -> IF width < Source THEN width ELSE Source  \* inside, never enlarged
    [] kind = "audio" -> 0                                          \* has none
    [] OTHER -> width                                               \* stretched, or a copy

\* The bytes and the derivatives row, then the row of the item if it is there.
Render ==
  /\ \E j \in queue :
       /\ j.at = "waiting" /\ ObjectOf[j.item] \notin gone /\ Ends(j, "completed")
       /\ made' = [made EXCEPT ![Key(j.item)] = Fit(j.kind, j.width)]
       /\ rows' = IF j.item \in present THEN [rows EXCEPT ![j.item] = Fit(j.kind, j.width)] ELSE rows
       /\ renders' = [renders EXCEPT ![j.item] = @ + 1]
       /\ answered' = {i \in answered : Key(i) # Key(j.item)}
  /\ UNCHANGED <<sets, status, gone, probed, calls, count, faults, removals, early>>

\* The source is gone, or all attempts fail.
GiveUp ==
  /\ \E j \in queue :
       /\ j.at = "waiting" /\ Ends(j, "failed")
       /\ IF ObjectOf[j.item] \in gone THEN faults' = faults ELSE faults < MaxFaults /\ faults' = faults + 1
       /\ answered' = answered \ {j.item}
  /\ UNCHANGED <<catalogue, calls, made, count, early, renders>>

\* After an hour, a day, a week or a month, by the door and the outcome.
Forget ==
  /\ \E j \in queue :
       /\ j.at # "waiting" /\ queue' = queue \ {j} /\ renders' = [renders EXCEPT ![j.item] = 0]
  /\ UNCHANGED <<catalogue, calls, made, count, faults, answered, early>>

-----------------------------------------------------------------------------
Works(d) == Enqueue(d) \/ Answer(d)

Next ==
  \/ AddItem \/ RemoveItem \/ DeleteSet \/ DeleteObject \/ Probe
  \/ \E d \in Doors : Generate(d) \/ Works(d) \/ Breaks(d)
  \/ Render \/ GiveUp \/ Forget

\* The doors go on with a call, the workers with the queue.
Fairness == WF_setsVars(Render \/ GiveUp) /\ \A d \in Doors : WF_setsVars(Works(d))

Spec == Init /\ [][Next]_setsVars /\ Fairness

-----------------------------------------------------------------------------
TypeOK ==
  /\ sets \subseteq SetIds /\ status \in [Items -> {"new", "in", "out"}] /\ gone \subseteq Objects /\ probed \subseteq Objects
  /\ rows \in [Items -> Nat \cup {None}] /\ made \in [Keys -> Nat \cup {None}]
  /\ \A j \in queue : j.item \in Items /\ j.at \in {"waiting", "completed", "failed"}
  /\ \A i, j \in queue : i.id = j.id => i = j
  /\ count \in 0 .. MaxCalls /\ faults \in 0 .. MaxFaults /\ removals \in 0 .. MaxRemovals /\ answered \subseteq Items

\* What a key holds is what one of its items asked, made to fit the object's
\* kind, however often it was generated, at which door, and from which size
\* the row had come to; except what was read before the kind was known.
GeneratedFits ==
  \A k \in Keys \ early : made[k] # None => \E i \in Items : Key(i) = k /\ Asked[i] # None /\ made[k] = Fit(KindOf[k[1]], Asked[i])

\* Generating again, at either door, does not render an item again while the
\* queue knows its job ("re-running is idempotent", mcp/src/tools/sets.ts:194).
RendersOnce == \A i \in Items : renders[i] <= 1

\* What a generation counts as enqueued is rendered, or given up, or its item
\* or object is deleted: "enqueued" is not said of nothing (sets.ts:195).
EnqueuedIsSettled == []<>(answered = {})
=============================================================================
