---------------------------- MODULE AutoCapacity ----------------------------
(* The auto-capacity panel of the billing screen. Four fields are kept as a  *)
(* form that is filled from the cached billing query; a switch, a slider let *)
(* go or a field left sends all four, as the form has them; every save that  *)
(* succeeds has the query fetched again, and an answer that differs from the *)
(* last one fills the form anew. Saves overlap, answers come late or never,  *)
(* the API refuses settings the panel offers, and the webhook of an unpaid   *)
(* invoice turns the switch off. The screen stays open: QueryCache has what  *)
(* leaving it does.                                                          *)
EXTENDS Naturals, FiniteSets, Sequences

CONSTANTS
  Defaults,       \* what the form holds before the first answer
  Settings,       \* what an org may have stored
  Offered,        \* the values each slider or field can be given
  MaxSaves, MaxEdits, MaxLost

AutoCapacityAssumption ==
  /\ Settings \union {Defaults} \subseteq [enabled : BOOLEAN, gb : Nat, pct : Nat, cap : Nat]
  /\ Offered \in [gb : SUBSET Nat, pct : SUBSET Nat, cap : SUBSET Nat]
  /\ {MaxSaves, MaxEdits, MaxLost} \subseteq Nat

Fields == DOMAIN Defaults

VARIABLES
  stored,     \* the columns of the capacity row
  form,       \* the four controls
  edited,     \* the fields the user has changed since the form was filled
  unsaved,    \* those not sent since
  data,       \* the last answer of the billing query; none before the first
  stale,      \* the query is marked
  fetching,   \* the fetch under way: what the server read for it, if it has
  saves,      \* the saves: what they send, which of it the user has edited
  edits,      \* bound
  lost,       \* bound: answers that do not come, and writes of the webhook
  carried,    \* history: fields a save has changed that nobody had edited
  kept        \* history: an answer like the last one came after a save was overtaken

vars == <<stored, form, edited, unsaved, data, stale, fetching, saves, edits, lost, carried, kept>>
queryVars == <<data, stale, fetching>>

(* At most one answer. *)
Nothing == {}
Idle == [on |-> FALSE, read |-> Nothing]
Asked == [on |-> TRUE, read |-> Nothing]

Open(i) == saves[i].at \in {"sent", "applied"}
Quiet == \A i \in DOMAIN saves : ~Open(i)

Init ==
  /\ stored \in Settings /\ form = Defaults /\ edited = {} /\ unsaved = {}
  /\ data = Nothing /\ stale = FALSE /\ fetching = Asked
  /\ saves = <<>> /\ edits = 0 /\ lost = 0 /\ carried = {} /\ kept = FALSE

-----------------------------------------------------------------------------
(* The panel *)

(* A slider is moved, the amount is typed; both show while the switch is on. *)
Edit(f, v) ==
  /\ form.enabled /\ v \in Offered[f] \ {form[f]}
  /\ edits < MaxEdits /\ edits' = edits + 1
  /\ form' = [form EXCEPT ![f] = v]
  /\ edited' = edited \union {f} /\ unsaved' = unsaved \union {f}
  /\ UNCHANGED <<stored, queryVars, saves, lost, carried, kept>>

(* A save that is answered before the first load is not shown by it. *)
Early == \E i \in DOMAIN saves : saves[i].early

(* A save is clean that was sent from what should be stored: loaded, shown,  *)
(* no other save on its way.                                                 *)
Clean == data # Nothing /\ ~stale /\ Quiet /\ ~Early

(* A save sent over another makes neither clean. *)
Overlapped(s) == IF s.at \in {"sent", "applied"} THEN [s EXCEPT !.clean = FALSE] ELSE s

(* persistAuto *)
Persist(settings, own) ==
  /\ Len(saves) < MaxSaves
  /\ saves' = Append([i \in DOMAIN saves |-> Overlapped(saves[i])],
       [at |-> "sent", to |-> settings, own |-> own, clean |-> Clean, late |-> FALSE, early |-> data = Nothing])
  /\ unsaved' = {}

(* A slider is let go, the field is left. *)
LetGo ==
  /\ form.enabled /\ Persist(form, edited)
  /\ UNCHANGED <<stored, form, edited, queryVars, edits, lost, carried, kept>>

Toggle ==
  /\ form' = [form EXCEPT !.enabled = ~@] /\ edited' = edited \union {"enabled"}
  /\ Persist(form', edited')
  /\ UNCHANGED <<stored, queryVars, edits, lost, carried, kept>>

-----------------------------------------------------------------------------
(* PUT /billing/capacity/auto *)

(* autoCapacitySchema *)
Accepted(s) == s.pct <= 50 /\ (s.enabled => s.cap > 0)

Goes(i, place) == saves' = [saves EXCEPT ![i].at = place]

(* A later save has been carried out before. *)
Overtaken(i) == \E j \in DOMAIN saves : j > i /\ saves[j].at \in {"applied", "done"}

(* One UPDATE of the four columns, or a 400, which the panel does not show.  *)
Served(i) ==
  /\ saves[i].at = "sent"
  /\ IF Accepted(saves[i].to)
     THEN /\ stored' = saves[i].to
          /\ saves' = [saves EXCEPT ![i] = [@ EXCEPT !.at = "applied", !.late = Overtaken(i)]]
          /\ carried' = IF saves[i].clean /\ lost = 0
                        THEN carried \union {f \in Fields \ saves[i].own : stored[f] # stored'[f]}
                        ELSE carried
     ELSE Goes(i, "refused") /\ UNCHANGED <<stored, carried>>
  /\ UNCHANGED <<form, edited, unsaved, queryVars, edits, lost, kept>>

(* onSuccess: the query is marked and fetched again. A fetch under way is    *)
(* cancelled, but for the first.                                             *)
Answered(i) ==
  /\ saves[i].at = "applied" /\ Goes(i, "done")
  /\ stale' = TRUE
  /\ fetching' = IF data # Nothing \/ ~fetching.on THEN Asked ELSE fetching
  /\ UNCHANGED <<stored, form, edited, unsaved, data, edits, lost, carried, kept>>

(* The request or its answer is lost: no onSuccess, and no second try. *)
Loses(i) ==
  /\ Open(i) /\ lost < MaxLost /\ lost' = lost + 1 /\ Goes(i, "lost")
  /\ UNCHANGED <<stored, form, edited, unsaved, queryVars, edits, carried, kept>>

(* handleInvoiceFailed *)
TurnedOff ==
  /\ stored.enabled /\ lost < MaxLost /\ lost' = lost + 1
  /\ stored' = [stored EXCEPT !.enabled = FALSE]
  /\ UNCHANGED <<form, edited, unsaved, queryVars, saves, edits, carried, kept>>

-----------------------------------------------------------------------------
(* The billing query *)

Reads ==
  /\ fetching = Asked
  /\ fetching' = [on |-> TRUE, read |-> {stored}]
  /\ UNCHANGED <<stored, form, edited, unsaved, data, stale, saves, edits, lost, carried, kept>>

Fills == form' = CHOOSE s \in fetching.read : TRUE

(* The answer replaces the data if it differs, in the settings or in what    *)
(* else it holds; the effect that watches the data fills the form.           *)
Lands ==
  /\ fetching.read # Nothing
  /\ data' = fetching.read /\ stale' = FALSE /\ fetching' = Idle
  /\ \/ Fills /\ edited' = {} /\ unsaved' = {} /\ UNCHANGED kept
     \/ /\ data = fetching.read /\ UNCHANGED <<form, edited, unsaved>>
        /\ kept' = (kept \/ \E i \in DOMAIN saves : saves[i].late)
  /\ UNCHANGED <<stored, saves, edits, lost, carried>>

(* The focus of the window, or half a minute gone: joins a fetch under way.  *)
Refetch ==
  /\ ~fetching.on /\ fetching' = Asked
  /\ UNCHANGED <<stored, form, edited, unsaved, data, stale, saves, edits, lost, carried, kept>>

(* The fetch and its one retry fail: the data stays, and is marked. *)
FetchFails ==
  /\ fetching.on /\ lost < MaxLost /\ lost' = lost + 1
  /\ fetching' = Idle /\ stale' = TRUE
  /\ UNCHANGED <<stored, form, edited, unsaved, data, saves, edits, carried, kept>>

Next ==
  \/ \E f \in Fields \ {"enabled"} : \E v \in Offered[f] : Edit(f, v)
  \/ LetGo \/ Toggle
  \/ \E i \in DOMAIN saves : Served(i) \/ Answered(i) \/ Loses(i)
  \/ TurnedOff \/ Reads \/ Lands \/ Refetch \/ FetchFails

Spec == Init /\ [][Next]_vars

-----------------------------------------------------------------------------
TypeOK ==
  /\ {DOMAIN stored, DOMAIN form} = {Fields}
  /\ edited \subseteq Fields /\ unsaved \subseteq edited
  /\ \A read \in {data, fetching.read} : Cardinality(read) <= 1
  /\ stale \in BOOLEAN /\ fetching.on \in BOOLEAN
  /\ Len(saves) <= MaxSaves /\ edits <= MaxEdits /\ lost <= MaxLost
  /\ carried \subseteq Fields /\ kept \in BOOLEAN

(* All four fields are sent with each: what the user has not touched is not  *)
(* changed by it, unless the save is sent before the panel has loaded, over  *)
(* another save or before its answer is shown, or over what the webhook wrote.*)
SavesOnlyEdits == carried = {}

(* When nothing is under way or left to be sent, the panel shows what is     *)
(* stored: however saves and fetches have overlapped, but for saves that     *)
(* were refused, lost or sent before the panel had loaded, and an overtaken  *)
(* one that ends where the last answer was.                                  *)
PanelIsStored ==
  (data # Nothing /\ Quiet /\ ~fetching.on /\ ~stale /\ unsaved = {} /\ lost = 0
    /\ ~kept /\ ~Early /\ \A i \in DOMAIN saves : saves[i].at # "refused") => form = stored
=============================================================================
