---------------------------- MODULE OneTimeSecrets ----------------------------
(* The screen of the API keys. The secret of a key is in the answer to the   *)
(* request that creates or rotates it, once, and in one dialog that shows    *)
(* the last such answer the screen was told of: of the requests of one kind  *)
(* only the one sent last tells it. Requests overlap, two of a kind too, and *)
(* come to the server in any order; keys are revoked here, rotated and       *)
(* revoked elsewhere.                                                        *)
EXTENDS Naturals, FiniteSets, Sequences

CONSTANTS
  Keys,           \* those there are, and those to be created
  Old,            \* those there are
  MaxCalls,
  MaxLost         \* answers that do not come, other writers

SecretsAssumption == Old \subseteq Keys /\ MaxCalls \in Nat /\ MaxLost \in Nat

VARIABLES
  status,         \* of each row: "none", "live" or "revoked"
  secret,         \* the secret of each row, the first one is 0
  minted,
  listed,         \* the keys the screen lists
  form,           \* the dialog that creates a key is open
  calls,          \* the requests, in the order they are sent
  dialog,         \* the secret shown, with its key; none
  saved,          \* what the user has copied
  lost,
  foreign,        \* history: keys written elsewhere
  hasty           \* history: the user has acted over a secret not saved

vars == <<status, secret, minted, listed, form, calls, dialog, saved, lost, foreign, hasty>>
rowVars == <<status, secret, minted>>
userVars == <<saved, hasty>>

Live == {k \in Keys : status[k] = "live"}
Mints == {"create", "rotate"}

Init ==
  /\ status = [k \in Keys |-> IF k \in Old THEN "live" ELSE "none"]
  /\ secret = [k \in Keys |-> 0] /\ minted = 0 /\ listed = Old
  /\ form = FALSE /\ calls = <<>> /\ dialog = {} /\ saved = {} /\ lost = 0 /\ foreign = {} /\ hasty = FALSE

At(place) == {i \in DOMAIN calls : calls[i].at = place}
Underway == At("sent") \union At("found") \union At("done")
Goes(i, place) == calls' = [calls EXCEPT ![i].at = place]

(* The hook remembers the request it sent last. *)
Told(i) == ~\E j \in DOMAIN calls : j > i /\ calls[j].hook = calls[i].hook

(* What is shown and not copied would be lost to another answer. *)
Unsaved == ~(dialog \subseteq saved)

-----------------------------------------------------------------------------
(* The user *)

Sends(hook, key) ==
  /\ Len(calls) < MaxCalls
  /\ calls' = Append(calls, [hook |-> hook, key |-> key, at |-> "sent", secret |-> 0])
  /\ hasty' = (hasty \/ (hook \in Mints
       /\ (Unsaved \/ \E i \in Underway : calls[i].hook \in Mints)))

OpenForm ==
  /\ form' = ~form
  /\ UNCHANGED <<rowVars, listed, calls, dialog, userVars, lost, foreign>>

(* The form stays open, and its button enabled, until the answer. *)
Create ==
  /\ form /\ Sends("create", {})
  /\ UNCHANGED <<rowVars, listed, form, dialog, saved, lost, foreign>>

Rotate(k) ==
  /\ k \in listed /\ Sends("rotate", {k})
  /\ UNCHANGED <<rowVars, listed, form, dialog, saved, lost, foreign>>

Revoke(k) ==
  /\ k \in listed /\ Sends("revoke", {k})
  /\ UNCHANGED <<rowVars, listed, form, dialog, saved, lost, foreign>>

Copy ==
  /\ dialog # {} /\ saved' = saved \union dialog
  /\ UNCHANGED <<rowVars, listed, form, calls, dialog, lost, foreign, hasty>>

Close ==
  /\ dialog # {} /\ dialog' = {} /\ hasty' = (hasty \/ Unsaved)
  /\ UNCHANGED <<rowVars, listed, form, calls, saved, lost, foreign>>

-----------------------------------------------------------------------------
(* The API *)

Minted(i, k) ==
  /\ minted' = minted + 1 /\ secret' = [secret EXCEPT ![k] = minted + 1]
  /\ calls' = [calls EXCEPT ![i] = [@ EXCEPT !.at = "done", !.key = {k}, !.secret = minted + 1]]

(* POST /api-keys: a new row. *)
Inserts(i) ==
  /\ i \in At("sent") /\ calls[i].hook = "create"
  /\ \E k \in Keys : status[k] = "none" /\ status' = [status EXCEPT ![k] = "live"] /\ Minted(i, k)
  /\ UNCHANGED <<listed, form, dialog, userVars, lost, foreign>>

(* The row a rotation finds, or a 404. *)
Finds(i) ==
  /\ i \in At("sent") /\ calls[i].hook = "rotate"
  /\ Goes(i, IF calls[i].key \subseteq Live THEN "found" ELSE "refused")
  /\ UNCHANGED <<rowVars, listed, form, dialog, userVars, lost, foreign>>

(* Its UPDATE, which looks at nothing but the id. *)
Updates(i) ==
  /\ i \in At("found") /\ \E k \in calls[i].key : Minted(i, k)
  /\ UNCHANGED <<status, listed, form, dialog, userVars, lost, foreign>>

Revokes(i) ==
  /\ i \in At("sent") /\ calls[i].hook = "revoke"
  /\ Goes(i, IF calls[i].key \subseteq Live THEN "done" ELSE "refused")
  /\ status' = [k \in Keys |-> IF k \in calls[i].key THEN "revoked" ELSE status[k]]
  /\ UNCHANGED <<secret, minted, listed, form, dialog, userVars, lost, foreign>>

(* Another administrator, or a key itself. *)
Elsewhere(k) ==
  /\ k \in Live /\ lost < MaxLost /\ lost' = lost + 1 /\ foreign' = foreign \union {k}
  /\ \/ minted' = minted + 1 /\ secret' = [secret EXCEPT ![k] = minted + 1] /\ UNCHANGED status
     \/ status' = [status EXCEPT ![k] = "revoked"] /\ UNCHANGED <<secret, minted>>
  /\ UNCHANGED <<listed, form, calls, dialog, userVars>>

-----------------------------------------------------------------------------
(* The answers *)

Shows(i) == {<<k, calls[i].secret>> : k \in calls[i].key}

(* setNewKeyResult replaces what was shown; a created key closes the form. *)
Answered(i) ==
  /\ i \in At("done") /\ Goes(i, "answered")
  /\ IF calls[i].hook \in Mints /\ Told(i)
     THEN dialog' = Shows(i) /\ form' = (form /\ calls[i].hook = "rotate")
     ELSE UNCHANGED <<dialog, form>>
  /\ UNCHANGED <<rowVars, listed, userVars, lost, foreign>>

(* No answer, no word of it. *)
Loses(i) ==
  /\ i \in Underway /\ lost < MaxLost /\ lost' = lost + 1 /\ Goes(i, "lost")
  /\ UNCHANGED <<rowVars, listed, form, dialog, userVars, foreign>>

(* The list is fetched again, after an answer or at a focus. *)
Lists ==
  /\ listed' = Live
  /\ UNCHANGED <<rowVars, form, calls, dialog, userVars, lost, foreign>>

Next ==
  \/ OpenForm \/ Create \/ Copy \/ Close \/ Lists
  \/ \E k \in Keys : Rotate(k) \/ Revoke(k) \/ Elsewhere(k)
  \/ \E i \in DOMAIN calls :
       Inserts(i) \/ Finds(i) \/ Updates(i) \/ Revokes(i) \/ Answered(i) \/ Loses(i)

Spec == Init /\ [][Next]_vars

-----------------------------------------------------------------------------
TypeOK ==
  /\ status \in [Keys -> {"none", "live", "revoked"}] /\ secret \in [Keys -> 0..minted]
  /\ listed \subseteq Keys /\ form \in BOOLEAN /\ Len(calls) <= MaxCalls
  /\ Cardinality(dialog) <= 1 /\ lost <= MaxLost

(* The requests that wrote the secret of a key, or still may. *)
Writers(k) == {i \in DOMAIN calls : calls[i].hook \in Mints /\ k \in calls[i].key /\ calls[i].at # "refused"}

(* The secret in the dialog opens its key, as long as one request of this    *)
(* screen has been about the secret of that key and nobody else's.           *)
ShownSecretWorks ==
  \A d \in dialog : (d[1] \notin foreign /\ Cardinality(Writers(d[1])) = 1) => secret[d[1]] = d[2]

(* No live key is left with a secret nobody has: when nothing is under way,  *)
(* its secret is the one it had, or it is shown, or copied; unless an answer *)
(* was lost, the key was written elsewhere, or the user has sent another     *)
(* such request, or closed the dialog, before the secret was copied.         *)
NoSecretIsLost ==
  (Underway = {} /\ At("lost") = {} /\ ~hasty) =>
    \A k \in Live \ foreign : (k \in Old /\ secret[k] = 0) \/ <<k, secret[k]>> \in saved \union dialog
=============================================================================
