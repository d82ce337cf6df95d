--------------------------- MODULE SecretRotation ---------------------------
(***************************************************************************)
(* The daily rotation of internal-api-secret and the verifier that reads   *)
(* its versions.  Versions are numbered in the order they are created;     *)
(* version 0 is the bootstrap row, whose value is the one of the           *)
(* environment.  The RotationManager is a library: what it calls, in which *)
(* order (store as pending, verify, complete, or cancel), is external.     *)
(* Each statement is a step; nothing here is a transaction.                *)
(***************************************************************************)
EXTENDS Integers, FiniteSets

CONSTANTS
  Requests,    \* internal requests, which are verified within a minute
  MaxDay,      \* bound of the calendar
  MaxVersion,  \* bound: versions ever created
  MaxFaults    \* bound: statements that fail, workers that die

\* What the constants must be; assumed where the module is instantiated.
RotationAssumption == MaxDay \in Nat /\ MaxVersion \in Nat /\ MaxFaults \in Nat

Versions == 0 .. MaxVersion

VARIABLES
  day, faults,
  stages,     \* of each row of service_secrets; {} without a row
  created,    \* the day of each row
  run,        \* where the run of the day is
  ran,        \* whether the run of the day is over
  signed,     \* the version each request was signed with; -1 before that
  sentOn,     \* and the day
  verdict,    \* of each request
  activated,  \* history: versions that were current once
  torn,       \* history: a run left a pending row, or no current one, behind
  lastFault   \* history: the day of the last fault

store == <<stages, created, activated>>
traffic == <<signed, sentOn, verdict>>
vars == <<day, faults, store, run, ran, traffic, torn, lastFault>>

Init ==
  /\ day = 0 /\ faults = 0
  /\ stages = [v \in Versions |-> {}] /\ created = [v \in Versions |-> 0] /\ activated = {}
  /\ run = "idle" /\ ran = FALSE
  /\ signed = [r \in Requests |-> -1] /\ sentOn = [r \in Requests |-> 0]
  /\ verdict = [r \in Requests |-> "none"]
  /\ torn = FALSE /\ lastFault = -2

Rows == {v \in Versions : stages[v] # {}}

In(stage) == {v \in Versions : stage \in stages[v]}

Fault == faults < MaxFaults /\ faults' = faults + 1 /\ lastFault' = day

\* Bound: the run of a day is over before the next day's.
Tick ==
  /\ day < MaxDay /\ ran /\ run = "idle" /\ day' = day + 1 /\ ran' = FALSE
  /\ UNCHANGED <<faults, store, run, traffic, torn, lastFault>>

-----------------------------------------------------------------------------
(* The run of the day *)

\* ensureBootstrap seeds a secret that has no row.
Bootstrap ==
  /\ run = "idle" /\ ~ran /\ run' = "check"
  /\ IF Rows = {}
     THEN /\ stages' = [stages EXCEPT ![0] = {"current"}]
          /\ created' = [created EXCEPT ![0] = day] /\ activated' = {0}
     ELSE UNCHANGED store
  /\ UNCHANGED <<day, faults, ran, traffic, torn, lastFault>>

\* The version getSecret returns, when there is one.
Current == {v \in In("current") : \A w \in In("current") : w <= v}

\* The current row is 24 hours old.  The run of the day after it was created
\* starts at the same hour, give or take: it may be a few seconds early.
\* Without a current row the rotation goes ahead.
Due == \A v \in Current : created[v] + 1 <= day

TooEarly == \E v \in Current : created[v] + 1 >= day

Check ==
  /\ run = "check"
  /\ \/ Due /\ run' = "store" /\ UNCHANGED ran
     \/ TooEarly /\ run' = "idle" /\ ran' = TRUE
  /\ UNCHANGED <<day, faults, store, traffic, torn, lastFault>>

\* storeSecretValue: a new pending version.
Store ==
  /\ run = "store" /\ run' = "demote"
  /\ \E v \in Versions :
       /\ \A w \in Versions : w \in Rows => w < v
       /\ v - 1 \in Rows
       /\ stages' = [stages EXCEPT ![v] = {"pending"}]
       /\ created' = [created EXCEPT ![v] = day]
  /\ UNCHANGED <<day, faults, activated, ran, traffic, torn, lastFault>>

\* promote(), its first update: current rows that are not pending become previous.
Demote ==
  /\ run = "demote" /\ run' = "promote"
  /\ stages' = [v \in Versions |-> IF v \in In("current") \ In("pending")
                                   THEN (stages[v] \ {"current"}) \cup {"previous"} ELSE stages[v]]
  /\ UNCHANGED <<day, faults, created, activated, ran, traffic, torn, lastFault>>

\* promote(), its second update: every pending row becomes current.
Promote ==
  /\ run = "promote" /\ run' = "idle" /\ ran' = TRUE
  /\ stages' = [v \in Versions |-> IF v \in In("pending")
                                   THEN (stages[v] \ {"pending"}) \cup {"current"} ELSE stages[v]]
  /\ activated' = activated \cup In("pending")
  /\ torn' = (torn /\ Cardinality(In("pending")) # 1)
  /\ UNCHANGED <<day, faults, created, traffic, lastFault>>

\* A step of the rotation fails: cancelRotation deletes every pending row, and
\* the run is over, as the error is only logged.
Cancel ==
  /\ run \in {"store", "demote", "promote"} /\ Fault
  /\ stages' = [v \in Versions |-> IF v \in In("pending") THEN {} ELSE stages[v]]
  /\ run' = "idle" /\ ran' = TRUE /\ torn' = (torn \/ run = "promote")
  /\ UNCHANGED <<day, created, activated, traffic>>

\* The worker dies, or the store fails before the rotation: the job is
\* delivered again, up to its last attempt.
Dies ==
  /\ run # "idle" /\ Fault /\ run' = "idle" /\ ran' \in BOOLEAN
  /\ torn' = (torn \/ run \in {"demote", "promote"})
  /\ UNCHANGED <<day, store, traffic>>

-----------------------------------------------------------------------------
(* Signing and verifying *)

\* Mutant: only the current version is read.
CandidatesCurrent == {0} \cup In("current")

\* ORDER BY current first, then the newest; LIMIT 2.  The value of the
\* environment is always among the candidates.
Candidates ==
  LET kept == In("current") \cup In("previous")
      ahead(v) == {w \in kept : \/ w \in In("current") /\ v \notin In("current")
                                \/ (w \in In("current") <=> v \in In("current")) /\ w > v}
  IN {0} \cup {v \in kept : Cardinality(ahead(v)) < 2}

\* A service signs with the current secret: the environment's before the
\* first run.
Sign(r) ==
  /\ verdict[r] # "sent" /\ verdict' = [verdict EXCEPT ![r] = "sent"]
  /\ \E v \in IF Rows = {} THEN {0} ELSE Current : signed' = [signed EXCEPT ![r] = v]
  /\ sentOn' = [sentOn EXCEPT ![r] = day]
  /\ UNCHANGED <<day, faults, store, run, ran, torn, lastFault>>

\* The API verifies: outside the minute nothing is accepted; without an answer
\* from the store, only the environment's value.
Verify(r) ==
  /\ verdict[r] = "sent"
  /\ \/ /\ verdict' = [verdict EXCEPT ![r] =
             IF sentOn[r] # day THEN "stale" ELSE IF signed[r] \in Candidates THEN "accepted" ELSE "rejected"]
        /\ UNCHANGED <<faults, lastFault>>
     \/ /\ Fault
        /\ verdict' = [verdict EXCEPT ![r] =
             IF sentOn[r] # day THEN "stale" ELSE IF signed[r] = 0 THEN "accepted" ELSE "unread"]
  /\ UNCHANGED <<day, store, run, ran, signed, sentOn, torn>>

-----------------------------------------------------------------------------
Run == Bootstrap \/ Check \/ Store \/ Demote \/ Promote

Next ==
  \/ Tick \/ Run \/ Cancel \/ Dies
  \/ \E r \in Requests : Sign(r) \/ Verify(r)

Spec == Init /\ [][Next]_vars

-----------------------------------------------------------------------------
(* Properties *)

TypeOK ==
  /\ day \in 0 .. MaxDay /\ faults \in 0 .. MaxFaults /\ lastFault \in -2 .. MaxDay
  /\ stages \in [Versions -> SUBSET {"current", "pending", "previous"}]
  /\ created \in [Versions -> 0 .. MaxDay] /\ activated \subseteq Versions
  /\ run \in {"idle", "check", "store", "demote", "promote"} /\ ran \in BOOLEAN /\ torn \in BOOLEAN
  /\ signed \in [Requests -> Versions \cup {-1}] /\ sentOn \in [Requests -> 0 .. MaxDay]
  /\ verdict \in [Requests -> {"none", "sent", "accepted", "rejected", "stale", "unread"}]

\* "a rotation does not break in-flight calls" (db/src/index.ts:104-106): a
\* request that was signed with the current secret is accepted within its
\* minute, before, during and after both updates of a promotion, unless a run
\* that failed left a pending row: the next promotion makes two rows current,
\* and those two are the candidates.
GraceWindow == [][\A r \in Requests : verdict'[r] = "rejected" => verdict[r] = "rejected" \/ torn]_vars

\* At most the two versions activated last verify, beside the environment's:
\* previous rows accumulate and never come back, and a version that is stored
\* and not activated, or rolled back, verifies nothing.
OnlyTheLastTwo ==
  \A v \in Candidates \ {0} : v \in activated /\ Cardinality({w \in activated : w > v}) < 2

\* "so the due policy matches the daily schedule" (secret-rotation.ts:491-492)
\* as far as it does: a current version is at most a day old when the run is
\* over (not: new each day), and what a failed run left behind is repaired by
\* the two rotations after it, at the latest on the third day.
Fresh ==
  ran /\ day >= lastFault + 3 =>
    /\ Cardinality(In("current")) = 1 /\ In("pending") = {} /\ ~torn
    /\ \A v \in In("current") : created[v] >= day - 1
=============================================================================
