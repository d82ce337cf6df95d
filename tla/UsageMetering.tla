--------------------------- MODULE UsageMetering ---------------------------
(***************************************************************************)
(* From a usage event to the bill.  Producers append events to the Redis   *)
(* stream usage:events; the consumer job reads new entries, inserts a row  *)
(* of usage_events each and acknowledges them; every 15 minutes the rollup *)
(* job adds the rows of a window to the org's usage_rollups, advances the  *)
(* watermark and trims old rows.  Nothing of this is one transaction: the  *)
(* steps below are the statements, and a fault may come between any two.   *)
(*                                                                         *)
(* The watermark is a row of rollup_state, a table that no migration       *)
(* creates: Table says whether the database has it.  The rollup's second   *)
(* half, the repair of used_bytes, is in ObjectLedger and VariantLedger.   *)
(***************************************************************************)
EXTENDS SizeTotals

CONSTANTS
  Events, Orgs, OrgOf,
  KindOf,         \* "request" or "egress"
  BytesOf,
  BatchSize,      \* COUNT of XREADGROUP
  Window,         \* the 15 minutes between two rollups, in ticks of the clock
  Retention,      \* the 7 days raw events are kept
  Jobs,           \* the rollups the scheduler repeats, numbered
  MaxAttempts,    \* of a job, by the options of its queue
  MaxTime,        \* bound of the clock
  LastEmit,       \* bound: when producers fall silent
  MaxFaults,      \* bound: statements that fail and workers that die
  Table           \* whether rollup_state exists

ASSUME MeteringAssumption ==
  /\ IsFiniteSet(Events)
  /\ OrgOf \in [Events -> Orgs] /\ KindOf \in [Events -> {"request", "egress"}]
  /\ BytesOf \in [Events -> Nat] /\ BatchSize \in Nat \ {0} /\ Jobs \subseteq Nat \ {0}
  /\ Window \in Nat \ {0} /\ Retention \in Nat /\ MaxAttempts \in Nat \ {0}
  /\ MaxTime \in Nat /\ LastEmit \in Nat /\ MaxFaults \in Nat /\ Table \in BOOLEAN

VARIABLES
  clock, faults,
  ts,        \* the time a producer gave the event
  entry,     \* of each event, where its entry of the stream is
  rows,      \* usage_events
  rollups,   \* usage_rollups, all days of an org together
  mark,      \* last_rollup_at; -1 without a row
  job,       \* of each rollup: "due", "active", "completed" or "failed"
  attempts,  \* the attempts of each rollup that failed
  recorded,  \* the rollups with a result in the idempotency store
  run,       \* the attempt that is under way
  rolled,    \* history: how often each event was added to a rollup
  failures,  \* history: the failures that cost a watermark its run
  late,      \* history: events inserted after a rollup read past their time
  gaps       \* history: the times between the watermark and a window's start

streamVars == <<ts, entry>>
jobVars == <<job, attempts, recorded>>
rollupVars == <<rollups, mark, rolled, gaps>>
vars == <<clock, faults, streamVars, rows, late, rollupVars, failures, jobVars, run>>

Idle == [pc |-> "idle", job |-> 0, since |-> 0, end |-> 0, blind |-> FALSE, snap |-> {}, todo |-> {}]

Init ==
  /\ clock = 0 /\ faults = 0
  /\ ts = [e \in Events |-> 0] /\ entry = [e \in Events |-> "none"]
  /\ rows = {} /\ late = {} /\ gaps = {}
  /\ rollups = [o \in Orgs |-> [requests |-> 0, egress |-> 0]] /\ mark = -1
  /\ job = [j \in Jobs |-> "due"] /\ attempts = [j \in Jobs |-> 0] /\ recorded = {}
  /\ run = Idle
  /\ rolled = [e \in Events |-> 0] /\ failures = 0

Fault == faults < MaxFaults /\ faults' = faults + 1

\* Bound: a rollup does not run for as long as the raw events are kept.
Tick ==
  /\ clock < MaxTime /\ (run.pc = "idle" \/ clock < run.end + Retention)
  /\ clock' = clock + 1
  /\ UNCHANGED <<faults, streamVars, rows, late, rollupVars, failures, jobVars, run>>

Moves(es, place) == entry' = [e \in Events |-> IF e \in es THEN place ELSE entry[e]]

At(place) == {e \in Events : entry[e] = place}

-----------------------------------------------------------------------------
(* The stream and its consumer *)

\* XADD by a producer.
Emit(e) ==
  /\ clock <= LastEmit /\ entry[e] = "none" /\ Moves({e}, "stream") /\ ts' = [ts EXCEPT ![e] = clock]
  /\ UNCHANGED <<clock, faults, rows, late, rollupVars, failures, jobVars, run>>

\* XREADGROUP ... '>': entries no consumer of the group was given yet, when
\* the last batch is done with.
Read ==
  /\ At("delivered") \cup At("stored") = {}
  /\ \E es \in SUBSET At("stream") :
       /\ Cardinality(es) = IF Cardinality(At("stream")) < BatchSize
                            THEN Cardinality(At("stream")) ELSE BatchSize
       /\ es # {} /\ Moves(es, "delivered")
  /\ UNCHANGED <<clock, faults, ts, rows, late, rollupVars, failures, jobVars, run>>

\* The window a rollup has read, or is about to count, ends after e.
WindowPassed(e) == ts[e] < mark \/ (run.pc \in {"count", "mark"} /\ ts[e] < run.end)

\* INSERT INTO usage_events, with the time of the event.
Insert(e) ==
  /\ entry[e] = "delivered"
  /\ rows' = rows \cup {e} /\ Moves({e}, "stored")
  /\ late' = IF WindowPassed(e) THEN late \cup {e} ELSE late
  /\ UNCHANGED <<clock, faults, ts, rollupVars, failures, jobVars, run>>

\* XACK after the INSERT.
Acknowledge(e) ==
  /\ entry[e] = "stored" /\ Moves({e}, "acked")
  /\ UNCHANGED <<clock, faults, ts, rows, late, rollupVars, failures, jobVars, run>>

\* An entry that cannot be parsed or inserted is acknowledged all the same.
Skip(e) ==
  /\ entry[e] = "delivered" /\ Fault /\ Moves({e}, "skipped")
  /\ UNCHANGED <<clock, ts, rows, late, rollupVars, failures, jobVars, run>>

\* The worker dies: its entries stay pending, and '>' never returns them.
ConsumerDies ==
  /\ At("delivered") \cup At("stored") # {} /\ Fault
  /\ Moves(At("delivered") \cup At("stored"), "pending")
  /\ UNCHANGED <<clock, ts, rows, late, rollupVars, failures, jobVars, run>>

-----------------------------------------------------------------------------
(* The rollup job, one at a time *)

Opened(j, found) ==
  run' = [Idle EXCEPT !.pc = "aggregate", !.job = j, !.end = clock, !.blind = ~found,
                      !.since = IF found THEN mark ELSE clock - Window]

Marked == Table /\ mark >= 0

\* withJobIdempotency: a job with a stored result is not run again, unless the
\* store cannot be reached.  Then now, and SELECT last_rollup_at: without an
\* answer or a row, the last 15 minutes.
Start(j) ==
  /\ run.pc = "idle" /\ job[j] = "due" /\ clock >= j * Window
  /\ \/ /\ j \in recorded /\ job' = [job EXCEPT ![j] = "completed"]
        /\ UNCHANGED <<run, faults, failures>>
     \/ /\ job' = [job EXCEPT ![j] = "active"]
        /\ \/ j \notin recorded /\ Opened(j, Marked) /\ UNCHANGED faults
           \/ j \in recorded /\ Opened(j, Marked) /\ Fault
        /\ UNCHANGED failures
     \/ /\ job' = [job EXCEPT ![j] = "active"]
        /\ j \notin recorded /\ Opened(j, FALSE) /\ Fault /\ failures' = failures + 1
  /\ UNCHANGED <<clock, streamVars, rows, late, rollupVars, attempts, recorded>>

InWindow(e) == ts[e] >= run.since /\ ts[e] < run.end

\* SELECT ... FROM usage_events ... GROUP BY org_id
Aggregate ==
  /\ run.pc = "aggregate"
  /\ LET snap == {e \in rows : InWindow(e)} IN
     run' = [run EXCEPT !.pc = "count", !.snap = snap, !.todo = {OrgOf[e] : e \in snap}]
  /\ UNCHANGED <<clock, faults, streamVars, rows, late, rollupVars, failures, jobVars>>

Of(o, kind, es) == {e \in es : OrgOf[e] = o /\ KindOf[e] = kind}

TotalBytes(es) == Total([e \in es |-> BytesOf[e]])

\* The row of one org: SELECT, then UPDATE or INSERT.
Count(o) ==
  /\ run.pc = "count" /\ o \in run.todo
  /\ rollups' = [rollups EXCEPT ![o] =
       [requests |-> @.requests + Cardinality(Of(o, "request", run.snap)),
        egress |-> @.egress + TotalBytes(Of(o, "egress", run.snap))]]
  /\ rolled' = [e \in Events |-> IF e \in run.snap /\ OrgOf[e] = o THEN rolled[e] + 1 ELSE rolled[e]]
  /\ run' = [run EXCEPT !.todo = @ \ {o}]
  /\ UNCHANGED <<clock, faults, streamVars, rows, late, mark, gaps, failures, jobVars>>

\* Mutant: the watermark is set to the time it is written at (P2.36).
MarkNow ==
  /\ run.pc = "count" /\ run.todo = {}
  /\ Table /\ mark' = clock /\ gaps' = gaps \cup ((mark + 1) .. run.since - 1)
  /\ run' = [run EXCEPT !.pc = "mark"]
  /\ UNCHANGED <<clock, faults, streamVars, rows, late, rollups, rolled, failures, jobVars>>

\* The upsert of rollup_state; its failure is swallowed.
Mark ==
  /\ run.pc = "count" /\ run.todo = {}
  /\ \/ /\ Table /\ mark' = run.end
        /\ gaps' = gaps \cup ((IF mark < 0 THEN 0 ELSE mark) .. run.since - 1)
        /\ UNCHANGED <<faults, failures>>
     \/ /\ IF Table THEN Fault /\ failures' = failures + 1 ELSE UNCHANGED <<faults, failures>>
        /\ UNCHANGED <<mark, gaps>>
  /\ run' = [run EXCEPT !.pc = "mark"]
  /\ UNCHANGED <<clock, streamVars, rows, late, rollups, rolled, jobVars>>

\* Mutant: everything is taken for rolled up.
TrimAll ==
  /\ run.pc = "mark" /\ run' = [run EXCEPT !.pc = "trim"] /\ rows' = {}
  /\ UNCHANGED <<clock, faults, streamVars, late, rollupVars, failures, jobVars>>

\* trimUsageEventsOlderThan, best effort.
Trim ==
  /\ run.pc = "mark" /\ run' = [run EXCEPT !.pc = "trim"]
  /\ \/ rows' = {e \in rows : ts[e] >= clock - Retention} /\ UNCHANGED faults
     \/ (Fault /\ UNCHANGED rows)
  /\ UNCHANGED <<clock, streamVars, late, rollupVars, failures, jobVars>>

\* The processor returns, the result is stored (or, when it was run without
\* the store, not), and the job completes.
Finish ==
  \/ /\ run.pc = "trim" /\ run' = [run EXCEPT !.pc = "done"]
     /\ \/ recorded' = recorded \cup {run.job} /\ UNCHANGED faults
        \/ (Fault /\ UNCHANGED recorded)
     /\ UNCHANGED <<clock, streamVars, rows, late, rollupVars, failures, job, attempts>>
  \/ /\ run.pc = "done" /\ run' = Idle /\ job' = [job EXCEPT ![run.job] = "completed"]
     /\ UNCHANGED <<clock, faults, streamVars, rows, late, rollupVars, failures, attempts, recorded>>

\* An attempt ends after it has read its window and before its watermark.
Lost == failures' = IF run.pc = "count" THEN failures + 1 ELSE failures

\* A statement of the rollup throws: BullMQ tries the job again, MaxAttempts times.
Throws ==
  /\ run.pc \in {"aggregate", "count"} /\ Fault /\ Lost /\ run' = Idle
  /\ attempts' = [attempts EXCEPT ![run.job] = @ + 1]
  /\ job' = [job EXCEPT ![run.job] = IF attempts[run.job] + 1 < MaxAttempts THEN "due" ELSE "failed"]
  /\ UNCHANGED <<clock, streamVars, rows, late, rollupVars, recorded>>

\* The worker dies: the job stalls and is delivered again.
Dies ==
  /\ run.pc # "idle" /\ Fault /\ Lost /\ run' = Idle /\ job' = [job EXCEPT ![run.job] = "due"]
  /\ UNCHANGED <<clock, streamVars, rows, late, rollupVars, attempts, recorded>>

-----------------------------------------------------------------------------
Consume == Read \/ \E e \in Events : Insert(e) \/ Acknowledge(e) \/ Skip(e)

Rollup ==
  \/ \E j \in Jobs : Start(j)
  \/ Aggregate \/ (\E o \in Orgs : Count(o)) \/ Mark \/ Trim \/ Finish

Next ==
  \/ Tick \/ (\E e \in Events : Emit(e))
  \/ Consume \/ ConsumerDies
  \/ Rollup \/ Throws \/ Dies

Spec == Init /\ [][Next]_vars

\* Both jobs are repeated for ever, and a worker that is not killed goes on.
FairSpec == Spec /\ WF_vars(Tick) /\ WF_vars(Consume) /\ WF_vars(Rollup)

-----------------------------------------------------------------------------
(* Properties *)

TypeOK ==
  /\ clock \in 0 .. MaxTime /\ faults \in 0 .. MaxFaults
  /\ ts \in [Events -> 0 .. MaxTime]
  /\ entry \in [Events -> {"none", "stream", "delivered", "stored", "acked", "skipped", "pending"}]
  /\ rows \subseteq Events /\ late \subseteq Events /\ gaps \subseteq -Window .. MaxTime
  /\ rollups \in [Orgs -> [requests : Nat, egress : Nat]] /\ mark \in -1 .. MaxTime
  /\ job \in [Jobs -> {"due", "active", "completed", "failed"}]
  /\ attempts \in [Jobs -> 0 .. MaxAttempts] /\ recorded \subseteq Jobs
  /\ run \in [pc : {"idle", "aggregate", "count", "mark", "trim", "done"}, job : Jobs \cup {0},
             since : -Window .. MaxTime, end : 0 .. MaxTime, blind : BOOLEAN,
             snap : SUBSET Events, todo : SUBSET Orgs]
  /\ rolled \in [Events -> Nat] /\ failures \in Nat

\* A recount has its failure: with the table, an event is in the rollups at most
\* once, and once more for every attempt that failed to read the watermark, or
\* that ended after it had read its window and before its watermark was written:
\* what such an attempt has added, the next one adds again.
NeverTwice == Table => \A e \in Events : rolled[e] <= failures + 1

\* "Persisting periodEnd makes the rollup exactly-once over the time axis"
\* (usage-rollup.ts:168-170): no event is in the rollups twice.  The code adds
\* the rows of the orgs one by one, each in a transaction of its own, and writes
\* the watermark last: an attempt that ends in between leaves what it added.
EachEventOnce == Table => \A e \in Events : rolled[e] <= 1

\* "Instead of skipping the tail": an event that was inserted in time is in the
\* rollups when the watermark has passed it, unless a run that found no
\* watermark jumped over it.
NothingSkipped ==
  \A e \in Events :
    e \in rows /\ ts[e] < mark /\ e \notin late /\ ts[e] \notin gaps => rolled[e] >= 1

\* What GET /usage sums is what was rolled up, by kind: requests are not
\* mixed with other events, and no attempt leaves half a row.
UsageIsExact ==
  \A o \in Orgs :
    /\ rollups[o].requests = Total([e \in Of(o, "request", Events) |-> rolled[e]])
    /\ rollups[o].egress = Total([e \in Of(o, "egress", Events) |-> rolled[e] * BytesOf[e]])

\* What the rollups hold: no event more often than failures explain, every event
\* the watermark has passed that was inserted in time, and by kind what was
\* counted.
UsageIsCounted == TypeOK /\ NeverTwice /\ NothingSkipped /\ UsageIsExact

\* "the raw rows are no longer needed" (usage-rollup.ts:178-185): a row is
\* deleted only when it is in the rollups, unless no rollup could reach it.
TrimSparesUncounted ==
  [][\A e \in rows \ rows' :
       rolled[e] >= 1 \/ e \in late \/ ts[e] \in gaps \/ run.blind]_vars

\* Every entry of the stream ends acknowledged, or pending with a dead consumer.
EntriesSettle == []<>(\A e \in Events : entry[e] \in {"none", "acked", "skipped", "pending"})

\* A failure is not stored as a result, "so retries actually re-run": a row
\* that a rollup is still to reach is counted in the end, however attempts
\* fail, unless it is late or jumped over, or a job used up its attempts.
EventuallyCounted ==
  \A e \in Events :
    (e \in rows /\ \E j \in Jobs : job[j] = "due" /\ ts[e] < j * Window)
      ~> (rolled[e] >= 1 \/ e \in late \/ ts[e] \in gaps \/ \E j \in Jobs : job[j] = "failed")
=============================================================================
