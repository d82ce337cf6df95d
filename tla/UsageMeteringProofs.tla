------------------------ MODULE UsageMeteringProofs ------------------------
(***************************************************************************)
(* Proofs about UsageMetering, for any events, orgs and faults: every      *)
(* recount of an event has its failure, none that was inserted in time is  *)
(* skipped, and the rollups add up by kind to what was counted.            *)
(***************************************************************************)
EXTENDS UsageMetering, SizeTotalsProofs

USE MeteringAssumption DEF streamVars, jobVars, rollupVars

Places == {"none", "stream", "delivered", "stored", "acked", "skipped", "pending"}

Runs == [pc : {"idle", "aggregate", "count", "mark", "trim", "done"}, job : Jobs \cup {0},
         since : -Window .. MaxTime, end : 0 .. MaxTime, blind : BOOLEAN,
         snap : SUBSET Events, todo : SUBSET Orgs]

-----------------------------------------------------------------------------
(* The invariant *)

\* An event the attempt under way has added to the rollup of its org.
Counted(e) == run.pc = "count" /\ e \in run.snap /\ OrgOf[e] \notin run.todo

\* A rollup that may run has attempts left; the attempt under way is its active one.
JobInv ==
  /\ \A j \in Jobs : job[j] \in {"due", "active"} => attempts[j] < MaxAttempts
  /\ run.pc # "idle" => run.job \in Jobs /\ job[run.job] = "active"

\* The clock, the window and the watermark.
WindowInv ==
  /\ mark <= clock
  /\ run.pc # "idle" => run.end <= clock /\ clock <= run.end + Retention /\ mark <= run.end
  /\ run.pc \in {"aggregate", "count"} /\ ~run.blind => run.since = mark /\ mark >= 0

\* What an attempt has read is emitted and in its window; of the rows in its
\* window it missed the late ones only.
SnapInv ==
  /\ \A e \in Events : entry[e] = "none" => e \notin rows \cup run.snap /\ rolled[e] = 0
  /\ run.pc = "count" =>
       /\ \A e \in run.snap : InWindow(e)
       /\ \A e \in rows \ late : InWindow(e) => e \in run.snap
  /\ \A e \in Events : Counted(e) => rolled[e] >= 1

\* The attempt under way has added e to a rollup.
Once(e) == rolled[e] <= failures + (IF Counted(e) THEN 1 ELSE 0)

\* What the next window may contain has been counted for failures only, and by
\* the attempt under way; an attempt that could not read the watermark there is
\* has its failure, so that this is true of what it counts again, too.
OnceInv == Table =>
  /\ NeverTwice
  /\ \A e \in Events : ts[e] >= mark => Once(e)
  /\ run.pc \in {"aggregate", "count"} /\ run.blind /\ mark >= 0 => \A e \in Events : Once(e)

\* What was inserted before an attempt read has been counted when it is over.
TailInv ==
  /\ NothingSkipped
  /\ run.pc = "mark" /\ ~run.blind =>
       \A e \in rows \ late : ts[e] < run.end /\ ts[e] \notin gaps => rolled[e] >= 1

MeterInv == TypeOK /\ JobInv /\ WindowInv /\ SnapInv /\ OnceInv /\ TailInv /\ UsageIsExact

-----------------------------------------------------------------------------
(* Types *)

\* What was counted for a set of events is a natural.
LEMMA OfFinite ==
  ASSUME NEW o, NEW kind, NEW es \in SUBSET Events
  PROVE  Of(o, kind, es) \in SUBSET Events /\ IsFiniteSet(Of(o, kind, es))
BY FS_Subset DEF Of

LEMMA CountsType ==
  ASSUME NEW o, NEW es \in SUBSET Events
  PROVE  Cardinality(Of(o, "request", es)) \in Nat /\ TotalBytes(Of(o, "egress", es)) \in Nat
<1>1. Cardinality(Of(o, "request", es)) \in Nat
  BY OfFinite, FS_CardinalityType
<1>2. [e \in Of(o, "egress", es) |-> BytesOf[e]] \in [Of(o, "egress", es) -> Nat]
  BY OfFinite
<1> QED
  BY <1>1, <1>2, OfFinite, TotalNat DEF TotalBytes

LEMMA Moved ==
  ASSUME TypeOK, NEW es, NEW place \in Places, Moves(es, place)
  PROVE  /\ entry' \in [Events -> Places]
         /\ \A e \in Events : entry'[e] = IF e \in es THEN place ELSE entry[e]
BY DEF Moves, TypeOK, Places

LEMMA InitTypeOK == Init => TypeOK
BY DEF Init, TypeOK, Idle

LEMMA IdleType == Idle \in Runs
BY DEF Idle, Runs

\* What the stream, its consumer and the clock do.
LEMMA StreamTypes ==
  ASSUME TypeOK, Tick \/ (\E e \in Events : Emit(e)) \/ Consume \/ ConsumerDies
  PROVE  TypeOK'
<1>1. CASE Tick
  BY <1>1 DEF Tick, TypeOK
<1>2. ASSUME NEW e \in Events, Emit(e) PROVE TypeOK'
  <2>1. entry' \in [Events -> Places]
    BY <1>2, Moved DEF Emit, Places
  <2> QED
    BY <1>2, <2>1 DEF Emit, TypeOK, Places
<1>3. CASE Read
  <2>1. entry' \in [Events -> Places]
    BY <1>3, Moved DEF Read, Places
  <2> QED
    BY <1>3, <2>1 DEF Read, TypeOK, Places
<1>4. ASSUME NEW e \in Events, Insert(e) PROVE TypeOK'
  <2>1. entry' \in [Events -> Places]
    BY <1>4, Moved DEF Insert, Places
  <2> QED
    BY <1>4, <2>1 DEF Insert, TypeOK, Places
<1>5. ASSUME NEW e \in Events, Acknowledge(e) PROVE TypeOK'
  <2>1. entry' \in [Events -> Places]
    BY <1>5, Moved DEF Acknowledge, Places
  <2> QED
    BY <1>5, <2>1 DEF Acknowledge, TypeOK, Places
<1>6. ASSUME NEW e \in Events, Skip(e) PROVE TypeOK'
  <2>1. entry' \in [Events -> Places]
    BY <1>6, Moved DEF Skip, Places
  <2> QED
    BY <1>6, <2>1 DEF Skip, Fault, TypeOK, Places
<1>7. CASE ConsumerDies
  <2>1. entry' \in [Events -> Places]
    BY <1>7, Moved DEF ConsumerDies, Places
  <2> QED
    BY <1>7, <2>1 DEF ConsumerDies, Fault, TypeOK, Places
<1> QED
  BY <1>1, <1>2, <1>3, <1>4, <1>5, <1>6, <1>7 DEF Consume

LEMMA LostType == ASSUME TypeOK, Lost PROVE failures' \in Nat
BY DEF Lost, TypeOK

\* What the rollup does.
LEMMA RollupTypes ==
  ASSUME TypeOK, JobInv, Rollup \/ Throws \/ Dies
  PROVE  TypeOK'
<1> USE DEF Runs
<1>1. ASSUME NEW j \in Jobs, Start(j) PROVE TypeOK'
  <2>1. \A found \in BOOLEAN : (found => mark >= 0) /\ Opened(j, found) => run' \in Runs
    <3> SUFFICES ASSUME NEW found \in BOOLEAN, found => mark >= 0, Opened(j, found) PROVE run' \in Runs
      OBVIOUS
    <3>1. (IF found THEN mark ELSE clock - Window) \in -Window .. MaxTime
      BY DEF TypeOK
    <3> QED
      BY <3>1 DEF Opened, Idle, TypeOK
  <2>2. Marked \in BOOLEAN /\ (Marked => mark >= 0)
    BY DEF Marked
  <2>3. run' \in Runs
    BY <1>1, <2>1, <2>2 DEF Start, TypeOK
  <2>4. job' \in [Jobs -> {"due", "active", "completed", "failed"}]
    BY <1>1 DEF Start, TypeOK
  <2>5. faults' \in 0 .. MaxFaults /\ failures' \in Nat
    <3>1. (UNCHANGED faults \/ Fault) /\ (UNCHANGED failures \/ failures' = failures + 1)
      BY <1>1 DEF Start
    <3> QED
      BY <3>1 DEF Fault, TypeOK
  <2> QED
    BY <1>1, <2>3, <2>4, <2>5 DEF Start, TypeOK
<1>2. CASE Aggregate
  <2>1. run' \in Runs
    <3> DEFINE snap == {e \in rows : InWindow(e)}
               todo == {OrgOf[e] : e \in snap}
    <3>1. snap \in SUBSET Events /\ todo \in SUBSET Orgs
      BY DEF TypeOK
    <3>2. run' = [run EXCEPT !.pc = "count", !.snap = snap, !.todo = todo]
      BY <1>2 DEF Aggregate
    <3> HIDE DEF snap, todo
    <3> QED
      BY <3>1, <3>2 DEF TypeOK
  <2> QED
    BY <1>2, <2>1 DEF Aggregate, TypeOK
<1>3. ASSUME NEW o \in Orgs, Count(o) PROVE TypeOK'
  <2>1. run' \in Runs
    BY <1>3 DEF Count, TypeOK
  <2>2. rollups' \in [Orgs -> [requests : Nat, egress : Nat]]
    <3> DEFINE n == Cardinality(Of(o, "request", run.snap))
               b == TotalBytes(Of(o, "egress", run.snap))
    <3>1. n \in Nat /\ b \in Nat
      BY CountsType DEF TypeOK
    <3>2. rollups' = [rollups EXCEPT ![o] = [requests |-> @.requests + n, egress |-> @.egress + b]]
      BY <1>3 DEF Count
    <3> HIDE DEF n, b
    <3> QED
      BY <3>1, <3>2 DEF TypeOK
  <2>3. rolled' \in [Events -> Nat]
    BY <1>3 DEF Count, TypeOK
  <2> QED
    BY <1>3, <2>1, <2>2, <2>3 DEF Count, TypeOK
<1>4. CASE Mark
  <2>1. run' \in Runs
    BY <1>4 DEF Mark, TypeOK
  <2>2. mark' \in -1 .. MaxTime /\ gaps' \subseteq -Window .. MaxTime /\ faults' \in 0 .. MaxFaults
    <3>1. CASE mark' = run.end /\ UNCHANGED faults
               /\ gaps' = gaps \cup ((IF mark < 0 THEN 0 ELSE mark) .. run.since - 1)
      <4> DEFINE jumped == (IF mark < 0 THEN 0 ELSE mark) .. run.since - 1
      <4>1. \A n \in jumped : n >= 0 /\ n <= MaxTime
        BY DEF TypeOK
      <4>2. jumped \subseteq -Window .. MaxTime
        BY <4>1
      <4> HIDE DEF jumped
      <4>3. gaps' = gaps \cup jumped
        BY <3>1 DEF jumped
      <4>4. gaps' \subseteq -Window .. MaxTime
        BY <4>2, <4>3 DEF TypeOK
      <4>5. mark' \in -1 .. MaxTime
        BY <3>1 DEF TypeOK
      <4> QED
        BY <3>1, <4>4, <4>5 DEF TypeOK
    <3>2. CASE UNCHANGED <<mark, gaps>> /\ (Fault \/ UNCHANGED faults)
      BY <3>2 DEF Fault, TypeOK
    <3> QED
      BY <1>4, <3>1, <3>2 DEF Mark
  <2>3. failures' \in Nat
    BY <1>4 DEF Mark, TypeOK
  <2> QED
    BY <1>4, <2>1, <2>2, <2>3 DEF Mark, TypeOK
<1>5. CASE Trim
  <2>1. run' \in Runs
    BY <1>5 DEF Trim, TypeOK
  <2>2. rows' \subseteq Events /\ faults' \in 0 .. MaxFaults
    BY <1>5 DEF Trim, Fault, TypeOK
  <2> QED
    BY <1>5, <2>1, <2>2 DEF Trim, TypeOK
<1>6. CASE Finish
  <2>1. run' \in Runs
    BY <1>6, IdleType DEF Finish, TypeOK
  <2>2. recorded' \subseteq Jobs /\ faults' \in 0 .. MaxFaults
    BY <1>6 DEF Finish, Fault, JobInv, TypeOK
  <2>3. job' \in [Jobs -> {"due", "active", "completed", "failed"}]
    BY <1>6 DEF Finish, TypeOK
  <2> QED
    BY <1>6, <2>1, <2>2, <2>3 DEF Finish, TypeOK
<1>7. CASE Throws
  <2>1. run.job \in Jobs /\ attempts[run.job] < MaxAttempts
    BY <1>7 DEF Throws, JobInv
  <2>2. attempts' \in [Jobs -> 0 .. MaxAttempts]
    <3>1. attempts[run.job] + 1 \in 0 .. MaxAttempts
      <4>1. attempts[run.job] \in 0 .. MaxAttempts
        BY <2>1 DEF TypeOK
      <4> QED
        BY <2>1, <4>1
    <3>2. attempts' = [attempts EXCEPT ![run.job] = attempts[run.job] + 1]
      BY <1>7 DEF Throws
    <3> QED
      BY <3>1, <3>2 DEF TypeOK
  <2>3. job' \in [Jobs -> {"due", "active", "completed", "failed"}]
    BY <1>7 DEF Throws, TypeOK
  <2>4. run' \in Runs /\ failures' \in Nat
    BY <1>7, IdleType, LostType DEF Throws
  <2> QED
    BY <1>7, <2>2, <2>3, <2>4 DEF Throws, Fault, TypeOK
<1>8. CASE Dies
  <2>1. job' \in [Jobs -> {"due", "active", "completed", "failed"}]
    BY <1>8 DEF Dies, TypeOK
  <2>2. run' \in Runs /\ failures' \in Nat
    BY <1>8, IdleType, LostType DEF Dies
  <2> QED
    BY <1>8, <2>1, <2>2 DEF Dies, Fault, TypeOK
<1> QED
  BY <1>1, <1>2, <1>3, <1>4, <1>5, <1>6, <1>7, <1>8 DEF Rollup

-----------------------------------------------------------------------------
(* The stream keeps what the rollup relies on *)

\* Producers, the consumer and the clock change no rollup; a row that comes
\* after a window was read is late.
LEMMA StreamSteps ==
  ASSUME TypeOK, SnapInv, WindowInv,
         Tick \/ (\E e \in Events : Emit(e)) \/ Consume \/ ConsumerDies
  PROVE  /\ UNCHANGED <<rollupVars, failures, jobVars, run>>
         /\ \A e \in Events : entry'[e] = "none" => entry[e] = "none" /\ (e \in rows' => e \in rows)
         /\ \A e \in Events : ts'[e] = ts[e] \/ (entry[e] = "none" /\ e \notin rows')
         /\ \A e \in rows' \ late' : e \in rows \ late \/ ~WindowPassed(e)
         /\ clock <= clock' /\ (run.pc # "idle" => clock' <= run.end + Retention)
<1> DEFINE P1 == UNCHANGED <<rollupVars, failures, jobVars, run>>
           P2 == \A e \in Events : entry'[e] = "none" => entry[e] = "none" /\ (e \in rows' => e \in rows)
           P3 == \A e \in Events : ts'[e] = ts[e] \/ (entry[e] = "none" /\ e \notin rows')
           P4 == \A e \in rows' \ late' : e \in rows \ late \/ ~WindowPassed(e)
           P5 == clock <= clock' /\ (run.pc # "idle" => clock' <= run.end + Retention)
<1>1. ASSUME UNCHANGED <<rollupVars, failures, jobVars, run, ts, rows, late, clock>>,
             \E es \in SUBSET Events : \E place \in Places \ {"none"} : Moves(es, place)
      PROVE  P1 /\ P2 /\ P3 /\ P4 /\ P5
  <2>1. \A e \in Events : entry'[e] = "none" => entry[e] = "none"
    BY <1>1, Moved
  <2> QED
    BY <1>1, <2>1 DEF WindowInv, TypeOK
<1>2. CASE Tick
  BY <1>2 DEF Tick, WindowInv, TypeOK
<1>3. ASSUME NEW f \in Events, Emit(f) PROVE P1 /\ P2 /\ P3 /\ P4 /\ P5
  <2>1. \A e \in Events : entry'[e] = IF e = f THEN "stream" ELSE entry[e]
    BY <1>3, Moved DEF Emit, Places
  <2>2. \A e \in Events : e # f => ts'[e] = ts[e]
    BY <1>3 DEF Emit, TypeOK
  <2>3. UNCHANGED <<rollupVars, failures, jobVars, run, rows, late, clock>> /\ entry[f] = "none"
    BY <1>3 DEF Emit
  <2>4. f \notin rows
    BY <2>3 DEF SnapInv
  <2> QED
    BY <2>1, <2>2, <2>3, <2>4 DEF WindowInv, TypeOK
<1>4. ASSUME NEW f \in Events, Insert(f) PROVE P1 /\ P2 /\ P3 /\ P4 /\ P5
  <2>1. \A e \in Events : entry'[e] = IF e = f THEN "stored" ELSE entry[e]
    BY <1>4, Moved DEF Insert, Places
  <2>2. /\ UNCHANGED <<rollupVars, failures, jobVars, run, ts, clock>>
        /\ rows' = rows \cup {f} /\ late' = IF WindowPassed(f) THEN late \cup {f} ELSE late
    BY <1>4 DEF Insert
  <2> QED
    BY <2>1, <2>2 DEF WindowInv, TypeOK
<1>5. CASE Read
  <2>1. \E es \in SUBSET Events : Moves(es, "delivered")
    BY <1>5 DEF Read, At
  <2> QED
    BY <1>1, <1>5, <2>1 DEF Read, Places
<1>6. ASSUME NEW f \in Events, Acknowledge(f) \/ Skip(f) PROVE P1 /\ P2 /\ P3 /\ P4 /\ P5
  <2>1. Moves({f}, "acked") \/ Moves({f}, "skipped")
    BY <1>6 DEF Acknowledge, Skip
  <2>2. {f} \in SUBSET Events
    OBVIOUS
  <2> QED
    BY <1>1, <1>6, <2>1, <2>2 DEF Acknowledge, Skip, Places
<1>7. CASE ConsumerDies
  <2>1. \E es \in SUBSET Events : Moves(es, "pending")
    BY <1>7 DEF ConsumerDies, At
  <2> QED
    BY <1>1, <1>7, <2>1 DEF ConsumerDies, Places
<1> QED
  BY <1>2, <1>3, <1>4, <1>5, <1>6, <1>7 DEF Consume

LEMMA StreamKeeps ==
  ASSUME MeterInv, Tick \/ (\E e \in Events : Emit(e)) \/ Consume \/ ConsumerDies
  PROVE  MeterInv'
<1> USE DEF MeterInv
<1>0. TypeOK'
  BY StreamTypes
<1>1. /\ UNCHANGED <<rollupVars, failures, jobVars, run>>
      /\ \A e \in Events : entry'[e] = "none" => entry[e] = "none" /\ (e \in rows' => e \in rows)
      /\ \A e \in Events : ts'[e] = ts[e] \/ (entry[e] = "none" /\ e \notin rows')
      /\ \A e \in rows' \ late' : e \in rows \ late \/ ~WindowPassed(e)
      /\ clock <= clock' /\ (run.pc # "idle" => clock' <= run.end + Retention)
  BY StreamSteps
<1>2. JobInv'
  BY <1>1 DEF JobInv
<1>3. WindowInv'
  BY <1>1, <1>0 DEF WindowInv, TypeOK
<1>4. \A e \in Events : Counted(e)' <=> Counted(e)
  BY <1>1 DEF Counted
<1>5. \A e \in Events : entry[e] = "none" => e \notin rows /\ e \notin run.snap /\ rolled[e] = 0
  BY DEF SnapInv
<1>6. SnapInv'
  <2>1. \A e \in Events : entry'[e] = "none" => e \notin rows' \cup run'.snap /\ rolled'[e] = 0
    BY <1>1, <1>5
  <2>2. ASSUME run'.pc = "count", NEW e \in run'.snap PROVE InWindow(e)'
    <3>1. InWindow(e) /\ e \in Events /\ run' = run
      BY <1>1, <2>2 DEF SnapInv, TypeOK
    <3> QED
      BY <1>1, <1>5, <2>2, <3>1 DEF InWindow
  <2>3. ASSUME run'.pc = "count", NEW e \in rows' \ late', InWindow(e)' PROVE e \in run'.snap
    <3>1. e \in Events /\ run' = run /\ ts'[e] = ts[e]
      BY <1>0, <1>1, <2>3 DEF TypeOK
    <3>2. InWindow(e)
      BY <2>3, <3>1 DEF InWindow
    <3>3. WindowPassed(e)
      BY <2>3, <3>1, <3>2 DEF InWindow, WindowPassed
    <3> QED
      BY <1>1, <2>3, <3>1, <3>2, <3>3 DEF SnapInv
  <2>4. \A e \in Events : Counted(e)' => rolled'[e] >= 1
    BY <1>1, <1>4 DEF SnapInv
  <2> QED
    BY <2>1, <2>2, <2>3, <2>4 DEF SnapInv
<1>7. OnceInv'
  <2>0. UNCHANGED <<rolled, failures, mark, run>>
    BY <1>1
  <2>1. \A e \in Events : Once(e)' <=> Once(e)
    BY <1>4, <2>0 DEF Once
  <2>2. NeverTwice' <=> NeverTwice
    BY <2>0 DEF NeverTwice
  <2>3. ASSUME Table, NEW e \in Events, ts'[e] >= mark' PROVE Once(e)'
    <3>1. CASE ts'[e] = ts[e]
      BY <2>0, <2>1, <2>3, <3>1 DEF OnceInv
    <3>2. CASE ts'[e] # ts[e]
      <4>1. rolled[e] = 0
        BY <1>1, <1>5, <3>2
      <4> QED
        BY <2>1, <4>1 DEF Once, TypeOK
    <3> QED
      BY <3>1, <3>2
  <2> QED
    BY <2>0, <2>1, <2>2, <2>3 DEF OnceInv
<1>8. TailInv'
  <2>1. ASSUME NEW e \in Events, e \in rows', ts'[e] < mark', e \notin late', ts'[e] \notin gaps'
        PROVE  rolled'[e] >= 1
    <3>1. UNCHANGED <<rolled, mark, gaps>> /\ ts'[e] = ts[e]
      BY <1>1, <2>1
    <3>2. WindowPassed(e)
      BY <2>1, <3>1 DEF WindowPassed
    <3>3. e \in rows \ late
      BY <1>1, <2>1, <3>2
    <3> QED
      BY <2>1, <3>1, <3>3 DEF TailInv, NothingSkipped
  <2>2. ASSUME run'.pc = "mark", ~run'.blind, NEW e \in rows' \ late',
               ts'[e] < run'.end, ts'[e] \notin gaps'
        PROVE  rolled'[e] >= 1
    <3>1. e \in Events /\ UNCHANGED <<rolled, run, gaps>> /\ ts'[e] = ts[e]
      BY <1>0, <1>1, <2>2 DEF TypeOK
    <3>2. WindowPassed(e)
      BY <2>2, <3>1 DEF WindowPassed
    <3>3. e \in rows \ late
      BY <1>1, <2>2, <3>2
    <3> QED
      BY <2>2, <3>1, <3>3 DEF TailInv
  <2> QED
    BY <2>1, <2>2 DEF TailInv, NothingSkipped
<1>9. UsageIsExact'
  BY <1>1 DEF UsageIsExact
<1> QED
  BY <1>0, <1>2, <1>3, <1>6, <1>7, <1>8, <1>9
-----------------------------------------------------------------------------
(* The rollup keeps it *)

\* A step that counts nothing leaves what was counted as it was.
LEMMA CountsStay ==
  ASSUME UsageIsExact, UNCHANGED <<rollups, rolled>>
  PROVE  UsageIsExact'
BY DEF UsageIsExact

\* An attempt that has gone leaves what it added, its failure, and nothing else.
LEMMA AttemptGoes ==
  ASSUME MeterInv, TypeOK', run'.pc \in {"idle", "trim", "done"}, run'.snap \subseteq run.snap,
         UNCHANGED <<clock, streamVars, late, rollups, mark, rolled, gaps>>, rows' \subseteq rows,
         run'.pc # "idle" => run.pc # "idle" /\ run'.end = run.end /\ run'.blind = run.blind,
         failures' = IF run.pc = "count" THEN failures + 1 ELSE failures
  PROVE  WindowInv' /\ SnapInv' /\ OnceInv' /\ TailInv' /\ UsageIsExact'
<1> USE DEF MeterInv
<1>1. WindowInv'
  BY DEF WindowInv
<1>2. \A e \in Events : ~Counted(e)'
  BY DEF Counted
<1>3. SnapInv'
  BY <1>2 DEF SnapInv
<1>4. OnceInv'
  <2>0. ASSUME NEW e \in Events
        PROVE  /\ rolled[e] \in Nat /\ failures \in Nat
               /\ rolled'[e] = rolled[e] /\ ts'[e] = ts[e] /\ mark' = mark
    BY DEF TypeOK
  <2>1. ASSUME Table, NEW e \in Events PROVE rolled'[e] <= failures' + 1
    <3>1. rolled[e] <= failures + 1
      BY <2>1 DEF OnceInv, NeverTwice
    <3> QED
      BY <2>0, <3>1
  <2>2. ASSUME Table, NEW e \in Events, ts'[e] >= mark' PROVE rolled'[e] <= failures'
    <3>1. rolled[e] <= failures + (IF Counted(e) THEN 1 ELSE 0)
      BY <2>0, <2>2 DEF OnceInv, Once
    <3>2. Counted(e) => run.pc = "count"
      BY DEF Counted
    <3> QED
      BY <2>0, <3>1, <3>2
  <2>3. run'.pc \notin {"aggregate", "count"}
    OBVIOUS
  <2> QED
    BY <1>2, <2>1, <2>2, <2>3 DEF OnceInv, Once, NeverTwice
<1>5. TailInv'
  BY DEF TailInv, NothingSkipped, TypeOK
<1>6. UsageIsExact'
  BY CountsStay
<1> QED
  BY <1>1, <1>3, <1>4, <1>5, <1>6

LEMMA StartKeeps ==
  ASSUME MeterInv, TypeOK', NEW j \in Jobs, Start(j)
  PROVE  MeterInv'
<1> USE DEF MeterInv
<1>0. /\ run.pc = "idle" /\ job[j] = "due"
      /\ UNCHANGED <<clock, streamVars, rows, late, rollupVars, attempts, recorded>>
  BY DEF Start
<1>1. CASE UNCHANGED <<run, failures>> /\ job' = [job EXCEPT ![j] = "completed"]
  <2>1. JobInv'
    BY <1>0, <1>1 DEF JobInv, TypeOK
  <2>2. WindowInv' /\ SnapInv' /\ OnceInv' /\ TailInv' /\ UsageIsExact'
    <3>1. \A e \in Events : ~Counted(e) /\ ~Counted(e)'
      BY <1>0, <1>1 DEF Counted
    <3> QED
      BY <1>0, <1>1, <3>1, CountsStay
         DEF WindowInv, SnapInv, OnceInv, Once, NeverTwice, TailInv, NothingSkipped
  <2> QED
    BY <2>1, <2>2
<1>2. ASSUME NEW found \in BOOLEAN, found => Marked, Opened(j, found),
             failures' = failures \/ failures' = failures + 1,
             ~found /\ Marked => failures' = failures + 1,
             job' = [job EXCEPT ![j] = "active"]
      PROVE  MeterInv'
  <2>1. /\ run'.pc = "aggregate" /\ run'.job = j /\ run'.end = clock /\ run'.blind = ~found
        /\ run'.since = (IF found THEN mark ELSE clock - Window) /\ run'.snap = {}
    BY <1>2 DEF Opened, Idle
  <2>2. JobInv'
    BY <1>0, <1>2, <2>1 DEF JobInv, TypeOK
  <2>3. WindowInv'
    BY <1>0, <1>2, <2>1 DEF WindowInv, Marked, TypeOK
  <2>4. \A e \in Events : ~Counted(e) /\ ~Counted(e)'
    BY <1>0, <2>1 DEF Counted
  <2>5. SnapInv' /\ TailInv' /\ UsageIsExact'
    BY <1>0, <2>1, <2>4, CountsStay DEF SnapInv, TailInv, NothingSkipped
  <2>6. OnceInv'
    <3>0. ASSUME NEW e \in Events
          PROVE  rolled[e] \in Nat /\ failures \in Nat /\ rolled' = rolled /\ ts' = ts /\ mark' = mark
      BY <1>0 DEF TypeOK
    <3>1. ASSUME Table, NEW e \in Events PROVE rolled[e] <= failures + 1
      BY <3>1 DEF OnceInv, NeverTwice
    <3>2. ASSUME Table, NEW e \in Events, ts[e] >= mark PROVE rolled[e] <= failures
      <4>1. Once(e)
        BY <3>2 DEF OnceInv
      <4> QED
        BY <2>4, <3>0, <4>1 DEF Once
    <3>3. NeverTwice'
      BY <1>2, <3>0, <3>1 DEF NeverTwice
    <3>4. ASSUME Table, NEW e \in Events, ts'[e] >= mark' PROVE Once(e)'
      BY <1>2, <2>4, <3>0, <3>2, <3>4 DEF Once
    <3>5. ASSUME Table, run'.blind, mark' >= 0, NEW e \in Events PROVE Once(e)'
      <4>1. failures' = failures + 1
        BY <1>2, <2>1, <3>0, <3>5 DEF Marked
      <4> QED
        BY <2>4, <3>0, <3>1, <3>5, <4>1 DEF Once
    <3> QED
      BY <3>3, <3>4, <3>5 DEF OnceInv
  <2> QED
    BY <2>2, <2>3, <2>5, <2>6
<1>3. Marked \in BOOLEAN
  BY DEF Marked
<1> QED
  BY <1>1, <1>2, <1>3 DEF Start

LEMMA AggregateKeeps ==
  ASSUME MeterInv, TypeOK', Aggregate
  PROVE  MeterInv'
<1> USE DEF MeterInv
<1> DEFINE snap == {e \in rows : InWindow(e)}
           todo == {OrgOf[e] : e \in snap}
<1>1. /\ run.pc = "aggregate" /\ run' = [run EXCEPT !.pc = "count", !.snap = snap, !.todo = todo]
      /\ UNCHANGED <<clock, faults, streamVars, rows, late, rollupVars, failures, jobVars>>
  BY DEF Aggregate
<1>2. /\ run'.pc = "count" /\ run'.snap = snap /\ run'.todo = todo
      /\ run'.job = run.job /\ run'.since = run.since /\ run'.end = run.end /\ run'.blind = run.blind
  BY <1>1 DEF TypeOK
<1>3. JobInv' /\ WindowInv'
  BY <1>1, <1>2 DEF JobInv, WindowInv
<1>4. \A e \in Events : InWindow(e)' <=> InWindow(e)
  BY <1>1, <1>2 DEF InWindow
<1>5. \A e \in Events : ~Counted(e) /\ ~Counted(e)'
  BY <1>1, <1>2 DEF Counted
<1>6. SnapInv'
  <2>1. \A e \in Events : entry'[e] = "none" => e \notin rows' \cup run'.snap /\ rolled'[e] = 0
    BY <1>1, <1>2 DEF SnapInv
  <2> QED
    BY <1>1, <1>2, <1>4, <1>5, <2>1 DEF SnapInv, TypeOK
<1>7. OnceInv' /\ TailInv' /\ UsageIsExact'
  BY <1>1, <1>2, <1>5, CountsStay DEF OnceInv, Once, NeverTwice, TailInv, NothingSkipped
<1> QED
  BY <1>3, <1>6, <1>7

\* Adding the events of S once more adds what they weigh.
LEMMA CountedOnce ==
  ASSUME NEW D \in SUBSET Events, NEW S \in SUBSET D, NEW weight \in [Events -> Nat],
         NEW a \in [D -> Nat], NEW c \in [D -> Nat], NEW part \in [S -> Nat],
         \A x \in S : part[x] = weight[x],
         \A x \in D : c[x] = a[x] + (IF x \in S THEN weight[x] ELSE 0)
  PROVE  Total(c) = Total(a) + Total(part)
<1> DEFINE b == [x \in D |-> IF x \in S THEN weight[x] ELSE 0]
<1>1. IsFiniteSet(D) /\ b \in [D -> Nat]
  BY FS_Subset
<1>2. Total(c) = Total(a) + Total(b)
  BY <1>1, TotalAdd
<1>3. Total(b) = Total(part)
  <2>1. (\A x \in D \ S : b[x] = 0) /\ \A x \in S : part[x] = b[x]
    OBVIOUS
  <2> HIDE DEF b
  <2> QED
    BY ONLY <1>1, <2>1, TotalWithin
<1> QED
  BY <1>2, <1>3

LEMMA CountExact ==
  ASSUME MeterInv, TypeOK', NEW o \in Orgs, Count(o)
  PROVE  UsageIsExact'
<1> USE DEF MeterInv
<1>1. \A e \in Events : rolled'[e] =
        IF e \in run.snap /\ OrgOf[e] = o THEN rolled[e] + 1 ELSE rolled[e]
  BY DEF Count
<1>2. /\ rollups'[o].requests = rollups[o].requests + Cardinality(Of(o, "request", run.snap))
      /\ rollups'[o].egress = rollups[o].egress + TotalBytes(Of(o, "egress", run.snap))
      /\ \A p \in Orgs \ {o} : rollups'[p] = rollups[p]
  BY DEF Count, TypeOK
<1>3. ASSUME NEW p \in Orgs \ {o}, NEW kind, NEW e \in Of(p, kind, Events) PROVE rolled'[e] = rolled[e]
  BY <1>1, <1>3 DEF Of
<1>4. ASSUME NEW p \in Orgs \ {o}
      PROVE  /\ rollups'[p].requests = Total([e \in Of(p, "request", Events) |-> rolled'[e]])
             /\ rollups'[p].egress = Total([e \in Of(p, "egress", Events) |-> rolled'[e] * BytesOf[e]])
  <2>1. [e \in Of(p, "request", Events) |-> rolled'[e]] = [e \in Of(p, "request", Events) |-> rolled[e]]
    BY <1>3
  <2>2. [e \in Of(p, "egress", Events) |-> rolled'[e] * BytesOf[e]]
          = [e \in Of(p, "egress", Events) |-> rolled[e] * BytesOf[e]]
    BY <1>3
  <2> QED
    BY <1>2, <2>1, <2>2 DEF UsageIsExact
<1>5. rollups'[o].requests = Total([e \in Of(o, "request", Events) |-> rolled'[e]])
  <2> DEFINE D == Of(o, "request", Events)
             S == Of(o, "request", run.snap)
             weight == [e \in Events |-> 1]
             part == [x \in S |-> 1]
             a == [e \in D |-> rolled[e]]
             c == [e \in D |-> rolled'[e]]
  <2>1. D \in SUBSET Events /\ S \in SUBSET D /\ weight \in [Events -> Nat]
    BY DEF Of, TypeOK
  <2>2. a \in [D -> Nat] /\ c \in [D -> Nat]
    BY <2>1 DEF TypeOK
  <2>3. \A x \in D : c[x] = a[x] + (IF x \in S THEN weight[x] ELSE 0)
    BY <1>1 DEF Of, TypeOK
  <2>4. Total(part) = Cardinality(S)
    <3>1. IsFiniteSet(S)
      BY OfFinite DEF TypeOK
    <3> QED
      BY <3>1, TotalOnes
  <2>5. rollups[o].requests = Total(a)
    BY DEF UsageIsExact
  <2>6. rollups'[o].requests = rollups[o].requests + Cardinality(S)
    BY <1>2
  <2>7. part \in [S -> Nat] /\ \A x \in S : part[x] = weight[x]
    BY <2>1
  <2> HIDE DEF D, S, weight, a, c, part
  <2>8. Total(c) = Total(a) + Total(part)
    BY ONLY <2>1, <2>2, <2>3, <2>7, CountedOnce
  <2> QED
    BY <2>4, <2>5, <2>6, <2>8 DEF c, D
<1>6. rollups'[o].egress = Total([e \in Of(o, "egress", Events) |-> rolled'[e] * BytesOf[e]])
  <2> DEFINE D == Of(o, "egress", Events)
             S == Of(o, "egress", run.snap)
             a == [e \in D |-> rolled[e] * BytesOf[e]]
             c == [e \in D |-> rolled'[e] * BytesOf[e]]
             part == [x \in S |-> BytesOf[x]]
  <2>1. D \in SUBSET Events /\ S \in SUBSET D /\ BytesOf \in [Events -> Nat]
    BY DEF Of, TypeOK
  <2>2. \A e \in D : rolled[e] * BytesOf[e] \in Nat /\ rolled'[e] * BytesOf[e] \in Nat
    <3>1. \A m, n \in Nat : m * n \in Nat
      OBVIOUS
    <3> QED
      BY <2>1, <3>1 DEF TypeOK
  <2>3. \A x \in D : c[x] = a[x] + (IF x \in S THEN BytesOf[x] ELSE 0)
    <3> SUFFICES ASSUME NEW x \in D
                 PROVE  rolled'[x] * BytesOf[x]
                          = rolled[x] * BytesOf[x] + (IF x \in S THEN BytesOf[x] ELSE 0)
      OBVIOUS
    <3>1. rolled'[x] = IF x \in S THEN rolled[x] + 1 ELSE rolled[x]
      BY <1>1 DEF Of
    <3>2. rolled[x] \in Nat /\ BytesOf[x] \in Nat
      BY <2>1 DEF TypeOK
    <3>3. \A m, n \in Nat : (m + 1) * n = m * n + n
      OBVIOUS
    <3>4. \A m, n \in Nat : m * n + 0 = m * n
      OBVIOUS
    <3> QED
      BY <3>1, <3>2, <3>3, <3>4
  <2>4. a \in [D -> Nat] /\ c \in [D -> Nat]
    BY <2>2
  <2>5. rollups[o].egress = Total(a)
    BY DEF UsageIsExact
  <2>6. rollups'[o].egress = rollups[o].egress + Total(part)
    BY <1>2 DEF TotalBytes
  <2>7. part \in [S -> Nat] /\ \A x \in S : part[x] = BytesOf[x]
    BY <2>1
  <2> HIDE DEF D, S, a, c, part
  <2>8. Total(c) = Total(a) + Total(part)
    BY ONLY <2>1, <2>3, <2>4, <2>7, CountedOnce
  <2> QED
    BY <2>5, <2>6, <2>8 DEF c, D
<1> QED
  BY <1>4, <1>5, <1>6 DEF UsageIsExact

LEMMA CountKeeps ==
  ASSUME MeterInv, TypeOK', NEW o \in Orgs, Count(o)
  PROVE  MeterInv'
<1> USE DEF MeterInv
<1>1. /\ run.pc = "count" /\ o \in run.todo
      /\ UNCHANGED <<clock, faults, streamVars, rows, late, mark, gaps, failures, jobVars>>
  BY DEF Count
<1>2. /\ run'.pc = "count" /\ run'.snap = run.snap /\ run'.todo = run.todo \ {o}
      /\ run'.job = run.job /\ run'.since = run.since /\ run'.end = run.end /\ run'.blind = run.blind
  BY DEF Count, TypeOK
<1>3. \A e \in Events :
        rolled'[e] = IF e \in run.snap /\ OrgOf[e] = o THEN rolled[e] + 1 ELSE rolled[e]
  BY DEF Count
<1>4. (\A e \in Events : rolled[e] \in Nat /\ ts[e] \in Nat) /\ failures \in Nat /\ mark \in Int
  BY DEF TypeOK
<1>5. JobInv' /\ WindowInv'
  BY <1>1, <1>2 DEF JobInv, WindowInv
<1>6. \A e \in Events : Counted(e)' <=> Counted(e) \/ (e \in run.snap /\ OrgOf[e] = o)
  BY <1>1, <1>2 DEF Counted
<1>7. \A e \in Events : e \in run.snap /\ OrgOf[e] = o => ~Counted(e)
  BY <1>1 DEF Counted
<1>8. SnapInv'
  <2>1. \A e \in Events : InWindow(e)' <=> InWindow(e)
    BY <1>1, <1>2 DEF InWindow
  <2>2. \A e \in Events : entry'[e] = "none" => e \notin rows' \cup run'.snap /\ rolled'[e] = 0
    BY <1>1, <1>2, <1>3 DEF SnapInv
  <2>3. \A e \in Events : Counted(e)' => rolled'[e] >= 1
    BY <1>3, <1>4, <1>6 DEF SnapInv
  <2> QED
    BY <1>1, <1>2, <2>1, <2>2, <2>3 DEF SnapInv, TypeOK
<1>9. OnceInv'
  <2>1. ASSUME Table, NEW e \in Events, e \in run.snap, OrgOf[e] = o PROVE rolled[e] <= failures
    <3>1. Once(e)
      <4>1. CASE run.blind /\ mark >= 0
        BY <1>1, <2>1, <4>1 DEF OnceInv
      <4>2. CASE run.blind /\ ~(mark >= 0)
        <5>1. ts[e] >= mark
          BY <1>4, <4>2
        <5> QED
          BY <2>1, <5>1 DEF OnceInv
      <4>3. CASE ~run.blind
        <5>1. ts[e] >= mark
          BY <1>1, <2>1, <4>3 DEF SnapInv, WindowInv, InWindow
        <5> QED
          BY <2>1, <5>1 DEF OnceInv
      <4> QED
        BY <4>1, <4>2, <4>3
    <3> QED
      BY <1>4, <1>7, <2>1, <3>1 DEF Once
  <2>2. ASSUME Table, NEW e \in Events PROVE rolled'[e] <= failures + 1
    <3>1. rolled[e] <= failures + 1
      BY <2>2 DEF OnceInv, NeverTwice
    <3> QED
      BY <1>3, <1>4, <2>1, <2>2, <3>1
  <2>3. ASSUME Table, NEW e \in Events, Once(e) PROVE Once(e)'
    <3>1. CASE e \in run.snap /\ OrgOf[e] = o
      BY <1>1, <1>3, <1>4, <1>6, <2>1, <2>3, <3>1 DEF Once
    <3>2. CASE ~(e \in run.snap /\ OrgOf[e] = o)
      BY <1>1, <1>3, <1>4, <1>6, <2>3, <3>2 DEF Once
    <3> QED
      BY <3>1, <3>2
  <2> QED
    BY <1>1, <1>2, <2>2, <2>3 DEF OnceInv, NeverTwice
<1>10. TailInv'
  BY <1>1, <1>2, <1>3, <1>4 DEF TailInv, NothingSkipped
<1> QED
  BY <1>5, <1>8, <1>9, <1>10, CountExact

LEMMA MarkKeeps ==
  ASSUME MeterInv, TypeOK', Mark
  PROVE  MeterInv'
<1> USE DEF MeterInv
<1>1. /\ run.pc = "count" /\ run.todo = {}
      /\ UNCHANGED <<clock, streamVars, rows, late, rollups, rolled, jobVars>>
      /\ Table \in BOOLEAN /\ failures \in Nat /\ failures' \in Nat
  BY DEF Mark, TypeOK
<1>2. /\ run'.pc = "mark" /\ run'.snap = run.snap
      /\ run'.job = run.job /\ run'.since = run.since /\ run'.end = run.end /\ run'.blind = run.blind
  BY DEF Mark, TypeOK
<1>3. JobInv'
  BY <1>1, <1>2 DEF JobInv
<1>4. \A e \in Events : ~Counted(e)'
  BY <1>2 DEF Counted
<1>5. SnapInv'
  BY <1>1, <1>2, <1>4 DEF SnapInv
<1>6. UsageIsExact'
  BY <1>1, CountsStay
<1>7. \A e \in Events : ts[e] \in Nat /\ rolled[e] \in Nat
  BY DEF TypeOK
<1>8. mark \in Int /\ run.since \in Int /\ run.end \in Nat /\ clock \in Nat
  BY DEF TypeOK
\* A row before the end of the window that neither this attempt nor an earlier
\* one has counted is before its start, and after the watermark.
<1>9. ASSUME NEW e \in rows \ late, ts[e] < run.end, rolled[e] = 0,
             ts[e] < mark => ts[e] \in gaps
      PROVE  ts[e] < run.since /\ (ts[e] >= mark \/ ts[e] \in gaps)
  <2>1. e \in Events
    BY DEF TypeOK
  <2>2. ~InWindow(e)
    <3> SUFFICES ASSUME InWindow(e) PROVE FALSE
      OBVIOUS
    <3>1. e \in run.snap
      BY <1>1 DEF SnapInv
    <3>2. Counted(e)
      BY <1>1, <3>1 DEF Counted
    <3> QED
      BY <1>9, <2>1, <3>2 DEF SnapInv
  <2> QED
    BY <1>7, <1>8, <1>9, <2>1, <2>2 DEF InWindow
<1>10. \A e \in rows \ late : rolled[e] = 0 /\ ts[e] < mark => ts[e] \in gaps
  BY <1>7 DEF TailInv, NothingSkipped, TypeOK
<1>11. CASE /\ mark' = run.end /\ UNCHANGED failures
            /\ gaps' = gaps \cup ((IF mark < 0 THEN 0 ELSE mark) .. run.since - 1)
  <2>1. WindowInv'
    BY <1>1, <1>2, <1>8, <1>11 DEF WindowInv
  <2>2. OnceInv'
    <3>1. NeverTwice'
      BY <1>1, <1>11 DEF OnceInv, NeverTwice
    <3>2. ASSUME Table, NEW e \in Events, ts[e] >= run.end PROVE rolled[e] <= failures
      <4>1. ts[e] >= mark
        BY <1>1, <1>7, <1>8, <3>2 DEF WindowInv
      <4>2. ~Counted(e)
        BY <1>1, <1>7, <1>8, <3>2 DEF Counted, SnapInv, InWindow
      <4> QED
        BY <1>1, <1>7, <3>2, <4>1, <4>2 DEF OnceInv, Once
    <3> QED
      BY <1>1, <1>2, <1>4, <1>7, <1>11, <3>1, <3>2 DEF OnceInv, Once
  <2>3. ASSUME NEW e \in rows \ late, ts[e] < run.end, ts[e] \notin gaps' PROVE rolled[e] >= 1
    <3>1. e \in Events
      BY DEF TypeOK
    <3>2. CASE rolled[e] = 0
      <4>1. ts[e] < run.since /\ ts[e] >= mark
        BY <1>9, <1>10, <1>11, <2>3, <3>2
      <4>2. ts[e] \in (IF mark < 0 THEN 0 ELSE mark) .. run.since - 1
        BY <1>7, <1>8, <3>1, <4>1
      <4> QED
        BY <1>11, <2>3, <4>2
    <3> QED
      BY <1>7, <3>1, <3>2
  <2>4. TailInv'
    BY <1>1, <1>2, <1>11, <2>3 DEF TailInv, NothingSkipped
  <2> QED
    BY <1>3, <1>5, <1>6, <2>1, <2>2, <2>4
<1>12. CASE UNCHANGED <<mark, gaps>> /\ (Table => failures' = failures + 1)
  <2>1. WindowInv'
    BY <1>1, <1>2, <1>12 DEF WindowInv
  <2>2. ASSUME Table, NEW e \in Events PROVE rolled'[e] <= failures'
    <3>1. rolled[e] <= failures + 1
      BY <2>2 DEF OnceInv, NeverTwice
    <3> QED
      BY <1>1, <1>7, <1>12, <2>2, <3>1
  <2>3. OnceInv'
    BY <1>1, <1>2, <1>4, <1>7, <2>2 DEF OnceInv, Once, NeverTwice
  <2>5. ASSUME ~run.blind, NEW e \in rows \ late, ts[e] < run.end, ts[e] \notin gaps
        PROVE  rolled[e] >= 1
    <3>1. e \in Events /\ run.since = mark
      BY <1>1, <2>5 DEF WindowInv, TypeOK
    <3>2. rolled[e] # 0
      BY <1>7, <1>8, <1>9, <1>10, <2>5, <3>1
    <3> QED
      BY <1>7, <3>1, <3>2
  <2>6. TailInv'
    BY <1>1, <1>2, <1>12, <2>5 DEF TailInv, NothingSkipped
  <2> QED
    BY <1>3, <1>5, <1>6, <2>1, <2>3, <2>6
<1> QED
  BY <1>11, <1>12 DEF Mark

\* The end of an attempt, by whatever way.
LEMMA EndKeeps ==
  ASSUME MeterInv, TypeOK', Trim \/ Finish \/ Throws \/ Dies
  PROVE  MeterInv'
<1> USE DEF MeterInv
<1>1. JobInv'
  <2>1. CASE Trim
    BY <2>1 DEF Trim, JobInv, TypeOK
  <2>2. CASE Finish
    BY <2>2 DEF Finish, JobInv, Idle, TypeOK
  <2>3. CASE Throws
    <3>1. run'.pc = "idle" /\ run.job \in Jobs
      BY <2>3 DEF Throws, Idle, JobInv
    <3>2. ASSUME NEW j \in Jobs, job'[j] \in {"due", "active"} PROVE attempts'[j] < MaxAttempts
      <4>1. CASE j = run.job
        <5>1. attempts'[j] = attempts[j] + 1
              /\ job'[j] = IF attempts[j] + 1 < MaxAttempts THEN "due" ELSE "failed"
          BY <2>3, <3>1, <4>1 DEF Throws, TypeOK
        <5> QED
          BY <3>2, <5>1
      <4>2. CASE j # run.job
        BY <2>3, <3>1, <3>2, <4>2 DEF Throws, JobInv, TypeOK
      <4> QED
        BY <4>1, <4>2
    <3> QED
      BY <3>1, <3>2 DEF JobInv
  <2>4. CASE Dies
    BY <2>4 DEF Dies, Idle, JobInv, TypeOK
  <2> QED
    BY <2>1, <2>2, <2>3, <2>4
<1>2. /\ UNCHANGED <<clock, streamVars, late, rollups, mark, rolled, gaps>>
      /\ rows' \subseteq rows
  BY DEF Trim, Finish, Throws, Dies
<1>3. /\ run'.pc \in {"idle", "trim", "done"} /\ run'.snap \subseteq run.snap
      /\ run'.pc # "idle" => run.pc # "idle" /\ run'.end = run.end /\ run'.blind = run.blind
  BY DEF Trim, Finish, Throws, Dies, Idle, TypeOK
<1>4. failures' = IF run.pc = "count" THEN failures + 1 ELSE failures
  BY DEF Trim, Finish, Throws, Dies, Lost
<1> QED
  BY <1>1, <1>2, <1>3, <1>4, AttemptGoes

LEMMA InitMeter == Init => MeterInv
<1> SUFFICES ASSUME Init PROVE MeterInv
  OBVIOUS
<1>1. TypeOK
  BY InitTypeOK
<1>2. JobInv /\ WindowInv /\ SnapInv
  BY DEF Init, JobInv, WindowInv, SnapInv, Counted, Idle
<1>3. OnceInv /\ TailInv
  BY DEF Init, OnceInv, Once, NeverTwice, Counted, TailInv, NothingSkipped, Idle
<1>4. UsageIsExact
  <2> SUFFICES ASSUME NEW o \in Orgs, NEW kind \in {"request", "egress"}
               PROVE  /\ Total([e \in Of(o, kind, Events) |-> rolled[e]]) = 0
                      /\ Total([e \in Of(o, kind, Events) |-> rolled[e] * BytesOf[e]]) = 0
    BY DEF Init, UsageIsExact
  <2>1. \A e \in Of(o, kind, Events) : rolled[e] = 0 /\ BytesOf[e] \in Nat
    BY DEF Init, Of
  <2>2. \A n \in Nat : 0 * n = 0
    OBVIOUS
  <2> DEFINE D == Of(o, kind, Events)
             f == [e \in D |-> rolled[e]]
             g == [e \in D |-> rolled[e] * BytesOf[e]]
  <2>3. DOMAIN f = D /\ DOMAIN g = D /\ \A e \in D : f[e] = 0 /\ g[e] = 0
    BY <2>1, <2>2
  <2> HIDE DEF f, g, D
  <2>4. Total(f) = 0 /\ Total(g) = 0
    BY <2>3, TotalZero
  <2> QED
    BY <2>4 DEF f, g, D
<1> QED
  BY <1>1, <1>2, <1>3, <1>4 DEF MeterInv

LEMMA MeterStep == MeterInv /\ [Next]_vars => MeterInv'
<1> SUFFICES ASSUME MeterInv, [Next]_vars PROVE MeterInv'
  OBVIOUS
<1>1. CASE Tick \/ (\E e \in Events : Emit(e)) \/ Consume \/ ConsumerDies
  BY <1>1, StreamKeeps
<1>2. CASE Rollup \/ Throws \/ Dies
  <2>1. TypeOK'
    BY <1>2, RollupTypes DEF MeterInv
  <2> QED
    BY <1>2, <2>1, StartKeeps, AggregateKeeps, CountKeeps, MarkKeeps, EndKeeps DEF Rollup
<1>3. CASE UNCHANGED vars
  <2>1. TypeOK' /\ JobInv' /\ WindowInv'
    BY <1>3 DEF vars, MeterInv, TypeOK, JobInv, WindowInv
  <2>2. \A e \in Events : (Counted(e)' <=> Counted(e)) /\ (InWindow(e)' <=> InWindow(e))
    BY <1>3 DEF vars, Counted, InWindow
  <2>3. SnapInv'
    BY <1>3, <2>2 DEF vars, MeterInv, TypeOK, SnapInv
  <2>4. OnceInv'
    BY <1>3, <2>2 DEF vars, MeterInv, OnceInv, Once, NeverTwice
  <2>5. TailInv'
    BY <1>3 DEF vars, MeterInv, TailInv, NothingSkipped
  <2>6. UsageIsExact'
    BY <1>3, CountsStay DEF vars, MeterInv
  <2> QED
    BY <2>1, <2>3, <2>4, <2>5, <2>6 DEF MeterInv
<1> QED
  BY <1>1, <1>2, <1>3 DEF Next

\* For any events, orgs, batches, windows and faults: an event is in the rollups
\* at most once more than attempts failed between a row and the watermark, or to
\* read it; the watermark passes no event that was inserted in time without a
\* run that counted it; and the usage of an org is by kind what was counted.
THEOREM RecountsHaveFailures == Spec => []UsageIsCounted
<1>1. MeterInv => UsageIsCounted
  BY DEF MeterInv, OnceInv, NeverTwice, TailInv, UsageIsCounted
<1> QED
  BY InitMeter, MeterStep, <1>1, PTL DEF Spec

\* A raw row is trimmed only when it is in the rollups, or was late, or lies
\* where a run without a watermark jumped, or is trimmed by such a run: rows are
\* kept for longer than an attempt takes.
THEOREM OnlyCountedRowsAreTrimmed == Spec => TrimSparesUncounted
<1> DEFINE Spares == \A e \in rows \ rows' :
                       rolled[e] >= 1 \/ e \in late \/ ts[e] \in gaps \/ run.blind
<1>1. MeterInv /\ [Next]_vars => [Spares]_vars
  <2> SUFFICES ASSUME MeterInv, Next, NEW e \in rows \ rows'
               PROVE  rolled[e] >= 1 \/ e \in late \/ ts[e] \in gaps \/ run.blind
    OBVIOUS
  <2>1. Trim
    BY DEF Next, Tick, Emit, Consume, Read, Insert, Acknowledge, Skip, ConsumerDies, Rollup,
       Start, Aggregate, Count, Mark, Finish, Throws, Dies
  <2>2. run.pc = "mark" /\ ts[e] < clock - Retention
    BY <2>1 DEF Trim, MeterInv, TypeOK
  <2>3. ts[e] < run.end
    BY <2>2 DEF MeterInv, WindowInv, TypeOK
  <2> QED
    BY <2>2, <2>3 DEF MeterInv, TailInv
<1>2. Spec => [][Spares]_vars
  BY InitMeter, MeterStep, <1>1, PTL DEF Spec
<1> QED
  BY <1>2 DEF TrimSparesUncounted
=============================================================================
