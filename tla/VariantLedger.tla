--------------------------- MODULE VariantLedger ---------------------------
(***************************************************************************)
(* Variant generation: the jobs of the media-variant queue, which charge   *)
(* an organisation for every derivative they record, and DELETE /media/:id,*)
(* which drops the derivatives of an object.                               *)
(*                                                                         *)
(* processVariantJob renders the source, records the derivative and        *)
(* reserves its bytes in one transaction, uploads the bytes, and, when the *)
(* upload of the last attempt fails, takes the record back.  BullMQ runs   *)
(* an attempt again after a failure, and after its worker died.            *)
(*                                                                         *)
(* A job is keyed by its set item, its output by object and aspect ratio:  *)
(* items of two sets may write one derivative at the same time.  A delete  *)
(* is one transaction per object here; ObjectLedger has the races of       *)
(* several.                                                                *)
(***************************************************************************)
EXTENDS SizeTotals

CONSTANTS
  Objects,      \* the objects that variants are made of
  Variants,     \* the variant keys, org/object/variant/ratio
  ObjectOf,     \* the object of a variant key
  Jobs,         \* the jobs, one per set item
  TargetOf,     \* the variant key a job writes
  Deletable,    \* bound: the objects somebody deletes
  ObjectBytes,  \* the size of every object
  MaxSize,      \* bound: the largest rendition
  MaxAttempts,  \* attempts of a job
  MaxStalls,    \* maxStalledCount of the queue
  Rollups,      \* the runs of the usage rollup: one at a time
  AutoModes, InitialAllocated, Increment, MaxAllocated,  \* as in ObjectLedger
  DriftScale    \* 1 / DRIFT_THRESHOLD

Sizes == 1 .. MaxSize
NoBytes == 0

ASSUME VariantAssumption ==
  /\ IsFiniteSet(Objects) /\ IsFiniteSet(Variants)
  /\ ObjectOf \in [Variants -> Objects]
  /\ TargetOf \in [Jobs -> Variants]
  /\ Deletable \subseteq Objects
  /\ ObjectBytes \in Nat /\ MaxSize \in Nat
  /\ MaxAttempts \in Nat \ {0} /\ MaxStalls \in Nat
ASSUME AllocationAssumption ==
  /\ AutoModes \subseteq BOOLEAN
  /\ InitialAllocated \in Nat /\ Increment \in Nat /\ MaxAllocated \in Nat
  /\ DriftScale \in Nat \ {0}

VARIABLES
  used, allocated, auto,  \* the capacity row
  deltaSum,   \* the sum of the org's stored_delta usage events
  live,       \* the objects not soft-deleted
  derived,    \* bytes of the derivatives row of each variant, NoBytes if none
  stored,     \* bytes in the derived bucket, NoBytes if none
  job,        \* the variant jobs
  removal,    \* the DELETE /media/:id of each deletable object
  rollup      \* the reconcile passes

capacityVars == <<used, allocated, auto, deltaSum>>
vars == <<used, allocated, auto, deltaSum, live, derived, stored, job, removal, rollup>>

-----------------------------------------------------------------------------
(* Sums *)

\* SUM(o.size) of the live objects, and SUM(dv.bytes) of all billable rows.
ObjectCharge == [o \in Objects |-> IF o \in live THEN ObjectBytes ELSE 0]
ObjectTotal == Total(ObjectCharge)
DerivedTotal == Total(derived)

\* actual_bytes: the derivatives of deleted objects do not count.
ActualBytes ==
  ObjectTotal + Total([v \in Variants |-> IF ObjectOf[v] \in live THEN derived[v] ELSE 0])

Released(n) == IF used > n THEN used - n ELSE 0

-----------------------------------------------------------------------------
(* Jobs *)

\* An attempt that is not under way keeps only the counters of the job.
Idle(pc, made, stalls) ==
  [pc |-> pc, made |-> made, stalls |-> stalls,
   size |-> 0, prior |-> 0, holds |-> FALSE, retried |-> FALSE]

At(j, pc) == [job EXCEPT ![j].pc = pc]

\* Mutant: off by one, the attempt under way is not counted.
FinalUncounted(j) == job[j].made > MaxAttempts

\* isFinalAttempt
Final(j) == job[j].made + 1 >= MaxAttempts

\* Mutant: the transaction of a failed attempt stays open.
FailedInTransaction(j) ==
  [job EXCEPT ![j].pc = IF Final(j) THEN "failed" ELSE "queued", ![j].made = @ + 1]

\* The attempt throws: the queue runs the job again or gives it up.
Failed(j) ==
  [job EXCEPT ![j] = Idle(IF Final(j) THEN "failed" ELSE "queued", @.made + 1, @.stalls)]

\* SELECT ... FOR UPDATE holds the derivatives row to the end of its transaction.
LockedByOther(v, j) == \E h \in Jobs \ {j} : job[h].holds /\ TargetOf[h] = v
Locked(v) == \E h \in Jobs : job[h].holds /\ TargetOf[h] = v

Init ==
  /\ auto \in AutoModes
  /\ live = Objects
  /\ used = ObjectTotal /\ deltaSum = ObjectTotal
  /\ allocated = InitialAllocated
  /\ derived = [v \in Variants |-> NoBytes]
  /\ stored = [v \in Variants |-> NoBytes]
  /\ job = [j \in Jobs |-> Idle("queued", 0, 0)]
  /\ removal = [o \in Deletable |-> [pc |-> "start", keys |-> {}]]
  /\ rollup = [r \in Rollups |-> [pc |-> "idle", used |-> 0, actual |-> 0]]

\* GET the source and render it; either may fail.
Render(j) ==
  /\ job[j].pc = "queued"
  /\ \/ \E n \in Sizes : job' = [job EXCEPT ![j] = [@ EXCEPT !.pc = "rendered", !.size = n]]
     \/ job' = Failed(j)
  /\ UNCHANGED <<capacityVars, live, derived, stored, removal, rollup>>

\* Mutant: the row is read without FOR UPDATE.
RecordReadUnlocked(j) ==
  /\ job[j].pc = "rendered"
  /\ job' = [job EXCEPT ![j] = [@ EXCEPT !.pc = "read", !.prior = derived[TargetOf[j]]]]
  /\ UNCHANGED <<capacityVars, live, derived, stored, removal, rollup>>

\* recordVariant: BEGIN; SELECT bytes FROM derivatives ... FOR UPDATE.
RecordRead(j) ==
  LET v == TargetOf[j] IN
  /\ job[j].pc = "rendered"
  /\ ~Locked(v)
  /\ job' = [job EXCEPT ![j] =
       [@ EXCEPT !.pc = "read", !.prior = derived[v], !.holds = derived[v] # NoBytes]]
  /\ UNCHANGED <<capacityVars, live, derived, stored, removal, rollup>>

\* Mutant: the reservation ignores what the row it overwrites had reserved.
DeltaBytesFull(j) == job[j].size

DeltaBytes(j) == job[j].size - job[j].prior

\* reserveCapacity: ... WHERE used_bytes + delta <= allocated_bytes.
Fits(n) == used + n <= allocated

\* Reserve or release the difference, upsert the row, emit stored_delta, COMMIT.
\* The upsert waits for whoever holds the row.
RecordCommit(j) ==
  LET d == DeltaBytes(j) IN
  /\ job[j].pc = "read"
  /\ d > 0 => Fits(d)
  /\ ~LockedByOther(TargetOf[j], j)
  /\ used' = IF d >= 0 THEN used + d ELSE Released(-d)
  /\ deltaSum' = deltaSum + d
  /\ derived' = [derived EXCEPT ![TargetOf[j]] = job[j].size]
  /\ job' = [job EXCEPT ![j] = [@ EXCEPT !.pc = "recorded", !.prior = 0, !.holds = FALSE]]
  /\ UNCHANGED <<allocated, auto, live, stored, removal, rollup>>

\* InsufficientStorage: ROLLBACK; the first refusal tries an automatic add.
RecordRefused(j) ==
  /\ job[j].pc = "read"
  /\ DeltaBytes(j) > 0 /\ ~Fits(DeltaBytes(j))
  /\ job' = IF job[j].retried THEN Failed(j)
            ELSE [job EXCEPT ![j] = [@ EXCEPT !.pc = "full", !.prior = 0, !.holds = FALSE]]
  /\ UNCHANGED <<capacityVars, live, derived, stored, removal, rollup>>

\* The transaction is lost: a deadlock between the locks of the derivatives
\* and the capacity row, a purged object, a lost connection.
RecordAbort(j) ==
  /\ job[j].pc = "read"
  /\ job' = Failed(j)
  /\ UNCHANGED <<capacityVars, live, derived, stored, removal, rollup>>

\* autoAddCapacity, then recordVariant once more; or the attempt throws.
TopUp(j) ==
  /\ job[j].pc = "full"
  /\ \/ /\ auto /\ allocated + Increment <= MaxAllocated
        /\ allocated' = allocated + Increment
        /\ job' = [job EXCEPT ![j] = [@ EXCEPT !.pc = "rendered", !.retried = TRUE]]
     \/ UNCHANGED allocated /\ job' = Failed(j)
  /\ UNCHANGED <<used, auto, deltaSum, live, derived, stored, removal, rollup>>

\* What an upload that does not return may have left behind.
Landed(j) == {stored, [stored EXCEPT ![TargetOf[j]] = job[j].size]}

\* Mutant: the upload of the last attempt is reported as a success.
UploadUnchecked(j) ==
  /\ job[j].pc = "recorded"
  /\ stored' \in Landed(j)
  /\ job' = [job EXCEPT ![j] = Idle("done", @.made, @.stalls)]
  /\ UNCHANGED <<capacityVars, live, derived, removal, rollup>>

Upload(j) ==
  /\ job[j].pc = "recorded"
  /\ stored' = [stored EXCEPT ![TargetOf[j]] = job[j].size]
  /\ job' = [job EXCEPT ![j] = Idle("done", @.made, @.stalls)]
  /\ UNCHANGED <<capacityVars, live, derived, removal, rollup>>

\* The upload throws, though its bytes may have landed.
UploadFails(j) ==
  /\ job[j].pc = "recorded"
  /\ stored' \in Landed(j)
  /\ job' = IF Final(j) THEN At(j, "compensate") ELSE Failed(j)
  /\ UNCHANGED <<capacityVars, live, derived, removal, rollup>>

\* DELETE FROM derivatives ... RETURNING bytes; release them; COMMIT.
Compensate(j) ==
  LET v == TargetOf[j] IN
  /\ job[j].pc = "compensate"
  /\ ~Locked(v)
  /\ used' = Released(derived[v])
  /\ deltaSum' = deltaSum - derived[v]
  /\ derived' = [derived EXCEPT ![v] = NoBytes]
  /\ job' = At(j, "sweep")
  /\ UNCHANGED <<allocated, auto, live, stored, removal, rollup>>

\* The compensation itself fails: logged, the attempt throws.
CompensateFails(j) ==
  /\ job[j].pc = "compensate"
  /\ job' = Failed(j)
  /\ UNCHANGED <<capacityVars, live, derived, stored, removal, rollup>>

\* Best-effort removal of what the upload left behind.
Sweep(j) ==
  /\ job[j].pc = "sweep"
  /\ stored' \in {stored, [stored EXCEPT ![TargetOf[j]] = NoBytes]}
  /\ job' = Failed(j)
  /\ UNCHANGED <<capacityVars, live, derived, removal, rollup>>

\* The worker dies: its transaction is rolled back, its upload may have landed,
\* and the queue hands a stalled job out again until it has stalled too often.
Stall(j) ==
  /\ job[j].pc \in {"rendered", "read", "full", "recorded", "compensate", "sweep"}
  /\ job' = [job EXCEPT ![j] = IF @.stalls < MaxStalls
                               THEN Idle("queued", @.made, @.stalls + 1)
                               ELSE Idle("failed", @.made, @.stalls)]
  /\ IF job[j].pc = "recorded" THEN stored' \in Landed(j) ELSE UNCHANGED stored
  /\ UNCHANGED <<capacityVars, live, derived, removal, rollup>>

Attempt(j) ==
  \/ Render(j) \/ RecordRead(j) \/ RecordCommit(j) \/ RecordRefused(j) \/ RecordAbort(j)
  \/ TopUp(j) \/ Upload(j) \/ UploadFails(j)
  \/ Compensate(j) \/ CompensateFails(j) \/ Sweep(j)

-----------------------------------------------------------------------------
(* DELETE /media/:id *)

VariantsOf(o) == {v \in Variants : ObjectOf[v] = o}

\* SELECT minio_key FROM derivatives, before the transaction.
RemovalList(o) ==
  /\ removal[o].pc = "start"
  /\ removal' = [removal EXCEPT ![o] =
       [pc |-> "listed", keys |-> {v \in VariantsOf(o) : derived[v] # NoBytes}]]
  /\ UNCHANGED <<capacityVars, live, derived, stored, job, rollup>>

\* Mutant: the usage event of a deleted object is forgotten.
RemovalCommitNoEvent(o) ==
  /\ removal[o].pc = "listed"
  /\ \A v \in VariantsOf(o) : ~Locked(v)
  /\ live' = live \ {o}
  /\ derived' = [v \in Variants |-> IF ObjectOf[v] = o THEN NoBytes ELSE derived[v]]
  /\ used' = Released(ObjectBytes)
  /\ removal' = [removal EXCEPT ![o].pc = "bytes"]
  /\ UNCHANGED <<allocated, auto, deltaSum, stored, job, rollup>>

\* Soft-delete the object and drop its derivatives; the object's own bytes are
\* released, those of the derivatives are not.
RemovalCommit(o) ==
  /\ removal[o].pc = "listed"
  /\ \A v \in VariantsOf(o) : ~Locked(v)
  /\ live' = live \ {o}
  /\ derived' = [v \in Variants |-> IF ObjectOf[v] = o THEN NoBytes ELSE derived[v]]
  /\ used' = Released(ObjectBytes)
  /\ deltaSum' = deltaSum - ObjectBytes
  /\ removal' = [removal EXCEPT ![o].pc = "bytes"]
  /\ UNCHANGED <<allocated, auto, stored, job, rollup>>

\* Best-effort removal of the derivatives listed before the transaction.
RemovalBytes(o) ==
  /\ removal[o].pc = "bytes"
  /\ \/ stored' = [v \in Variants |-> IF v \in removal[o].keys THEN NoBytes ELSE stored[v]]
     \/ UNCHANGED stored
  /\ removal' = [removal EXCEPT ![o] = [pc |-> "done", keys |-> {}]]
  /\ UNCHANGED <<capacityVars, live, derived, job, rollup>>

Removal(o) == RemovalList(o) \/ RemovalCommit(o) \/ RemovalBytes(o)

-----------------------------------------------------------------------------
(* The capacity reconcile of the usage rollup *)

Drifted(u, a) ==
  IF u = 0 THEN a > 0
  ELSE DriftScale * (IF a > u THEN a - u ELSE u - a) > u

RollupSnapshot(r) ==
  /\ rollup[r].pc = "idle"
  /\ rollup' = [rollup EXCEPT ![r] = [pc |-> "snapshot", used |-> used, actual |-> ActualBytes]]
  /\ UNCHANGED <<capacityVars, live, derived, stored, job, removal>>

\* Mutant: the repair only ever raises the counter.
RollupRepairUpward(r) ==
  /\ rollup[r].pc = "snapshot"
  /\ used' = IF rollup[r].actual > rollup[r].used THEN rollup[r].actual ELSE used
  /\ rollup' = [rollup EXCEPT ![r] = [pc |-> "idle", used |-> 0, actual |-> 0]]
  /\ UNCHANGED <<allocated, auto, deltaSum, live, derived, stored, job, removal>>

\* The CHECK of the row refuses a repair above a hard quota.
RollupRepair(r) ==
  /\ rollup[r].pc = "snapshot"
  /\ used' = IF Drifted(rollup[r].used, rollup[r].actual)
                /\ (auto \/ rollup[r].actual <= allocated)
             THEN rollup[r].actual ELSE used
  /\ rollup' = [rollup EXCEPT ![r] = [pc |-> "idle", used |-> 0, actual |-> 0]]
  /\ UNCHANGED <<allocated, auto, deltaSum, live, derived, stored, job, removal>>

-----------------------------------------------------------------------------
Next ==
  \/ \E j \in Jobs : Attempt(j) \/ Stall(j)
  \/ \E o \in Deletable : Removal(o)
  \/ \E r \in Rollups : RollupSnapshot(r) \/ RollupRepair(r)

Spec == Init /\ [][Next]_vars

\* A worker runs the jobs it is handed, a started delete ends, and the rollup
\* is a repeatable job; nobody has to delete, and no worker has to die.
Fairness ==
  /\ \A j \in Jobs : WF_vars(Attempt(j))
  /\ \A o \in Deletable : WF_vars(removal[o].pc # "start" /\ Removal(o))
  /\ \A r \in Rollups : WF_vars(RollupSnapshot(r)) /\ WF_vars(RollupRepair(r))

FairSpec == Spec /\ Fairness

-----------------------------------------------------------------------------
(* Properties *)

Running == {"queued", "rendered", "read", "full", "recorded", "compensate", "sweep"}
Ended == {"done", "failed"}

\* A job that has used its attempts up has ended.
JobRecord(pcs, most) ==
  [pc : pcs, made : 0 .. most, stalls : 0 .. MaxStalls,
   size : 0 .. MaxSize, prior : 0 .. MaxSize, holds : BOOLEAN, retried : BOOLEAN]
JobState == JobRecord(Running, MaxAttempts - 1) \cup JobRecord(Ended, MaxAttempts)

TypeOK ==
  /\ used \in Nat /\ allocated \in Nat /\ auto \in BOOLEAN /\ deltaSum \in Int
  /\ live \in SUBSET Objects
  /\ derived \in [Variants -> 0 .. MaxSize]
  /\ stored \in [Variants -> 0 .. MaxSize]
  /\ job \in [Jobs -> JobState]
  /\ removal \in [Deletable -> [pc : {"start", "listed", "bytes", "done"},
                                keys : SUBSET Variants]]
  /\ rollup \in [Rollups -> [pc : {"idle", "snapshot"}, used : Nat, actual : Nat]]

\* What live objects and derivatives hold.
Recorded == ObjectTotal + DerivedTotal

\* The reservation covers what is recorded, and with it an allocation that
\* used_bytes respects is one the recorded bytes respect.
NeverUndercounted == Recorded <= used

\* A rollup writes the capacity row from its snapshot.
Repairs == \E r \in Rollups : rollup[r].pc = "snapshot" /\ rollup'[r].pc = "idle"

\* Whatever jobs write one key, are retried, die or compensate each other, and
\* whatever is deleted meanwhile: none of their steps leaves a counter that
\* covered the recorded bytes below them. Only the rollup can, whose snapshot a
\* recording may overtake, and which leaves out what a deleted object's late
\* jobs recorded.
OnlyRepairsUndercount == [][NeverUndercounted => NeverUndercounted' \/ Repairs]_vars

\* Billing sees every change jobs and deletes make to the counter: the
\* stored_delta events sum to used_bytes, so no handler is clamped at zero or
\* forgets its event. The repair of the rollup has no event, and a counter it
\* left too low is one a release may be clamped at.
EventsFollowCounter == deltaSum = used

\* Why jobs keep the counter above the rows: a job that found a row locked it,
\* so the row still holds the bytes the job subtracts; a job that found none
\* subtracts nothing; and an object is released once.
LockInv ==
  /\ \A j \in Jobs : job[j].holds => job[j].pc = "read"
  /\ \A j \in Jobs : job[j].pc = "read" =>
       job[j].prior = IF job[j].holds THEN derived[TargetOf[j]] ELSE 0
  /\ \A j, h \in Jobs : job[j].holds /\ job[h].holds /\ TargetOf[j] = TargetOf[h] => j = h
  /\ \A o \in Deletable : removal[o].pc \in {"start", "listed"} => o \in live

CoverInv == LockInv /\ NeverUndercounted /\ EventsFollowCounter

\* No two jobs have written one key, and nothing has been deleted.
Started(j) == job[j] # Idle("queued", 0, 0)
Undisturbed ==
  /\ live = Objects
  /\ \A j, h \in Jobs : Started(j) /\ Started(h) /\ TargetOf[j] = TargetOf[h] => j = h

LedgerExact == used = ObjectTotal + DerivedTotal

\* "The derivative row is the ledger": until two jobs of one key meet or an
\* object is deleted, retries, crashes and compensations leave used_bytes exact.
ExactUntilDisturbed == Undisturbed => LedgerExact

\* Why: nobody else writes the row a job is recording.
ExactInv ==
  /\ CoverInv
  /\ \A j \in Jobs : job[j].pc = "read" => job[j].prior = derived[TargetOf[j]]
  /\ LedgerExact

\* Until then a job that is done has left its bytes, of the size its row is
\* charged for.
DoneIsStored ==
  Undisturbed =>
    \A j \in Jobs : job[j].pc = "done" =>
      derived[TargetOf[j]] # NoBytes /\ stored[TargetOf[j]] = derived[TargetOf[j]]

\* Every job comes to an end, also when several wait for one row.
JobsSettle == \A j \in Jobs : <>(job[j].pc \in {"done", "failed"})

\* Once the jobs are over the rollup brings the counter back within the drift
\* threshold of the recorded bytes, for good - unless an org without
\* auto-capacity holds more than it is allocated, which a counter that is too
\* low lets it do: the row's CHECK then refuses the repaired value.
DriftRepaired ==
  \/ []<>(~auto /\ ActualBytes > allocated)
  \/ <>[](/\ DriftScale * (used - ActualBytes) <= used
          /\ DriftScale * (ActualBytes - used) <= used)
=============================================================================
