--------------------------- MODULE ObjectLedger ---------------------------
(***************************************************************************)
(* The byte ledger of one organisation: its `capacity` row, its `objects`  *)
(* rows, the storage behind them, and every handler that changes them:     *)
(*   - POST /presign/confirm (the only writer of live rows),               *)
(*   - DELETE /media/:id of the API and delete_object of the MCP server,   *)
(*   - purge of the MCP server,                                            *)
(*   - the usage rollup's capacity reconcile,                              *)
(*   - the auto-capacity adds and the auto-capacity toggle.                *)
(*                                                                         *)
(* A handler is a one-shot request with a program counter; a step of it is *)
(* a maximal piece no other transaction can be seen to interleave with:    *)
(* a statement outside a transaction, or, in a transaction, the reads      *)
(* before its first row lock, and then its writes up to the commit         *)
(* (PostgreSQL, READ COMMITTED).  The org advisory lock is `lock`.         *)
(*                                                                         *)
(* The id of an `objects` row is the request that inserted it.             *)
(***************************************************************************)
EXTENDS SizeTotals

CONSTANTS
  Keys,         \* object keys of the bucket
  MaxSize,      \* bound: the largest object a client uploads
  Confirms,     \* POST /presign/confirm requests
  ApiDeletes,   \* DELETE /media/:id requests
  McpDeletes,   \* delete_object tool calls
  Purges,       \* purge tool calls
  MaxPurge,     \* MAX_KEYS_PER_PURGE
  AutoModes,    \* the values auto_enabled takes: {TRUE}, {FALSE} or BOOLEAN
  InitialAllocated, Increment, MaxAllocated,  \* allocated_bytes; the last a bound
  DriftScale,   \* 1 / DRIFT_THRESHOLD
  NoKey, NoRequest

Deletes == ApiDeletes \cup McpDeletes
Sizes == 0 .. MaxSize
NoBytes == -1

ASSUME SizesAssumption == MaxSize \in Nat
ASSUME RequestsAssumption ==
  /\ IsFiniteSet(Confirms)
  /\ NoRequest \notin Confirms
  /\ NoKey \notin Keys
ASSUME CapacityAssumption ==
  /\ InitialAllocated \in Nat
  /\ Increment \in Nat
  /\ MaxAllocated \in Nat
  /\ DriftScale \in Nat \ {0}
  /\ MaxPurge \in Nat
  /\ AutoModes \subseteq BOOLEAN

VARIABLES
  used, allocated, auto,  \* the capacity row
  deltaSum,   \* the sum of the org's stored_delta usage events
  rows,       \* the objects rows
  stored,     \* the bytes each key holds in storage, NoBytes if none
  lock,       \* the holder of pg_advisory_xact_lock for the org
  confirm,    \* the confirm requests
  delete,     \* the delete requests
  purge,      \* the purge calls
  rollup      \* the reconcile pass of the usage rollup

capacityVars == <<used, allocated, auto, deltaSum>>
vars == <<used, allocated, auto, deltaSum, rows, stored, lock,
          confirm, delete, purge, rollup>>

-----------------------------------------------------------------------------
(* Rows and sums *)

Row == [st : {"none", "live", "deleted", "purged"}, key : Keys \cup {NoKey}, size : Sizes]

IsLive(i) == rows[i].st = "live"

\* The live rows of a key: at most one, by the partial unique index.
LiveRows(k) == {i \in Confirms : IsLive(i) /\ rows[i].key = k}

\* What the ledger should charge for row i.
Charge == [i \in Confirms |-> IF IsLive(i) THEN rows[i].size ELSE 0]

\* SELECT SUM(o.size) ... WHERE o.deleted_at IS NULL
LiveBytes == Total(Charge)

\* SELECT size ... AND deleted_at IS NULL, 0 when there is no row.
AnyOf(S) == CHOOSE i \in S : TRUE
LiveSize(k) == IF LiveRows(k) = {} THEN 0 ELSE rows[AnyOf(LiveRows(k))].size

\* Mutant: migration 008 not applied, only the sign of the columns checked.
CapacityCheckNoQuota(u, a, e) == u >= 0 /\ a >= 0

\* The CHECK constraints of the capacity table.
CapacityCheck(u, a, e) == u >= 0 /\ a >= 0 /\ (e \/ u <= a)

\* isOverQuota: would n more bytes push used past allocated?
OverQuota(n) == used + n > allocated

\* A request that has answered keeps no local state.
ConfirmAt(pc) == [pc |-> pc, key |-> NoKey, size |-> 0, prior |-> 0]
DeleteAt(pc) == [pc |-> pc, row |-> NoRequest, src |-> FALSE, size |-> 0]

-----------------------------------------------------------------------------
Init ==
  /\ used = 0 /\ allocated = InitialAllocated /\ auto \in AutoModes /\ deltaSum = 0
  /\ rows = [i \in Confirms |-> [st |-> "none", key |-> NoKey, size |-> 0]]
  /\ stored = [k \in Keys |-> NoBytes]
  /\ lock = NoRequest
  /\ confirm = [c \in Confirms |-> ConfirmAt("start")]
  /\ delete = [d \in Deletes |-> DeleteAt("start")]
  /\ purge = [p \in Purges |-> [pc |-> "start", keys |-> {}]]
  /\ rollup = [pc |-> "idle", used |-> 0, actual |-> 0]

-----------------------------------------------------------------------------
(* Storage, written by clients through presigned URLs. *)

ClientPut(k, n) ==
  /\ stored' = [stored EXCEPT ![k] = n]
  /\ UNCHANGED <<capacityVars, rows, lock, confirm, delete, purge, rollup>>

\* autoAddCapacity, as its callers here see it: under the org lock it adds
\* one increment when auto-capacity is on, or declines.
AutoAdd ==
  /\ auto /\ lock = NoRequest
  /\ allocated + Increment <= MaxAllocated
  /\ allocated' = allocated + Increment

\* enforceOptimisticQuota, on presign/upload and presign/multipart: an upload
\* whose declared size does not fit tries an automatic add.
PresignUpload(n) ==
  /\ n > 0 /\ OverQuota(n)
  /\ AutoAdd
  /\ UNCHANGED <<used, auto, deltaSum, rows, stored, lock, confirm, delete, purge, rollup>>

\* Every other writer of allocated_bytes (add-ons, plan changes, cancellation):
\* any value the CHECK of the row admits.
ChangeAllocation(a) ==
  /\ CapacityCheck(used, a, auto)
  /\ allocated' = a
  /\ UNCHANGED <<used, auto, deltaSum, rows, stored, lock, confirm, delete, purge, rollup>>

\* PUT /billing/capacity/auto.
SetAuto(e) ==
  /\ e # auto
  /\ CapacityCheck(used, allocated, e)
  /\ auto' = e
  /\ UNCHANGED <<used, allocated, deltaSum, rows, stored, lock, confirm, delete, purge, rollup>>

-----------------------------------------------------------------------------
(* POST /presign/confirm *)

\* Mutant: the failure of HEAD is not turned into a 409.
ConfirmHeadUnchecked(c, k) ==
  /\ confirm[c].pc = "start"
  /\ confirm' = [confirm EXCEPT ![c] = [pc |-> "headed", key |-> k, size |-> stored[k], prior |-> 0]]
  /\ UNCHANGED <<capacityVars, rows, stored, lock, delete, purge, rollup>>

\* HEAD the uploaded object, outside any lock or transaction.
ConfirmHead(c, k) ==
  /\ confirm[c].pc = "start"
  /\ confirm' = [confirm EXCEPT ![c] =
       IF stored[k] = NoBytes THEN ConfirmAt("failed")
       ELSE [pc |-> "headed", key |-> k, size |-> stored[k], prior |-> 0]]
  /\ UNCHANGED <<capacityVars, rows, stored, lock, delete, purge, rollup>>

\* Mutant: acquireOrgLock is not awaited.
ConfirmLockSkipped(c) ==
  /\ confirm[c].pc = "headed"
  /\ lock' = c
  /\ confirm' = [confirm EXCEPT ![c].pc = "locked", ![c].prior = LiveSize(confirm[c].key)]
  /\ UNCHANGED <<capacityVars, rows, stored, delete, purge, rollup>>

\* BEGIN; acquireOrgLock; read the live row of the key.
ConfirmLock(c) ==
  /\ confirm[c].pc = "headed"
  /\ lock = NoRequest
  /\ lock' = c
  /\ confirm' = [confirm EXCEPT ![c].pc = "locked", ![c].prior = LiveSize(confirm[c].key)]
  /\ UNCHANGED <<capacityVars, rows, stored, delete, purge, rollup>>

\* INSERT ... ON CONFLICT (bucket_id, key) WHERE deleted_at IS NULL DO UPDATE
Upserted(c) ==
  LET k == confirm[c].key IN
  IF LiveRows(k) = {}
  THEN [rows EXCEPT ![c] = [st |-> "live", key |-> k, size |-> confirm[c].size]]
  ELSE [i \in Confirms |-> IF i \in LiveRows(k)
                           THEN [rows[i] EXCEPT !.size = confirm[c].size] ELSE rows[i]]

\* Mutant: an overwrite is charged in full.
DeltaFull(c) == confirm[c].size

Delta(c) == confirm[c].size - confirm[c].prior

\* Upsert the row, reconcileCapacity by the delta, emit stored_delta, COMMIT.
ConfirmCommit(c) ==
  /\ confirm[c].pc = "locked"
  /\ CapacityCheck(used + Delta(c), allocated, auto)
  /\ rows' = Upserted(c)
  /\ used' = used + Delta(c)
  /\ deltaSum' = deltaSum + Delta(c)
  /\ lock' = NoRequest
  /\ confirm' = [confirm EXCEPT ![c] = ConfirmAt(IF Delta(c) > 0 THEN "charged" ELSE "done")]
  /\ UNCHANGED <<allocated, auto, stored, delete, purge, rollup>>

\* Mutant: a session lock, not released by the rollback.
ConfirmAbortKeepsLock(c) ==
  /\ confirm[c].pc = "locked"
  /\ confirm' = [confirm EXCEPT ![c] = ConfirmAt("failed")]
  /\ UNCHANGED <<capacityVars, rows, stored, lock, delete, purge, rollup>>

\* The transaction rolls back: a CHECK of the capacity row refuses the new
\* used_bytes, or the connection or the process is lost.  The lock is a
\* transaction lock and goes with it.
ConfirmAbort(c) ==
  /\ confirm[c].pc = "locked"
  /\ lock' = NoRequest
  /\ confirm' = [confirm EXCEPT ![c] = ConfirmAt("failed")]
  /\ UNCHANGED <<capacityVars, rows, stored, delete, purge, rollup>>

\* The over-quota backstop after the commit; a failed add is swallowed.
ConfirmBackstop(c) ==
  /\ confirm[c].pc = "charged"
  /\ \/ OverQuota(0) /\ AutoAdd
     \/ UNCHANGED allocated
  /\ confirm' = [confirm EXCEPT ![c] = ConfirmAt("done")]
  /\ UNCHANGED <<used, auto, deltaSum, rows, stored, lock, delete, purge, rollup>>

Confirm(c) ==
  \/ \E k \in Keys : ConfirmHead(c, k)
  \/ ConfirmLock(c) \/ ConfirmCommit(c) \/ ConfirmAbort(c) \/ ConfirmBackstop(c)

-----------------------------------------------------------------------------
(* DELETE /media/:id, and delete_object of the MCP server *)

\* The request names a row; the API first reads where its bytes are.
DeleteStart(d, i) ==
  /\ delete[d].pc = "start"
  /\ rows[i].st # "none"
  /\ delete' = [delete EXCEPT ![d] = [pc |-> "found", row |-> i,
                  src |-> d \in ApiDeletes /\ IsLive(i), size |-> 0]]
  /\ UNCHANGED <<capacityVars, rows, stored, lock, confirm, purge, rollup>>

\* BEGIN; SELECT o.size ... AND o.deleted_at IS NULL, without FOR UPDATE.
DeleteRead(d) ==
  /\ delete[d].pc = "found"
  /\ LET i == delete[d].row IN
     delete' = [delete EXCEPT ![d] =
       IF IsLive(i) THEN [@ EXCEPT !.pc = "read", !.size = rows[i].size] ELSE DeleteAt("done")]
  /\ UNCHANGED <<capacityVars, rows, stored, lock, confirm, purge, rollup>>

\* UPDATE objects SET deleted_at WHERE id (whatever its state); release the
\* size that was read; emit the negative delta; COMMIT.
DeleteCommit(d) ==
  LET r == delete[d] IN
  /\ r.pc = "read"
  /\ rows' = [rows EXCEPT ![r.row].st = IF @ = "live" THEN "deleted" ELSE @]
  /\ used' = IF used > r.size THEN used - r.size ELSE 0
  /\ deltaSum' = deltaSum - r.size
  /\ delete' = [delete EXCEPT ![d] =
       IF r.src THEN [r EXCEPT !.pc = "bytes", !.size = 0] ELSE DeleteAt("done")]
  /\ UNCHANGED <<allocated, auto, stored, lock, confirm, purge, rollup>>

\* The transaction is lost before its commit.
DeleteAbort(d) ==
  /\ delete[d].pc = "read"
  /\ delete' = [delete EXCEPT ![d] = DeleteAt("done")]
  /\ UNCHANGED <<capacityVars, rows, stored, lock, confirm, purge, rollup>>

\* Best-effort removal of the source bytes, by key: it may fail.
DeleteBytes(d) ==
  /\ delete[d].pc = "bytes"
  /\ \/ stored' = [stored EXCEPT ![rows[delete[d].row].key] = NoBytes]
     \/ UNCHANGED stored
  /\ delete' = [delete EXCEPT ![d] = DeleteAt("done")]
  /\ UNCHANGED <<capacityVars, rows, lock, confirm, purge, rollup>>

Delete(d) ==
  \/ \E i \in Confirms : DeleteStart(d, i)
  \/ DeleteRead(d) \/ DeleteCommit(d) \/ DeleteAbort(d) \/ DeleteBytes(d)

-----------------------------------------------------------------------------
(* purge of the MCP server *)

Tombstones == {i \in Confirms : rows[i].st = "deleted"}

\* SELECT COUNT(*) of the tombstones, outside the transaction.
PurgeCount(p) ==
  /\ purge[p].pc = "start"
  /\ Cardinality(Tombstones) \in 1 .. MaxPurge
  /\ purge' = [purge EXCEPT ![p].pc = "counted"]
  /\ UNCHANGED <<capacityVars, rows, stored, lock, confirm, delete, rollup>>

\* DELETE FROM objects ... RETURNING key, in one transaction.
PurgeRows(p) ==
  /\ purge[p].pc = "counted"
  /\ rows' = [i \in Confirms |-> IF i \in Tombstones
                                 THEN [rows[i] EXCEPT !.st = "purged"] ELSE rows[i]]
  /\ purge' = [purge EXCEPT ![p] = [pc |-> "bytes", keys |-> {rows[i].key : i \in Tombstones}]]
  /\ UNCHANGED <<capacityVars, stored, lock, confirm, delete, rollup>>

\* DeleteObjects of the returned keys; an error is logged.
PurgeBytes(p) ==
  /\ purge[p].pc = "bytes"
  /\ \/ stored' = [k \in Keys |-> IF k \in purge[p].keys THEN NoBytes ELSE stored[k]]
     \/ UNCHANGED stored
  /\ purge' = [purge EXCEPT ![p] = [pc |-> "done", keys |-> {}]]
  /\ UNCHANGED <<capacityVars, rows, lock, confirm, delete, rollup>>

Purge(p) == PurgeCount(p) \/ PurgeRows(p) \/ PurgeBytes(p)

-----------------------------------------------------------------------------
(* The capacity reconcile of the usage rollup *)

\* |actual - used| / used > DRIFT_THRESHOLD, drift 1 when nothing is tracked.
Drifted(u, a) ==
  IF u = 0 THEN a > 0
  ELSE DriftScale * (IF a > u THEN a - u ELSE u - a) > u

\* One grouped query reads the tracked and the recomputed bytes.
RollupSnapshot ==
  /\ rollup.pc = "idle"
  /\ rollup' = [pc |-> "snapshot", used |-> used, actual |-> LiveBytes]
  /\ UNCHANGED <<capacityVars, rows, stored, lock, confirm, delete, purge>>

\* Mutant: the repair writes back the tracked bytes.
RollupRepairTracked ==
  /\ rollup.pc = "snapshot"
  /\ used' = rollup.used
  /\ rollup' = [pc |-> "idle", used |-> 0, actual |-> 0]
  /\ UNCHANGED <<allocated, auto, deltaSum, rows, stored, lock, confirm, delete, purge>>

\* UPDATE capacity SET used_bytes = actual, when the snapshot had drifted; the
\* CHECK of the row may refuse it, and then the job fails.
RollupRepair ==
  /\ rollup.pc = "snapshot"
  /\ used' = IF Drifted(rollup.used, rollup.actual) /\ CapacityCheck(rollup.actual, allocated, auto)
             THEN rollup.actual ELSE used
  /\ rollup' = [pc |-> "idle", used |-> 0, actual |-> 0]
  /\ UNCHANGED <<allocated, auto, deltaSum, rows, stored, lock, confirm, delete, purge>>

-----------------------------------------------------------------------------
Next ==
  \/ \E k \in Keys, n \in Sizes : ClientPut(k, n)
  \/ \E n \in Sizes : PresignUpload(n)
  \/ \E a \in 0 .. MaxAllocated : ChangeAllocation(a)
  \/ \E e \in AutoModes : SetAuto(e)
  \/ \E c \in Confirms : Confirm(c)
  \/ \E d \in Deletes : Delete(d)
  \/ \E p \in Purges : Purge(p)
  \/ RollupSnapshot
  \/ RollupRepair

Spec == Init /\ [][Next]_vars

\* A handler runs to its end once it has started (it commits, fails or dies),
\* and the rollup is a repeatable job.
Fairness ==
  /\ \A c \in Confirms : WF_vars(confirm[c].pc # "start" /\ Confirm(c))
  /\ \A d \in Deletes : WF_vars(delete[d].pc # "start" /\ Delete(d))
  /\ WF_vars(RollupSnapshot)
  /\ WF_vars(RollupRepair)

FairSpec == Spec /\ Fairness

-----------------------------------------------------------------------------
(* Properties *)

ConfirmState ==
  {ConfirmAt(pc) : pc \in {"start", "charged", "done", "failed"}}
    \cup [pc : {"headed", "locked"}, key : Keys, size : Sizes, prior : Sizes]
DeleteState ==
  {DeleteAt(pc) : pc \in {"start", "done"}}
    \cup [pc : {"found", "read", "bytes"}, row : Confirms, src : BOOLEAN, size : Sizes]
PurgeState == [pc : {"start", "counted", "bytes", "done"}, keys : SUBSET (Keys \cup {NoKey})]
RollupState == [pc : {"idle", "snapshot"}, used : Nat, actual : Nat]

\* Types; used_bytes in particular is never negative, although confirm
\* subtracts what it overwrites without a GREATEST(0, ...).
TypeOK ==
  /\ used \in Nat /\ allocated \in Nat /\ auto \in BOOLEAN /\ deltaSum \in Int
  /\ rows \in [Confirms -> Row]
  /\ stored \in [Keys -> Sizes \cup {NoBytes}]
  /\ lock \in Confirms \cup {NoRequest}
  /\ confirm \in [Confirms -> ConfirmState]
  /\ delete \in [Deletes -> DeleteState]
  /\ purge \in [Purges -> PurgeState]
  /\ rollup \in RollupState

\* presign.ts promises that concurrent confirms (and deletes) do not race
\* used_bytes: at every commit used_bytes is the sum of the live sizes, and so
\* is the sum of the stored_delta events billing is derived from.
LedgerExact == used = LiveBytes /\ deltaSum = LiveBytes

\* Why LedgerExact holds as long as nothing is deleted: a confirm writes while
\* it holds the org lock, and what it read under the lock is still the live
\* size of its key; a key has one live row; and the rollup has nothing to mend.
ConfirmInv ==
  /\ \A i \in Confirms : rows[i].st \in {"none", "live"}
  /\ \A i, j \in Confirms : IsLive(i) /\ IsLive(j) /\ rows[i].key = rows[j].key => i = j
  /\ \A c \in Confirms : confirm[c].pc \in {"start", "headed", "locked"} => ~IsLive(c)
  /\ \A c \in Confirms : confirm[c].pc = "locked" <=> lock = c
  /\ \A c \in Confirms : confirm[c].pc = "locked" =>
       confirm[c].prior = LiveSize(confirm[c].key)
  /\ \A p \in Purges : purge[p].pc = "start"
  /\ rollup.pc = "snapshot" => rollup.used = rollup.actual
  /\ LedgerExact

\* What the CHECKs of the capacity row keep true of the counter.
CounterChecked == CapacityCheck(used, allocated, auto)

\* The hard quota of an org without auto-capacity bounds what it really
\* stores, not only the counter: the live bytes fit the allocation.
HardQuota == ~auto => LiveBytes <= allocated

\* Whatever the races of confirms and deletes did to the counter, once the
\* requests are over the rollup brings used_bytes back within the drift
\* threshold of the live bytes, for good - unless the org, without
\* auto-capacity, stores more than it is allocated, which races that leave the
\* counter too low let it do: the row's CHECK then refuses the repaired value,
\* the job throws, and the drift stays for as long as that lasts.
DriftRepaired ==
  \/ []<>(~auto /\ LiveBytes > allocated)
  \/ <>[](DriftScale * (used - LiveBytes) <= used /\ DriftScale * (LiveBytes - used) <= used)

\* Every confirm that has seen its object ends: the org lock is never kept.
ConfirmsFinish ==
  \A c \in Confirms : confirm[c].pc # "start" ~> confirm[c].pc \in {"done", "failed"}

Meter == INSTANCE UsageMeter WITH
  usage <- [k \in Keys |-> LiveSize(k)], charged <- used

\* The confirm path implements the abstract meter: every commit changes the
\* recorded size of one key and the charge by the same amount.
MeterSpec == Meter!Spec
=============================================================================
