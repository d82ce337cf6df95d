# MediaLocker, specified in TLA+

This directory holds a TLA+ model of MediaLocker: the object storage service
whose API, MCP server, worker and billing library live under `apps/` and
`packages/`. The modules are checked by TLC on small instances, and the
invariants that matter most are proved with TLAPS for every value of the
constants. Every definition that models code is translated from the source;
`PROJECT.json` names its file and lines.

Contents: [the system](#1-the-system) · [components](#2-components) ·
[modules](#3-modules) · [runs](#4-runs) · [proofs](#5-proofs) ·
[divergences](#6-where-code-and-documentation-disagree) ·
[limits](#7-what-is-not-modelled) · [plan](#8-plan).

## 1. The system

Clients never send object bytes through the application. They ask the API for
a presigned URL, talk to S3-compatible storage, and then *confirm*. Everything
the application keeps is therefore a second opinion about a world it does not
control, and the code's hard part is keeping several such opinions equal:

| kept in | what | written by |
|---|---|---|
| `objects`, `derivatives` | the objects and variants that exist | confirm, deletes, purge, variant jobs |
| `capacity.used_bytes` | the bytes an org is charged against its quota | the same, and the usage rollup |
| `usage:events` → `usage_events` → `usage_rollups` | what billing is derived from | the same, the consumer, the rollup |
| storage (Hetzner / MinIO) | the bytes | clients, variant jobs, deletes, purge |
| `subscriptions`, `billing_addons`, `capacity.allocated_bytes` | what an org may store | add-ons, plan changes, webhooks, the nightly reconcile |
| Stripe | what an org pays | the same, the checkout, Stripe itself |

Three kinds of process write them. Request handlers of the API (`apps/api`)
and of the MCP server (`apps/mcp`) run concurrently in any number of
instances. BullMQ workers (`apps/worker`) run media jobs and the scheduled
jobs: the usage-event consumer (30 s), the usage rollup (15 min), the storage
reconcile (2 am), the billing reconcile (3 am), the secret rotation (4 am).
Stripe calls `POST /webhooks/stripe`, repeats what was not answered, and
neither orders nor de-duplicates.

They synchronise through PostgreSQL at READ COMMITTED (row locks, `ON CONFLICT`,
CHECKs, and `acquireOrgLock`, a transaction-scoped advisory lock per org that
some writers take and some do not), through BullMQ (job ids, attempts, stalled
jobs) and through nothing else. What is hard is the interleaving of statements
of different transactions, a Stripe or S3 call in the middle of one, a process
that dies between two of them, and a value read in one and used in a later one.

## 2. Components

`PROJECT.json` lists them with their sources and status. For each: the state,
what is hard, what makes it correct, and the modules that say so.

**Object storage ledger** (`routes/presign.ts`, `routes/media.ts`,
`mcp/tools/objects.ts`, `core/quota.ts`, `usage-rollup.ts`). The `capacity`
row, `objects` (soft-deleted, one live row per key by a partial unique index),
storage, the `stored_delta` events. *Hard*: overlapping confirms of a key; a
delete that reads before it writes; a repair from an old snapshot. *Correct
when* `used_bytes` is the sum of the live sizes, the hard quota bounds what is
stored, and the org lock is never kept. `SizeTotals`, `UsageMeter`,
`ObjectLedger`.

**Variant rendering** (`processors/variant.ts`, `queues.ts`). `derivatives`
rows, their bytes, the attempts of a job. *Hard*: jobs of two set items share a
derivative; an attempt fails after its commit; a compensation meets somebody
else's record. *Correct when* no job takes the reservation below what is recorded,
events follow the counter, a done job has left its bytes, every job ends.
`VariantLedger`.

**Entitlement and billing writes** (`capacity-addons.ts`, `plan-change.ts`,
`webhook.ts`, `billing-reconcile.ts`, `plans.ts`, `routes/usage.ts`,
`mcp/tools/usage.ts`). Plan, add-on rows, allocation, spend, cooldown; at
Stripe the base price, the add-on quantity, products and prices. *Hard*: Stripe
calls inside transactions; writers without the org lock that store absolute
values they computed earlier; NUMERIC columns that arrive as strings. *Correct
when* the allocation is plan plus add-ons, nothing is granted unbilled, the
spend cap holds, plans are sold at one price, no request waits for ever.
`Entitlement` (with Stripe), `SelfHosted` (without), `PriceSync`.

**Stripe webhook delivery** (`webhook.ts`, `subscriptions.ts`,
`routes/webhook.ts`). Claims, the subscription's status. *Hard*: overlapping
deliveries, a death after the claim, handlers whose statements commit one by
one. *Correct when* an event runs at most once to its end and Stripe takes
nothing for delivered that was not applied. `StripeWebhook`.

**Tenant provisioning** (`webhook.ts`, `tenancy.ts`). A person's subscriptions,
org, link, capacity, default bucket and key. *Hard*: two checkouts at once, each
one transaction with calls to Stripe and the storage inside. *Correct when* no
replaced subscription goes on taking money and the org has what it pays for.
`Provisioning`.

**Buckets** (`routes/buckets.ts`, `mcp/tools/buckets.ts`). Rows and storage
buckets. *Hard*: two doors that write the two in opposite order, a confirm
between count and drain. *Correct when* a live bucket keeps its storage and
shows nothing of an earlier one of its name. `Buckets`.

**Usage metering** (`usage-events-consumer.ts`, `usage-rollup.ts`,
`scheduler.ts`). Stream, consumer group, raw rows, rollups, watermark. *Hard*: a
fault between any two statements. *Correct when* an event is counted once;
where attempts fail it is not (section 6). `UsageMetering`.

**Media job pipeline** (`probe.ts`, `thumbnail.ts`, `poster.ts`, `sprite.ts`,
`queues.ts`). Queue, job ids, derivative rows and bytes. *Hard*: an overwrite or
a deletion under a job, ids the queue still knows. *Correct when* derivatives
follow their object. `MediaJobs`.

**Worker process** (`worker/src/index.ts`, `ffmpeg.ts`). Jobs, children,
signals. *Correct when* a job keeps its database and no ffmpeg is left.
`WorkerLifecycle`. **Storage drift report** (`reconcile.ts`,
`billing-reconcile.ts`): a report of a world that moves. `DriftReport`.
**Migrations** (`db/scripts/migrate.ts`): releases that deploy at once.
`Migrations`.

**Idempotency layers** and **authentication and API keys**
(`middleware/idempotency.ts`, `middleware/auth.ts`, `routes/auth.ts`,
`packages/auth`, `mcp/auth.ts`, `mcp/firewall.ts`, `mcp/server.ts`). Stored
responses, keys, signing keys, memberships. *Hard*: a retry after a rotation or
a revocation; a cached key set; memberships that change between the choice of
an org and the handler. `ApiRequests`, `SigningKeys`, `Identity`. **Secret
rotation** (`secret-rotation.ts`): promotion is two updates in no transaction.
`SecretRotation`.

**Catalogue** (`routes/sets.ts`, `storyboards.ts`, `tags.ts`, `search.ts` and
their MCP tools). Clip positions, tags, the search entry, set items. *Hard*: two
reorders at once, names resolved by two doors, retained job ids. `Storyboards`,
`Tagging`, `Sets`.

**Dashboard** (`apps/app`). What is cached, ticked, typed and shown while
requests overlap and answers come in any order. `Uploads`, `InfiniteList`,
`SearchScreen`, `QueryCache`, `AutoCapacity`, `LibraryScreen`, `PreviewLinks`,
`OneTimeSecrets`, `Session`.

The **MCP server shell** and the **media library code** (`packages/media`) are
modelled where they decide something; **configuration, mail, observability and
docs** are not.

## 3. Modules

    SizeTotals <─┬─ UsageMeter                     (abstract: one key's charge)
                 ├─ ObjectLedger ── refines UsageMeter
                 ├─ VariantLedger ─┬─ MCVariantLedger
                 ├─ UsageMetering ─┴─ MCUsageMetering
                 ├─ Entitlement ─┐
                 └─ SelfHosted ──┤
                    PriceSync ───┤
                StripeWebhook ───┴─ MCEntitlement
    Provisioning, Buckets, ApiRequests, SigningKeys, Identity, SecretRotation ── MCTenants
    MediaJobs, DriftReport, Migrations, WorkerLifecycle,
    Storyboards, Sets, Uploads, InfiniteList ── MCParts
    Tagging, Session, SearchScreen, InfiniteList, QueryCache, AutoCapacity,
    LibraryScreen, PreviewLinks, OneTimeSecrets ── MCScreens

Every `*Proofs` module extends the module its theorems are about:
`ObjectLedgerProofs`, `VariantLedgerProofs`, `EntitlementProofs` (which extends
`MCEntitlement`), `UsageMeteringProofs`, `TenantsProofs` (`MCTenants`),
`PartsProofs` (`MCParts`), `ScreensProofs` (`MCScreens`), and
`SizeTotalsProofs`, whose lemmas the ledgers cite.

**Composites.** `MCTenants`, `MCParts`, `MCScreens`, `MCEntitlement` and
`MCUsageMetering` instantiate several machines that share no state that is
modelled: the variable `part` (`half` in `MCUsageMetering`, whose second machine
is a `VariantLedger` with the rollup) says which of them runs, the others stay
where they start. A product of independent machines would show nothing that each
of them alone does not, and would be too large for TLC. `Parts` of
`MCEntitlement` and `Machines` of `MCParts` give those a run looks at.
`ApiRequests` is instantiated with a parameter, `Api(T)`, for two mixes `T` of
attempts. Components that do share state are in one module: confirms, deletes
and rollup in `ObjectLedger`; adds, plan changes, webhook and reconcile in
`Entitlement`; checkouts and bucket in `Provisioning`; upload, jobs and delete
in `MediaJobs`.

**Conventions.** A request, a job or a delivery is an element of a constant set
with its locals and its place. A step is what nothing else can be seen to
interleave with: a statement outside a transaction; inside one, the reads up to
the first row lock, and then the writes up to the commit. A crash or a failed
call is an action next to the success it replaces. No state constraint is used:
counters are bounded in guards. Data that no property tells apart (names, media,
pixels) is absent, sizes are small naturals. Variables marked *history* record
what happened for a property to speak of and are read by no guard of the code.

**ObjectLedger**, one org's byte ledger:

| action | code |
|---|---|
| `ClientPut` | a PUT to a presigned URL (external) |
| `PresignUpload` | `enforceOptimisticQuota` of presign/upload and multipart |
| `ConfirmHead`, `ConfirmLock`, `ConfirmCommit`, `ConfirmAbort`, `ConfirmBackstop` | `POST /presign/confirm`: HEAD; BEGIN, org lock and read; upsert, `reconcileCapacity`, event, COMMIT; rollback; the over-quota add after the commit |
| `DeleteStart`, `DeleteRead`, `DeleteCommit`, `DeleteAbort`, `DeleteBytes` | `DELETE /media/:id` and `delete_object` |
| `PurgeCount`, `PurgeRows`, `PurgeBytes` | `purge` |
| `RollupSnapshot`, `RollupRepair` | the reconcile pass of the usage rollup |
| `SetAuto`, `ChangeAllocation` | the other writers of the `capacity` row, as far as its CHECKs let them |

`SizeTotals.Total(f)` is the SUM of a query, defined as a cardinality (the set
of pairs of a row and a unit of it) and not by recursion, so that its laws can be
proved. `UsageMeter` is the abstract promise: one key's recorded size changes
and the charge moves by the difference.

**VariantLedger**: `Render`, `RecordRead` (the `SELECT ... FOR UPDATE`, whose row
lock is `holds`), `RecordCommit`, `RecordRefused`, `RecordAbort`, `TopUp`,
`Upload`, `UploadFails`, `Compensate`, `CompensateFails`, `Sweep` are an attempt;
`Stall` is BullMQ handing out the job of a dead worker; `Removal*` is the delete
of the object.

**Entitlement**: `AutoClaim`, `AddLock`, `AddList`, `AddStripe`,
`AddStripeFails`, `AddCommit`, `AddAbort` are `addCapacity`, by hand or from
`autoAddCapacity`; `Change*` is `changePlan`; `ConfirmPlan`, `ConfirmSum`,
`ConfirmWrite` are `confirmAddOn`; `Renew`; `ReconcileRead`, `ReconcileWrite`;
`Traffic`. **SelfHosted** has `POST /billing/capacity/add` and `/downgrade`, the
settings and the tool `manage_capacity`; **PriceSync** has `setup:stripe`.

**StripeWebhook**: `Send`, `TimeOut` are Stripe; `Claim`, `SetStatus`,
`StopAuto`, `Trim`, `Finish`, `Refused`, `Release` are `handleWebhook` with
`syncSubscriptionStatus` and `handleInvoiceFailed`; `Fails`, `ReleaseFails`,
`Crash` are what may happen to them.

**Provisioning**: one action per statement or call of the transaction of
`handleCheckoutCompleted` (`FindUser` with the uncommitted users row, `Previous`,
`Replace`, `Link` with the row lock of the upsert, `Bucket`, `Capacity`,
`Commit`, `Rollback`), `Throws` and `Dies` anywhere, and what the org does
meanwhile. **Buckets**: `Look`, `Name`, `Insert`, `Make`, `Undo`; `Count`,
`SoftDelete`, `Drain`, `Drop`; `Presign`, `Put`, `Resolve`, `Record`.

**UsageMetering**: `Emit` is a producer; `Read`, `Insert`, `Acknowledge`, `Skip`,
`ConsumerDies` the consumer; `Start`, `Aggregate`, `Count`, `Mark`, `Trim`,
`Finish` the rollup, under the job record of the worker; `Throws` and `Dies` may
end a run between any two of them; `Tick` is the clock.

**ApiRequests**: `Send`, `Authenticate`, `Replay`, the handlers `Create`,
`Rotate`, `Revoke`, then `Save`, `Reply`, and `Expire`. **SigningKeys**,
**Identity** and **SecretRotation** have one action per lookup, fetch and update.

**MediaJobs** (confirm, probe, derivative workers, deletion, the queue's memory of
ids), **WorkerLifecycle**, **DriftReport** and **Migrations** have one action per
statement, page, signal or crash.

**Storyboards**: a reorder is a transaction of two loops, a statement per clip,
with the row locks and the unique index that make it wait. **Tagging**: three
doors, a step per statement, none in a transaction. **Sets**: two doors that
queue one job per item. **Uploads**: parts sent by a few workers, retried and
cancelled. The dashboard's other modules have one action per thing the user does,
request sent, request served and answer received, so that answers may overtake
one another.

`MC*` modules and their `.cfg` files give the constants. A definition whose
comment starts `Mutant:` is no part of a specification: it is what a plausible
bug would make of the definition it follows, and the property named with it in
`PROJECT.json` rejects it.

## 4. Runs

| run | module, cfg | states | shows |
|---|---|---|---|
| `confirm_ledger` | `ObjectLedger`, `_confirm` | 105,736 | two confirms over two keys, clients overwriting, quota mode and allocation changing, the rollup reconciling: the ledger is exact at every commit (`LedgerExact`), `HardQuota` holds, every confirm ends (`ConfirmsFinish`), the confirm path implements `UsageMeter` (`MeterSpec`) |
| `delete_repair` | `ObjectLedger`, `_repair` | 728,504 | with deletes and a purge the counter drifts, in both quota modes, and the rollup brings it back for good, unless a hard-quota org stores more than it is allocated, where the CHECK refuses the repair (`DriftRepaired`) |
| `delete_race` | `ObjectLedger`, `_race` | - | expects a violation of `LedgerExact` (section 6) |
| `variant_shared` | `MCVariantLedger`, `_shared` | 609,589 | two jobs of one derivative, retries, stalls, compensations and a delete, while no rollup runs: `OnlyRepairsUndercount`, `EventsFollowCounter`; exact, with the bytes in place, until the jobs meet or the delete comes (`ExactUntilDisturbed`, `DoneIsStored`) |
| `ent_all` | `MCEntitlement`, `_all` | 257,378 | parts `stripe`, `selfHosted`, `prices`, `webhook`: an add, an automatic add and an upgrade with every failure of their Stripe calls and commits, beside `confirmAddOn`, a renewal and a reconcile (`CycleWithinCap`, `NeverFree`, `NeverOverGranted`, `LockedStepsKeepEntitlement`); capacity without Stripe (`CapacityHolds`); the price sync (`PricesHold`); two events, two deliveries each, overlaps, timeouts and a fault (`HandledOnce`, `AckedIsApplied`, `EventuallyApplied`); every call ends (`CallsEnd`) |
| `metering` | `MCUsageMetering`, `_rollup` | 476,886 | half `usage`: two events of two orgs and kinds, two runs of the rollup, a fault anywhere: counted at most once and once more per failure, none skipped, exact by kind (`UsageIsCounted`); trimmed only when counted, and in the end all is settled (`UsageSettles`). Half `capacity`: two jobs record one derivative while a rollup repairs the counter: every job ends (`JobsSettle`), only the rollup takes the counter below the recorded bytes, and the drift is gone in the end (`RollupMends`) |
| `metering_twice` | `MCUsageMetering`, `_twice` | - | expects a violation of `EachEventOnce` (section 6) |
| `tenants` | `MCTenants` | 1,035,660 | parts `checkouts`, `buckets` (`TenancyHolds`), `creating`, `rotating` (`RequestsHold`), `identity`, `rotation`, `signing` (`AuthorityHolds`, `KeysTurnOver`) |
| `tenants_plan` | `MCTenants`, `_plan` | - | expects a violation of `PlanIsAllocated` (section 6) |
| `edits` | `MCParts`, `_edits` | 397,165 | parts `moves`, `adds`, `sets` (`EditsHold`), `uploads`, `library` (`FilesHold`); what is asked is what is done (`EditsTakeEffect`), and it ends (`EditsEnd`) |
| `screens` | `MCScreens` | 1,137,250 | part `tags` (`LabelsHold`); `search`, `results`, `cache`, `panel`, `library`, `links`, `secrets`, `session` (`ScreensHold`) |
| `worker` | `MCParts`, `_worker` | 203,569 | parts `overwrite`, `delete` (`MediaFollows`), `drift`, `process` (`ProcessHolds`), `migrations` (`ReleasesHold`); work ends (`WorkEnds`) |

**Bounds, and why they are enough.** Two requests of a kind are what a race of
this code needs: no handler waits for two others, and a read-modify-write has
one reader and one writer in between. What is proved (section 5) does not depend
on the bounds.

- *Ledgers.* Two keys show that a commit moves one key only. `MaxSize` 2 allows
  growing, shrinking and equal overwrites. Allocations of at most 3 or 4 bytes
  put the quota within reach of one upload, and `Increment` 1 makes an automatic
  add sometimes enough. `MaxAttempts` 2 has a first and a last attempt,
  `MaxStalls` 1 loses a worker at every statement. `DriftScale` is the code's
  own 1 / 0.001, so a drift of a byte counts.
- *Entitlement.* A cost of 2 under a cap of 3 makes one add fit and two not.
  Without Stripe, `Mixes` says which adds, downgrades and tool calls meet,
  `MaxSettings` how often auto-capacity is switched, `MaxUsed` what is stored.
  `MaxRuns` 3 is a sync, one that dies and one that finishes; `MaxStripe` 7 ids
  are what these can create.
- *Webhook.* `Usages` {0, 15, 25} puts the org below the trimmed allocation,
  between it and the old one, and above both; two deliveries (`MaxDeliveries`)
  with one fault leave Stripe one healthy try.
- *Metering.* Producers fall silent at `LastEmit` 1 of `MaxTime` 3, so that
  rows fall in time, late, and on the border of a `Window`; `Retention` 1 trims
  within the run; `Jobs` are two runs of two attempts.
- *Tenants.* Three checkouts (`Subs`), since it takes one linked and two that
  overlap; an event is sent twice (`MaxTries`); one mishap (`MaxMishaps`). Two
  creates at one door and one at the other, for one name, a delete and an
  upload, one failing storage call. Four attempts of three operations in each
  mix, one lost answer (`MaxLost`), four secrets (`MaxSecret`). Two readers of
  the signing keys and ticks up to `MaxTime` 4, twice `TTL` + `Latency`. Two
  orgs, two changes (`MaxChanges`) within `LastTick` 3, so that memberships are
  made in one millisecond or apart. Six days, as many versions, two outages
  (`MaxDay`, `MaxVersion`, `MaxOutages`): a torn promotion takes one and heals
  three days later.
- *Edits.* Two moves (`MaxMoves`) and one other writer (`MaxAlien`) at an asked
  position at most `MaxPlace` 1; generation is called twice, with one fault and
  one removal; three parts at a `PartConcurrency` of 2 (the code's 4) leave one
  to be taken after another has failed; two starts, `MaxRetries` 1 (the code's
  3), one failing request of a part and one of another kind; pages of two
  (`Limit`), four of them, while one file comes or goes (`MaxChanges`).
- *Screens.* The same list; two tagging requests with one failure and one tag
  made on the side (`MaxTags`); three tokens (`MaxTokens`) are a current, a
  previous and a reused one; two saves and two edits of the panel, two deletes,
  one answer lost each (`MaxSaves`, `MaxEdits`, `MaxDeletes`, `MaxLost`); a clock
  of fourteen five-minutes (`MaxTime`) with answers under way for one
  (`MaxDelay`) passes the hour of a link.
- *Worker.* Two uploads of the key (`MaxPuts`), two attempts, one stall and one
  fault; two changes beside a listing (`MaxEvents`); two releases in three
  runs, one crash (`MaxCrashes`); three ends of a process (`MaxStops`): a signal,
  a crash and the shutdown after it.

**Deadlock** is not checked (`CHECK_DEADLOCK FALSE`): one-shot requests come to
an end by design. That nobody waits for ever is what `ConfirmsFinish`,
`JobsSettle`, `CallsEnd`, `EditsEnd` and `WorkEnds` state.

**Fairness.** Weak, per process, and only where the code provides it:

- *requests* that have started run on or lose their connection
  (`ObjectLedger`, the delete of `VariantLedger`, the reorders of
  `Storyboards`); nothing makes one start, except in `Entitlement` and
  `SelfHosted`, where every request is taken to arrive;
- *jobs*: BullMQ keeps a job until it has completed or used its attempts
  (`VariantLedger`, `MediaJobs`, `Sets`), hands those of a dead worker out again
  and runs the repeatable ones (the rollup, the consumer);
- *deployments*: a run that died is started again (`Migrations`), and so is a
  process (`WorkerLifecycle`);
- *the browser* sends on the parts of a file nobody cancels (`Uploads`), reads
  the pages it asked for and sees the sentinel that is in view
  (`InfiniteList`);
- *Stripe* sends what is due and stops waiting, and a handler nobody kills runs
  on; *time* passes (`UsageMetering`).

No fairness is given to clients, crashes, faults, purges, renewals, reconciles,
deletions or storage traffic.

**Mutants.** Each property of each passing run has a mutated definition in a
module it concerns: an unawaited lock, a charge that ignores what it overwrites,
a missing FOR UPDATE, a kept claim, a link that is overwritten without a look, a
response stored under any path, an org chosen in two ways.

## 5. Proofs

Each proof module states types first and then a strengthened invariant per
result. Where a run checks the same formula, the theorem extends it from the
instance to every value of the constants that satisfies the module's named
ASSUMEs: finite sets, natural sizes and bounds, kinds of requests that are
disjoint, values that mark "none" outside the sets they mark. No assumption
restricts how many requests, jobs, keys, faults or crashes there are.

*ObjectLedgerProofs*. `TypeCorrect` has in it that `used_bytes` is never
negative, though confirm subtracts without `GREATEST`: the CHECK of the row
aborts instead. `ConfirmsKeepTheLedger` (`LedgerExact`) is about any number of
confirms with no delete and no purge. `LedgerExact` is not inductive: it needs
that whoever is between read and commit holds the org lock and that what it read
is *still* the live size of its key, that a key has one live row, and that a
snapshot of the rollup has nothing to mend. This is `ConfirmInv`.
`CounterStaysChecked` holds with deletes and purges; `QuotaIsHard` combines
the two. `ConfirmsImplementMeter` maps a commit to `Record` and every other step
to a stutter.

*VariantLedgerProofs*. `OnlyTheRollupUndercounts` (`OnlyRepairsUndercount`) is
about any jobs, keys, deletes and rollups. `LockInv` says a job that found a row
holds its lock, so the row still has the bytes the job subtracts, and a job that
found none subtracts nothing: hence no step of theirs takes a counter that
covers the recorded bytes below them. A rollup can, and does: it writes a
snapshot that a recording has overtaken, every 15 minutes, and the counter stays
too low until a later one. `BillingSeesEveryChange` (`EventsFollowCounter`) needs
`Rollups = {}`: a repair of the counter emits no event, so with one the events
no longer add up to it. `RetriesKeepTheLedger` (`ExactUntilDisturbed`) adds that
nobody else writes the row (`ExactInv`), as long as no two jobs of one key have
started and nothing is deleted, again without the rollup, whose snapshot writes
over later commits. `FinishedJobsLeaveTheirBytes` (`DoneIsStored`) adds where
the bytes are in every stage of an attempt.

*EntitlementProofs*. `LockInv` says which processes may be past the lock: one.
With `ChangeInv` (the target a plan change computed is still plan plus rows) it
gives `AddsAndPlanChangesSerialise`, and, without webhook and reconcile,
`AllocationIsEntitlement`. `BilledInv` (`seen` is the quantity still at Stripe,
recorded rows fit the items) gives `CapacityIsBilled`: what a lost commit
leaves billed errs against the customer, never for free. `SpendInv` (the spend
counter is at least what the cycle's adds cost, and rows keep their cost) gives
`CycleSpendIsCapped`. `SnapshotInv` (what webhook and reconcile have read is at
most what is there now) gives `StaleWritesNeverOverGrant`, under the stated
hypothesis `Upgrades`; a downgrade between read and write does over-grant.
`CapacityWithoutStripe` (`CapacityHolds`) rests on `CapacityInv`: who holds the
org lock, what an add has read under it is still there, and what the tool, which
takes no lock, may still write. `PlansAreSoldAtOnePrice` (`PricesHold`) from
`PriceInv`: ids are new, what the script has listed of the types ahead of it is
what is active (`SyncInv`), and what it has settled is sold at the row's amount,
so that neither a death nor a changed default leaves two active prices.

Of `StripeWebhook`, `EventsAreHandledOnce` follows from `ClaimInv`: a
delivery that runs, or that ended without releasing, has the claim, and no two
have it. `AckedEventsAreApplied` (`AckedIsApplied`) adds how far the handler of
each delivery has come, and that what it has written nobody takes back; the
events it excepts are those the code loses (section 6).

*UsageMeteringProofs*. `RecountsHaveFailures` (`UsageIsCounted`) from
`MeterInv`: the record of a job and the run that has it agree (`JobInv`);
windows lie one after another up to the watermark (`WindowInv`); the snapshot of
a run is what was in its window (`SnapInv`); an event is in the rollups at most
once more than attempts have failed, and what the next window may contain only
as often as they have, and by the attempt under way (`OnceInv`); what a passed
window holds was counted, came late or fell in a gap (`TailInv`); the rollups
are sums of that (`UsageIsExact`). It does not say that each event is counted
once: it is not, see `metering_twice`. `OnlyCountedRowsAreTrimmed` is its action
property. Both rest on an assumption of the model stated in `Tick`: a run of the
rollup does not last as long as raw rows are kept.

*TenantsProofs*, about `MCTenants`, each part for itself.

- `TenantsAreProvisioned` (`TenancyHolds`). For checkouts, `CheckoutInv`: what a
  transaction has read of the link is linked still, unless it overlapped the one
  that changed it (`PreviousInv`), and what it is to replace has ended, or
  Stripe did not hear; from the upsert on a transaction is alone (`LockInv`), so
  that what it found of bucket and key is so when it commits (`BackInv`); the
  linked subscription is paid for, or the one that ended it is not through
  (`PaidInv`). How much capacity comes with it is left out: ten times what the
  plan includes, see `tenants_plan`. For buckets, `StoresInv`: rows, also
  deleted ones, never share a place on the storage (`RowInv`), so what a delete
  drops is its own; what is deleted or uploaded to has a row for good, or was
  used before its create was answered (`UsedInv`); an MCP create that has made
  its storage keeps it, or its insert will be refused (`KeptInv`); bytes are
  where their upload was sent (`FilledInv`).
- `RetriesAreDoneOnce` (`RequestsHold`), from `RequestInv(T)` for any mix `T` of
  attempts: no secret is younger than the last minted (`MintedInv`); a key that
  is no good stays no good (`BannedInv`); what is answered or stored was done
  (`DoneInv`); of an operation whose attempts do not overlap one is under way,
  and what was done is stored or about to be (`OnceInv`); what its client was
  told or may be told is what it wrote (`ToldInv`).
- `AuthorityIsSound` (`AuthorityHolds`) from `SigningInv`, `IdentityInv` (the
  scopes of a request are those of a role its caller held, and a tool that is
  with its handler passed the allowlist) and `RotationInv` (which rows may be
  current, pending and previous at each step of a run, how a torn run mends, and
  which version a request in flight was signed with).
- `KeysAndSecretsTurnOver` (`KeysTurnOver`): the three action properties, from
  the same invariants.

*PartsProofs*, about `MCParts`.

- `DerivativesFollow` (`MediaFollows`) from `MediaInv`: which jobs of the
  current version are still to come for every derivative that is not of it
  (`JobsInv`), a row has its bytes (`ServedInv`), what a deletion has taken stays
  away (`RemovedInv`), what an upload to a quiet key finds (`UploadInv`). It is
  about every step of `MediaJobs`; the run leaves some out (section 7).
- `ReportsAndShutdowns` (`ProcessHolds`): the keys a sweep has seen are those of
  the pages behind it, and a total that is compared is whole (`SweepInv`,
  `DriftInv`); what a held job uses is closed after it (`HeldInv`, `ProcessInv`).
- `ReleasesAreApplied` (`ReleasesHold`): a run is at the first file of its
  release that is not on record, or will find so under the lock (`WalkInv`,
  `ReleaseInv`).
- `FilesAreWhole` (`FilesHold`). Of uploads (`SendingInv`): a part that was taken
  is recorded or flying, and one that is recorded has landed (`PartsInv`), so
  what is completed is whole; parts are aborted only where the file was cancelled
  or met a fault; a multipart upload that is open is counted. Of the list of
  the library (`ListInv`): pages that no change has overtaken are the first so
  many rows, so the offset counted in rows is where the last page ended
  (`WholeInv`).
- `EditsAreSound` (`EditsHold`). Of sets (`SetsInv`): a width that is stored,
  queued or rendered is what the item asked or that made to fit, and fitting it
  again changes nothing (`WidthsInv`), which is why a second generation may read
  a row the first has rewritten; a rendering has left its job with the queue
  until that forgets both (`RenderInv`). Of storyboards, `StoryInv`: committed
  positions are unique and stay below where the first loop of a reorder writes
  (`TableInv`); a clip that is being added is added by one request (`PendingInv`);
  what a reorder has written lies on rows it holds, at the position of its loop,
  apart from every row it sees and from what any other reorder has written
  (`WroteInv`), so commits of reorders that overlap keep positions unique. A move
  that met no other has all the clips in its order, and is alone (`MoveAlone`);
  an addition that met no other fills the positions after the highest one shown,
  each request its own (`AddAlone`). The assumption `Offset` > `Top` is needed:
  the code adds 1,000,000, and a storyboard whose positions reached that would
  have its reorders refused.
- `EditsDoAsAsked` (`EditsTakeEffect`), the action properties: a reorder has
  written every clip its statements have passed, or that clip is deleted
  (`Passed` in `EffectInv`), and a deleted clip does not come back. The last
  holds in `MCParts` since its part `moves` deletes and adds nothing, and its
  part `adds` deletes nothing; in the code it holds because ids are new, while
  `Storyboards` may give the id of a deleted clip out again. A cancelled file has
  its parts aborted as long as it sends them (`CancelInv`).

*SizeTotalsProofs* has what the ledgers cite of `Total`: it is a natural number,
0 for zero sizes, moves by the difference when one size changes, is monotone,
adds over disjoint sets (`TotalAdd`), stays within a sum (`TotalWithin`) and
counts ones (`TotalOnes`).

*ScreensProofs*, about `MCScreens`. `LabelsLeadToObjects` (`LabelsHold`) from
`TaggingInv`: ids are new and a slug has one tag (`IdsInv`); what an edit has
resolved is the tag of its name, or the tag of its slug, until one is deleted
(`ResolvedInv`); an edit that met nobody was the only writer since it started
(`MetInv`), so that what it has written of its set is what is there
(`StoredInv`); and the entry is the one of now, or it is owed, or a request that
is under way is still to rebuild it (`EntryInv`).

`ScreensShowWhatIsStored` (`ScreensHold`) has an invariant for each screen.

- Search: what is cached for a key is what the key finds, and the key wanted has
  the text last let through and filters that are still chosen (`SearchInv`).
- Endless list: pages that no change has overtaken are the first so many files in
  order, and are full, or all there are (`WholeInv`). So an offset counted in
  rows, as the library counts, and one counted in pages, as the search does, are
  where the last page ended, or past the end.
- Cached queries: every hook names the keys of what it changes, but for the
  pairs in `LeftBehind` (`HooksCover`, by cases over hooks and queries); so what
  is shown, unless it is marked stale, and what is being read have every answered
  mutation (`AnsweredInv`).
- Auto-capacity: the form is what was loaded but for the edited fields
  (`FormInv`); a save that met no other is alone under way, over what is stored
  (`CleanInv`); what was loaded is what is stored, or is marked, or a save is to
  mark it (`FreshInv`); and what is stored is what the last save sent, unless
  one that was overtaken came after it (`LastInv`).
- Library: what is ticked and lives is on screen, unless the bucket on screen has
  changed by itself (`TicksInv`); a request that was carried out has left no file
  (`GoneInv`); one that has its observer still is the last, and takes its file
  from the ticks and the drawer (`LeavesInv`).
- Links: a request reads no later than it answers and lasts no longer than
  `MaxDelay` (`SigningInv`), so an answer is of its time (`LinkInv`).
- Secrets: the last to mint for a key has minted what it has (`MintedInv`); what
  is shown was answered (`DialogInv`); a user who waits loses none
  (`PatientInv`); the secret of a key is known, on its way or lost with an answer
  (`KnownInv`).
- Session: of the tokens of a sign-in only the newest can be alone (`OwnersInv`);
  what is newer than a token in flight is good (`FlightInv`); the jar has the
  newest, or an answer on its way brings it (`JarInv`).

*Model-checked only.* Liveness, since the prover has neither fairness nor
ENABLED: `ConfirmsFinish`, `DriftRepaired`, `JobsSettle`, `CallsEnd`,
`EventuallyApplied`, `EditsEnd`, `WorkEnds`, of `UsageSettles` all but
`TrimSparesUncounted`, and of `RollupMends` all but `OnlyRepairsUndercount`.
Every invariant and every other action property that a passing run checks is
stated by a theorem. No module has a RECURSIVE operator.

## 6. Where code and documentation disagree

Three divergences have a run whose counterexample shows them (`PROJECT.json`,
`findings`, quotes the lines).

- `delete_race`: two concurrent `DELETE /media/:id` both find the object live and
  both release its size (`media.ts:382`); "concurrent confirms/deletes don't
  race" (`presign.ts:231`) holds for confirms only. The rollup repairs the
  counter, not the events.
- `metering_twice`: a rollup that throws or dies after it has added the row of
  one org and before it has written its watermark is run again over the same
  window, and adds that row once more (`usage-rollup.ts:70-102`, `:171`);
  "Persisting periodEnd makes the rollup exactly-once over the time axis"
  (`usage-rollup.ts:168-170`) holds for attempts that end. One way to throw is
  the repair of `used_bytes` in between, refused by the CHECK of the capacity
  row (`:159`): every attempt of every run then counts its window again, as long
  as that org stays over its hard quota.
- `tenants_plan`: a checkout allocates the digits of `included_gb` and of the sum
  of the add-ons, joined (`webhook.ts:340`): both are NUMERIC, which the driver
  returns as strings. Without add-ons that is ten times the plan; "plan.included_gb
  + SUM(billing_addons.gb)" (`webhook.ts:334`) and `webhook.test.ts:126-130`
  (1000 GB, 1e12 bytes), whose stub answers numbers, say otherwise.

What else the models and the reading showed, by component. Where a property of a
run has an exception or a hypothesis for one of these, it is named.

**Ledger and variants.** A purge of a tombstone removes the bytes of a live
object uploaded to its key since (`objects.ts:301`), a DELETE those of one
confirmed after its commit (`media.ts:420`); `presign.ts:216` reads the size
from storage before the lock. Two first recordings of a derivative both charge
it (`variant.ts:243`): `RollupMends` starts from there. The rollup's snapshot
may leave the counter below what was recorded since. A repair above the
allocation of a hard-quota org is refused, so its drift stays until it stores
less. A last attempt that fails before its upload compensates nothing, though an
earlier one committed a charged row (`variant.ts:312-318`). A stalled job may
run twice at once, since the job record lets an `active` one in (worker
`idempotency.ts:103`).

**Billing.** The nightly reconcile recognises add-on prices of type
`capacity_addon` (`billing-reconcile.ts:186`) while `setup:stripe` creates
`addon` (`plans.ts:150`): its "authoritative allocation" takes paid GB away. An
automatic add joins strings (`capacity-addons.ts:143`): 10 and 10 become 1010;
so does `subscriptions.ts:209` (`JoinedGb`), and
`removeCapacity` throws (`capacity-addons.ts:309`). `confirmAddOn` stores an
absolute sum without the org lock (`:402-434`), so a concurrent add is lost;
`CycleWithinCap` says that it never errs the other way. The price swap of
`changePlan` is not undone by a rollback (`plan-change.ts:131`). A downgrade
with auto-capacity may leave less allocated than stored. `setup:stripe` that
died between deactivation and save leaves the row with an inactive price; a
search that lags makes a second product (`OneProduct` speaks of one that does
not). Without Stripe: the tool `manage_capacity` stores an absolute value
without lock or plan bound, so adds race there (`AddsAddUp` speaks of `NoTool`);
the API answers before COMMIT and reads the shrink guard before the lock
(`usage.ts:379`).

**Webhook.** Subscriptions of a checkout carry no `org_id` in their metadata
(`subscriptions.ts:185`), so their cancellation is answered 200 and changes
nothing; an org that stores more than its allocation cannot have
`auto_enabled` false (CHECK of migration 008), so its cancellation fails until
Stripe gives up: `EventuallyApplied` exempts both. A claim stays when its worker
dies, when its DELETE fails, or when a duplicate was answered 200 before the
first delivery failed: `Disturbed`. Events carry no order.

**Tenancy.** A redelivered older checkout links the old subscription again
(`webhook.ts:147`); overlapping re-checkouts leave one unlinked; the
cancellation at Stripe survives a rollback; UNIQUE `users.email` blocks a second
provisioning; a re-checkout after the default bucket was deleted makes none. An
MCP create of the name of a deleted bucket throws and leaves its storage bucket;
a bucket used before its create was answered (`early`) may be lost.

**Metering.** The entries of a dead consumer stay pending, failed inserts are
acknowledged, rows that arrive late are not counted, nor are those a run without
a watermark jumps over (`gaps`) or a job that has used up its attempts leaves;
the properties leave these out. An attempt that fails between its window and its
watermark counts again what it had added, and so does one whose read of the
watermark fails (`usage-rollup.ts:27-37` takes the last 15 minutes instead);
`UsageIsCounted` allows one such recount per failure. `rollup_state` is created
by no migration: without it every window is those 15 minutes, and the run, which
has the table, says nothing.

**Media jobs.** The PUT of a derivative whose row was refused leaks its bytes;
one in the making during a DELETE leaves bytes or a row; a re-upload within an
hour of the same content (the same etag), or after a failed job, starts nothing;
rows of an earlier kind stay.

**Access.** The rotation is due every second day in effect; a run that dies
between store and promote leaves two current rows, and the grace window shrinks
(`db/index.ts:104-106`). The default firewall blocks the tools the allowlist
grants as destructive. A rotation is answered 200 for a key revoked meanwhile,
two that overlap are both answered, and a key that rotates itself and loses the
answer is refused its replay; two simultaneous requests under one
Idempotency-Key both run (`RequestsHold` speaks of attempts that do not overlap).

**Catalogue.** `categories.slug` is NOT NULL and never given, so every create is
a 409; `GET /sets/:id` orders by a column that does not exist. Search filters
tags by name at the API and by slug at MCP, though `tools/search.ts:38-43` calls
them identical. The library's rows carry no tags, so the drawer that adds one
replaces all; two names of one slug lose one; a failed insert after the clear
leaves none. `addClip` stores its position plus one (`api-reference.md:150`);
hidden clips make reorders 500, overlapping reorders may deadlock, a second move
from a stale view undoes the first. Items of one object and ratio in two sets
overwrite each other; jobs of removed items still render and bill.

**Dashboard.** The list of the library jumps to another bucket with its ticks
kept (`MediaLibrary.tsx:110`), and ticks a filter hides are deleted too; the
endless list repeats or skips after a change and is not refetched after a
delete; its sentinel stalls under client-side filters (`SearchScreen.tsx:157`),
which look at loaded pages only, though the comment says otherwise
(`SearchScreen.tsx:93-94`). A link is refetched on focus and not "before the 1h
presign TTL lapses" (`useMedia.ts:60`); a failed thumbnail is cached half an
hour. Of two overlapping creates or rotations one secret is shown; the expiry
slider of a key is sent nowhere (`api.ts:479-483`). The auto-capacity panel
offers thresholds to 95 where the API takes 50 (`usage.ts:26`) and "0 = no cap"
where it wants a positive one; a save before its query loaded writes defaults.
Uploads are never confirmed by the dashboard (`docs/src/user/upload.md:44`), and
the abort route it calls does not exist, so aborted multiparts stay. Login
ignores `?redirect`; a redirect drops rotated cookies; a late Set-Cookie may wipe
or revive a session.

## 7. What is not modelled

Configuration, mail, observability and documentation hold no protocol.
Within the modelled components:

- presigning and the calls of a multipart upload keep no state in the
  application; `removeCapacity` throws before its first effect;
  `createSubscription`, `cancelSubscription` and the reservation and
  multipart functions of `db/src/index.ts` are called by nobody; the reconcile's
  correction of `billing_addons` finds no item;
- PostgreSQL, BullMQ, S3, Redis, Stripe and the browser are modelled by what the
  code relies on: READ COMMITTED, row and advisory locks, CHECKs, `ON CONFLICT`;
  at-least-once jobs with ids and attempts; calls that take effect, fail, or take
  effect and fail to say so. That Fastify accepts bodiless requests with a JSON
  content type (`api.ts:11-25`) is taken for granted;
- the 24 hours after which the API forgets a record under an Idempotency-Key
  (`middleware/idempotency.ts:18`): retries are taken to come before;
- releases of `Migrations` number their files alike; one that renumbers them is
  left out;
- widths of integers: byte counts are `bigint`, far from any plan;
- two concurrent runs of `setup:stripe`;
- in the run `worker`: one confirm at a time, an upload confirmed until its probe
  is accepted, one lifetime of the object; in part `delete` no worker dies and
  only posters fail. `DerivativesFollow` is proved for every step.

## 8. Plan

Written in this order, the most important behaviour first: the ledgers, then
what quota and billing rest on (`Entitlement`, `StripeWebhook`,
`UsageMetering`), tenancy and access, the jobs of the worker, the catalogue, the
dashboard. The proofs followed the same order, from the types of `ObjectLedger`
to the screens of `MCScreens`. What is left:

1. `EditsTakeEffect` for storyboards in which clips are added and deleted at
   once, with ids that are given out once.
2. `StripeWebhook` composed with `Entitlement`: the trim of a cancellation and
   the other writers of the same row.
3. Composing `Uploads` with `ObjectLedger`, once the dashboard confirms.
