----------------------------- MODULE MCTenants ------------------------------
(* What a tenant gets and who may use it: the provisioning of its org, its  *)
(* buckets; the requests of its keys (twice), the cache of signing keys,    *)
(* the choice of an org, the rotation of the internal secret.  They share   *)
(* no state that is modelled: one of them runs, the one in part; the others *)
(* stay where they start.                                                   *)
EXTENDS TLC, Integers

CONSTANTS
  s1, s2, s3, None, AddonGb, Usages, MaxTries,
  c1, c2, c3, Deletes, Uploads, MaxFaults,
  k1, k2, create, rotate, rotateToo, revoke, User,
  FirstKid, TTL, Latency, MaxTime, Orgs, Millisecond, Approvals, MaxChanges,
  MaxDay, MaxVersion, MaxSecret,
  \* of the checkouts, and of the buckets
  Subs, PlanGb, MaxMishaps, Creates, NameOf, Door,
  \* of the requests, which are made in one of two mixes
  Keys, Ops, Principal, Kind, Target, Keyed, Creations, Rotations, MaxLost,
  \* of the signing keys, the memberships and the internal secret
  Readers, Kids, KeyScopes, LastTick, Senders, MaxOutages

\* Three checkouts, for 20, 10 and 30 GB once "2" and "0" are joined.
MCPlanGb == s1 :> 2 @@ s2 :> 1 @@ s3 :> 3

\* Two creates at the API and one at the MCP door, all for one name.
MCNameOf == c1 :> "media" @@ c2 :> "media" @@ c3 :> "media"
MCDoor == c1 :> "api" @@ c2 :> "api" @@ c3 :> "mcp"

\* A client creates another key with its own under an Idempotency-Key; a
\* dashboard user rotates and revokes the one it does it with, and its holder
\* rotates it too.
MCPrincipal == create :> k1 @@ rotate :> User @@ rotateToo :> k1 @@ revoke :> User
MCKind == create :> "create" @@ rotate :> "rotate" @@ rotateToo :> "rotate" @@ revoke :> "revoke"
MCTarget == create :> k2 @@ rotate :> k1 @@ rotateToo :> k1 @@ revoke :> k1

\* The creation is tried twice, or the rotation, beside that of the holder.
MCCreations == {<<create, 1>>, <<create, 2>>, <<rotate, 1>>, <<revoke, 1>>}
MCRotations == {<<rotate, 1>>, <<rotate, 2>>, <<rotateToo, 1>>, <<revoke, 1>>}

VARIABLES
  part,
  stripe, stage, tries, previous, found, userLock, linkLock, link, allocated, used,
  bucket, provided, keys, mishaps, overlap, unheard,
  step, row, place, target, storage, bytes, objects, faults, raced, early,
  status, secret, minted, records, reached, result, lost, crossed, effects, writer, banned, known, presented,
  clock, published, retired, cache, request,
  now, members, changes, call, held,
  day, outages, stages, created, run, ran, signed, sentOn, verdict, activated, torn, lastFault

Checkouts == INSTANCE Provisioning WITH
  MaxFaults <- MaxMishaps, at <- stage, storage <- provided, faults <- mishaps

Stores == INSTANCE Buckets WITH at <- step

Api(T) == INSTANCE ApiRequests WITH
  Tries <- T, MaxFaults <- MaxLost, at <- reached, faults <- lost, overlap <- crossed

Signing == INSTANCE SigningKeys WITH Requests <- Readers

Identities == INSTANCE Identity WITH clock <- now, request <- call, MaxTime <- LastTick

Rotation == INSTANCE SecretRotation WITH
  faults <- outages, Requests <- Senders, MaxFaults <- MaxOutages

ASSUME TenancyAssumption == Checkouts!ProvisioningAssumption /\ Stores!BucketsAssumption
ASSUME RequestsAssumption == Api(Creations)!RequestsAssumption /\ Api(Rotations)!RequestsAssumption
ASSUME AuthorityAssumption ==
  Signing!SigningAssumption /\ Identities!IdentityAssumption /\ Rotation!RotationAssumption

checkoutVars == <<stripe, stage, tries, previous, found, userLock, linkLock, link, allocated, used,
                  bucket, provided, keys, mishaps, overlap, unheard>>
storeVars == <<step, row, place, target, storage, bytes, objects, faults, raced, early>>
apiVars == <<status, secret, minted, records, reached, result, lost, crossed, effects, writer, banned, known, presented>>
signingVars == <<clock, published, retired, cache, request>>
identityVars == <<now, members, changes, call, held>>
rotationVars == <<day, outages, stages, created, run, ran, signed, sentOn, verdict, activated, torn, lastFault>>

tenancyVars == <<checkoutVars, storeVars>>
accessVars == <<apiVars, signingVars, identityVars, rotationVars>>

Init ==
  /\ part \in {"checkouts", "buckets", "creating", "rotating", "signing", "identity", "rotation"}
  /\ Checkouts!Init
  /\ Stores!Init /\ (part # "buckets" => \A r \in DOMAIN target : target[r] = c1)
  /\ IF part = "rotating" THEN Api(Rotations)!Init ELSE Api(Creations)!Init
  /\ Signing!Init /\ Identities!Init /\ Rotation!Init

Next ==
  /\ UNCHANGED part
  /\ \/ part = "checkouts" /\ Checkouts!Next /\ UNCHANGED <<storeVars, accessVars>>
     \/ part = "buckets" /\ Stores!Next /\ UNCHANGED <<checkoutVars, accessVars>>
     \/ part = "creating" /\ Api(Creations)!Next /\ UNCHANGED <<tenancyVars, signingVars, identityVars, rotationVars>>
     \/ part = "rotating" /\ Api(Rotations)!Next /\ UNCHANGED <<tenancyVars, signingVars, identityVars, rotationVars>>
     \/ part = "signing" /\ Signing!Next /\ UNCHANGED <<tenancyVars, apiVars, identityVars, rotationVars>>
     \/ part = "identity" /\ Identities!Next /\ UNCHANGED <<tenancyVars, apiVars, signingVars, rotationVars>>
     \/ part = "rotation" /\ Rotation!Next /\ UNCHANGED <<tenancyVars, apiVars, signingVars, identityVars>>

Spec == Init /\ [][Next]_<<part, tenancyVars, accessVars>>

-----------------------------------------------------------------------------
\* What a tenant pays for is what it has: a replaced subscription stops taking
\* money, the org is on one that is paid for, its capacity has a bucket behind
\* it, and it has one default key (Provisioning); a live bucket keeps its
\* storage, a new one shows nothing of an old one, a deleted one was empty
\* (Buckets).
TenancyHolds ==
  /\ part = "checkouts" =>
       /\ Checkouts!TypeOK /\ Checkouts!NoneOrphaned /\ Checkouts!LinkedIsPaid
       /\ Checkouts!CapacityIsBacked /\ Checkouts!OneDefaultKey
  /\ part = "buckets" =>
       /\ Stores!TypeOK /\ Stores!StorageStays /\ Stores!NothingReappears /\ Stores!DeletedWasEmpty

\* Its capacity is what its plan and its add-ons add up to (Provisioning).
PlanIsAllocated == part = "checkouts" => Checkouts!CapacityIsPlanAndAddons

\* Requests and their keys: a retried operation is done once, the secret its
\* client is told is the key's, and a revoked key gets no answer, not even a
\* stored one (ApiRequests).
RequestsHold ==
  /\ part = "creating" =>
       /\ Api(Creations)!TypeOK /\ Api(Creations)!RetryRunsOnce
       /\ Api(Creations)!AnswerIsCurrent /\ Api(Creations)!RevokedStaysOut
  /\ part = "rotating" =>
       /\ Api(Rotations)!TypeOK /\ Api(Rotations)!RetryRunsOnce
       /\ Api(Rotations)!AnswerIsCurrent /\ Api(Rotations)!RevokedStaysOut

\* Who a caller is: both doors choose one org, nothing is done without a
\* membership that allows it, allowlist and handlers agree, no deletion at the
\* MCP door (Identity); only the two internal secrets activated last verify,
\* and the current one is at most a day old (SecretRotation).
AuthorityHolds ==
  /\ part = "identity" =>
       /\ Identities!TypeOK /\ Identities!DoorsAgree /\ Identities!AuthorityWasHeld
       /\ Identities!AllowlistIsExact /\ Identities!DestructiveFailsClosed
  /\ part = "rotation" => Rotation!TypeOK /\ Rotation!OnlyTheLastTwo /\ Rotation!Fresh
  /\ part = "signing" => Signing!TypeOK

\* Keys and secrets replace one another without a gap and without a leftover:
\* a retired signing key is good for a bounded time only, a new one is found at
\* once (SigningKeys), and a rotation breaks no request in flight
\* (SecretRotation).
KeysTurnOver == Signing!RetiredKeysFade /\ Signing!NewKeysAreFound /\ Rotation!GraceWindow
=============================================================================
