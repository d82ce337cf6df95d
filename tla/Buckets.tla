------------------------------ MODULE Buckets -------------------------------
(***************************************************************************)
(* The buckets of an org: rows of the database and buckets on the object   *)
(* storage, made and removed by requests that touch both, one call after   *)
(* the other.  Two doors make buckets: the API writes the row first, the   *)
(* MCP tool the storage.  The API deletes a bucket it has counted empty,   *)
(* drains its storage and drops it; uploads are confirmed meanwhile.       *)
(*                                                                         *)
(* The MCP tool that deletes is refused by the firewall (Identity).        *)
(***************************************************************************)
EXTENDS Integers, FiniteSets

CONSTANTS
  Creates,    \* requests to make a bucket; a row has the id of its request
  NameOf,     \* the name each asks for
  Door,       \* "api" or "mcp"
  Deletes,    \* requests to delete a bucket
  Uploads,    \* objects that are uploaded to a bucket
  MaxFaults   \* bound: storage calls that fail

\* What the constants must be; assumed where the module is instantiated.
BucketsAssumption ==
  /\ Door \in [Creates -> {"api", "mcp"}] /\ DOMAIN NameOf = Creates /\ MaxFaults \in Nat
  /\ IsFiniteSet(Creates)
  /\ Creates \cap Deletes = {} /\ Creates \cap Uploads = {} /\ Deletes \cap Uploads = {}

VARIABLES
  at,       \* where each request and each upload is
  row,      \* of each bucket: "none", "live" or "deleted"
  place,    \* minio_bucket: its name and a nonce, 0 without one
  target,   \* the bucket a delete or an upload is about
  storage,  \* the buckets the storage has
  bytes,    \* what they hold: <<storage bucket, upload>>
  objects,  \* the live rows of objects: <<bucket, upload>>
  faults,
  raced,    \* history: uploads confirmed while their bucket was being deleted
  early     \* history: buckets deleted, or uploaded to, whose create had not succeeded

vars == <<at, row, place, target, storage, bytes, objects, faults, raced, early>>

Names == {NameOf[c] : c \in Creates}
Base(c) == <<NameOf[c], 0>>

Init ==
  /\ at = [r \in Creates \cup Deletes \cup Uploads |-> "unsent"]
  /\ row = [c \in Creates |-> "none"] /\ place = [c \in Creates |-> Base(c)]
  /\ target \in [Deletes \cup Uploads -> Creates]
  /\ storage = {} /\ bytes = {} /\ objects = {} /\ faults = 0 /\ raced = {} /\ early = {}

Goes(r, step) == at' = [at EXCEPT ![r] = step]
Fault == faults < MaxFaults /\ faults' = faults + 1

UsedEarly(b) == IF at[b] = "made" THEN early ELSE early \cup {b}

Rows(state) == {c \in Creates : row[c] = state}
Named(c, state) == {d \in Rows(state) : NameOf[d] = NameOf[c]}

-----------------------------------------------------------------------------
(* POST /buckets and create_bucket *)

\* Refused with 409 while a live bucket has the name.
Look(c) ==
  /\ at[c] = "unsent"
  /\ Goes(c, IF Named(c, "live") # {} THEN "refused"
             ELSE IF Door[c] = "api" THEN "name" ELSE "make")
  /\ UNCHANGED <<row, place, target, storage, bytes, objects, faults, raced, early>>

\* C02: a name that a deleted bucket had gets fresh storage, under a nonce
\* (the clock).
Name(c) ==
  /\ at[c] = "name" /\ Goes(c, "insert")
  /\ place' = [place EXCEPT ![c] =
       IF Named(c, "deleted") = {} THEN Base(c)
       ELSE <<NameOf[c], 1 + Cardinality({d \in Creates : place[d][1] = NameOf[c] /\ place[d][2] > 0})>>]
  /\ UNCHANGED <<row, target, storage, bytes, objects, faults, raced, early>>

\* buckets_name_org_unique is about live rows, buckets_minio_bucket_unique
\* about all of them.
Clash(c) ==
  \/ \E d \in Rows("live") : NameOf[d] = NameOf[c]
  \/ \E d \in Rows("live") \cup Rows("deleted") : place[d] = place[c]

\* C01: the one who comes too late touches no storage.
Insert(c) ==
  /\ at[c] = "insert"
  /\ IF Clash(c)
     THEN Goes(c, "refused") /\ UNCHANGED row
     ELSE /\ Goes(c, IF Door[c] = "api" THEN "make" ELSE "made")
          /\ row' = [row EXCEPT ![c] = "live"]
  /\ UNCHANGED <<place, target, storage, bytes, objects, faults, raced, early>>

\* CreateBucket, which may find its bucket there already.
Make(c) ==
  /\ at[c] = "make"
  /\ \/ /\ storage' = storage \cup {place[c]}
        /\ Goes(c, IF Door[c] = "api" THEN "made" ELSE "insert") /\ UNCHANGED faults
     \/ /\ Fault /\ UNCHANGED storage
        /\ Goes(c, IF Door[c] = "api" THEN "undo" ELSE "refused")
  /\ UNCHANGED <<row, place, target, bytes, objects, raced, early>>

\* DELETE FROM buckets, the row and not its storage; its objects go with it
\* (ON DELETE CASCADE).  A DELETE that fails is swallowed: the refused bucket
\* keeps its row.
Undo(c) ==
  /\ at[c] = "undo"
  /\ \/ Goes(c, "refused") /\ row' = [row EXCEPT ![c] = "none"] /\ objects' = {o \in objects : o[1] # c}
     \/ Goes(c, "kept") /\ UNCHANGED <<row, objects>>
  /\ UNCHANGED <<place, target, storage, bytes, faults, raced, early>>

-----------------------------------------------------------------------------
(* DELETE /buckets/:id *)

ObjectsOf(b) == {o \in objects : o[1] = b}

Count(d) ==
  /\ at[d] = "unsent" /\ row[target[d]] = "live"
  /\ Goes(d, IF ObjectsOf(target[d]) # {} THEN "refused" ELSE "counted")
  /\ UNCHANGED <<row, place, target, storage, bytes, objects, faults, raced, early>>

\* The UPDATE finds no row that another delete has taken.
SoftDelete(d) ==
  LET b == target[d] IN
  /\ at[d] = "counted"
  /\ IF row[b] = "live"
     THEN /\ row' = [row EXCEPT ![b] = "deleted"] /\ Goes(d, "drain")
          /\ early' = UsedEarly(b)
          /\ raced' = raced \cup {u \in Uploads : target[u] = b /\ (at[u] = "head" \/ <<b, u>> \in objects)}
     ELSE Goes(d, "refused") /\ UNCHANGED <<row, early, raced>>
  /\ UNCHANGED <<place, target, storage, bytes, objects, faults>>

\* Best effort: the objects that are listed are deleted one by one.
Drain(d) ==
  /\ at[d] = "drain"
  /\ \/ /\ bytes' = {o \in bytes : o[1] # place[target[d]]} /\ Goes(d, "drop") /\ UNCHANGED faults
     \/ Fault /\ Goes(d, "answered") /\ UNCHANGED bytes
  /\ UNCHANGED <<row, place, target, storage, objects, raced, early>>

\* DeleteBucket is refused for a bucket that holds something again.
Drop(d) ==
  /\ at[d] = "drop" /\ Goes(d, "answered")
  /\ storage' = IF \E o \in bytes : o[1] = place[target[d]] THEN storage ELSE storage \ {place[target[d]]}
  /\ UNCHANGED <<row, place, target, bytes, objects, faults, raced, early>>

-----------------------------------------------------------------------------
(* An upload: presigned, put by the browser, confirmed *)

\* resolveOwnedBucket; the URL names the storage bucket.
Presign(u) ==
  /\ at[u] = "unsent" /\ row[target[u]] = "live" /\ Goes(u, "put")
  /\ early' = UsedEarly(target[u])
  /\ UNCHANGED <<row, place, target, storage, bytes, objects, faults, raced>>

\* The URL stays good for an hour, whatever happens to the bucket.
Put(u) ==
  /\ at[u] = "put"
  /\ IF place[target[u]] \in storage
     THEN bytes' = bytes \cup {<<place[target[u]], u>>} /\ Goes(u, "stored")
     ELSE Goes(u, "failed") /\ UNCHANGED bytes
  /\ UNCHANGED <<row, place, target, storage, objects, faults, raced, early>>

\* /presign/confirm resolves the bucket again ...
Resolve(u) ==
  /\ at[u] = "stored"
  /\ Goes(u, IF row[target[u]] = "live" THEN "head" ELSE "failed")
  /\ UNCHANGED <<row, place, target, storage, bytes, objects, faults, raced, early>>

\* ... asks the storage for the size, and records the object, which needs the
\* row of its bucket but not that it is live.
Record(u) ==
  LET b == target[u] IN
  /\ at[u] = "head"
  /\ IF <<place[b], u>> \in bytes /\ row[b] # "none"
     THEN objects' = objects \cup {<<b, u>>} /\ Goes(u, "confirmed")
     ELSE Goes(u, "failed") /\ UNCHANGED objects
  /\ UNCHANGED <<row, place, target, storage, bytes, faults, raced, early>>

-----------------------------------------------------------------------------
Next ==
  \/ \E c \in Creates : Look(c) \/ Name(c) \/ Insert(c) \/ Make(c) \/ Undo(c)
  \/ \E d \in Deletes : Count(d) \/ SoftDelete(d) \/ Drain(d) \/ Drop(d)
  \/ \E u \in Uploads : Presign(u) \/ Put(u) \/ Resolve(u) \/ Record(u)

Spec == Init /\ [][Next]_vars

-----------------------------------------------------------------------------
TypeOK ==
  /\ \A c \in Creates : at[c] \in {"unsent", "name", "insert", "make", "undo", "made", "kept", "refused"}
  /\ \A d \in Deletes : at[d] \in {"unsent", "counted", "drain", "drop", "answered", "refused"}
  /\ \A u \in Uploads : at[u] \in {"unsent", "put", "stored", "head", "confirmed", "failed"}
  /\ row \in [Creates -> {"none", "live", "deleted"}]
  /\ place \in [Creates -> Names \X Nat] /\ target \in [Deletes \cup Uploads -> Creates]
  /\ storage \subseteq Names \X Nat /\ bytes \subseteq storage \X Uploads
  /\ objects \subseteq Creates \X Uploads /\ faults \in 0 .. MaxFaults
  /\ raced \subseteq Uploads /\ early \subseteq Creates

\* No bucket vanishes under its owner: the storage of a live bucket whose
\* create was answered stays, whatever other creates and deletes of the name
\* do, unless one of that name was used before it was made.
StorageStays ==
  \A c \in Creates :
    row[c] = "live" /\ at[c] = "made" => place[c] \in storage \/ \E d \in early : NameOf[d] = NameOf[c]

\* buckets.ts:46, C02: a bucket never shows what was uploaded to an earlier
\* one of its name.
NothingReappears ==
  \A c \in Creates, o \in bytes :
    row[c] = "live" /\ o[1] = place[c] => target[o[2]] = c \/ \E d \in early : NameOf[d] = NameOf[c]

\* A deleted bucket was empty: an object is left in one only when its confirm
\* had resolved the bucket before the delete.
DeletedWasEmpty == \A o \in objects : row[o[1]] = "live" \/ o[2] \in raced
=============================================================================
