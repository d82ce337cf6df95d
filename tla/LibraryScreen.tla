---------------------------- MODULE LibraryScreen ----------------------------
(* Ticking and deleting in the media library. Files are ticked in the list   *)
(* of one bucket, deleted one by one from a menu, a row or the drawer, or    *)
(* all that are ticked at once; every delete is a request of its own, and    *)
(* only the one sent last tells the screen when it is answered. The list is  *)
(* not fetched again because of a delete; other writers delete files, create *)
(* buckets and delete empty ones, and the list of buckets follows.           *)
EXTENDS FiniteSets, SequencesExt

CONSTANTS
  Files,
  Buckets, BucketOf,
  Later,              \* a bucket that is created meanwhile
  MaxDeletes, MaxLost

LibraryAssumption ==
  /\ Later \notin Buckets /\ BucketOf \in [Files -> Buckets]
  /\ IsFiniteSet(Files) /\ IsFiniteSet(Buckets) /\ Buckets # {}
  /\ MaxDeletes \in Nat /\ MaxLost \in Nat

VARIABLES
  live,       \* the files the server has
  buckets,    \* the buckets as the screen has them, newest first
  chosen,     \* the bucket the user has picked: none at first
  loaded,     \* the cached list of each bucket
  selected, drawer,
  deletes,    \* the requests, in the order they are sent
  lost,       \* bound: requests without an answer, other writers
  jumped,     \* history: the bucket has changed under ticked files
  unseen      \* history: live files that a bulk delete took, not in the list shown

vars == <<live, buckets, chosen, loaded, selected, drawer, deletes, lost, jumped, unseen>>
serverVars == <<live, buckets, lost>>

(* The picked bucket, or the first. *)
BucketIn(list, pick) == IF pick # {} /\ pick \subseteq ToSet(list) THEN CHOOSE b \in pick : TRUE ELSE Head(list)
Active == BucketIn(buckets, chosen)

(* What a filter of the list hides stays ticked: it makes no difference here. *)
Shown == loaded[Active]

Init ==
  /\ live = Files /\ buckets \in SetToSeqs(Buckets)
  /\ chosen = {} /\ loaded = [b \in Buckets \union {Later} |-> {}]
  /\ selected = {} /\ drawer = {} /\ deletes = <<>> /\ lost = 0 /\ jumped = FALSE /\ unseen = {}

Sent(at) == {i \in DOMAIN deletes : deletes[i].at = at}
Underway == Sent("sent") \union Sent("done")
Watched(i) == i = Len(deletes)
Goes(i, place) == deletes' = [deletes EXCEPT ![i].at = place]

(* Picking a file again while it is being deleted: the list still has it. *)
Again(f) == deletes' = [i \in DOMAIN deletes |->
  IF deletes[i].file = f THEN [deletes[i] EXCEPT !.again = TRUE] ELSE deletes[i]]

-----------------------------------------------------------------------------
(* The user *)

Tick(f) ==
  /\ f \in Shown
  /\ selected' = IF f \in selected THEN selected \ {f} ELSE selected \union {f}
  /\ Again(f)
  /\ UNCHANGED <<serverVars, chosen, loaded, drawer, jumped, unseen>>

OpenDrawer(f) ==
  /\ f \in Shown /\ drawer # {f} /\ drawer' = {f} /\ Again(f)
  /\ UNCHANGED <<serverVars, chosen, loaded, selected, jumped, unseen>>

(* The cross of the toolbar, the cross of the drawer. *)
Clear ==
  /\ selected' \in {selected, {}} /\ drawer' \in {drawer, {}}
  /\ UNCHANGED <<serverVars, chosen, loaded, deletes, jumped, unseen>>

PickBucket(b) ==
  /\ b \in ToSet(buckets) \ {Active} /\ chosen' = {b} /\ selected' = {}
  /\ UNCHANGED <<serverVars, loaded, drawer, deletes, jumped, unseen>>

Request(f, single) == [file |-> f, single |-> single, at |-> "sent", over |-> FALSE, again |-> FALSE]

(* A request over one that is not answered takes over its observer. *)
Send(requests) ==
  /\ Len(deletes) + Len(requests) <= MaxDeletes
  /\ deletes' = [i \in DOMAIN deletes |->
       IF i \in Underway THEN [deletes[i] EXCEPT !.over = TRUE] ELSE deletes[i]] \o requests

Delete(f) ==
  /\ f \in Shown \union drawer /\ Send(<<Request(f, TRUE)>>)
  /\ UNCHANGED <<serverVars, chosen, loaded, selected, drawer, jumped, unseen>>

(* Disabled while the request sent last is under way. *)
BulkDelete ==
  /\ selected # {} /\ ~\E i \in Underway : Watched(i)
  /\ \E order \in SetToSeqs(selected) : Send([i \in DOMAIN order |-> Request(order[i], FALSE)])
  /\ selected' = {}
  /\ unseen' = unseen \union ((selected \intersect live) \ Shown)
  /\ UNCHANGED <<serverVars, chosen, loaded, drawer, jumped>>

-----------------------------------------------------------------------------
(* The server, the cache *)

(* DELETE /media/:id, or a 404 nobody is told of. *)
Served(i) ==
  /\ i \in Sent("sent") /\ live' = live \ {deletes[i].file}
  /\ Goes(i, IF deletes[i].file \in live THEN "done" ELSE "refused")
  /\ UNCHANGED <<buckets, lost, chosen, loaded, selected, drawer, jumped, unseen>>

Answered(i) ==
  /\ i \in Sent("done") /\ Goes(i, "answered")
  /\ IF Watched(i) /\ deletes[i].single
     THEN selected' = selected \ {deletes[i].file} /\ drawer' = drawer \ {deletes[i].file}
     ELSE UNCHANGED <<selected, drawer>>
  /\ UNCHANGED <<serverVars, chosen, loaded, jumped, unseen>>

Loses(i) ==
  /\ i \in Underway /\ lost < MaxLost /\ lost' = lost + 1 /\ Goes(i, "lost")
  /\ UNCHANGED <<live, buckets, chosen, loaded, selected, drawer, jumped, unseen>>

(* The list of the bucket shown is fetched: it is new, or stale at a focus.  *)
Loads ==
  /\ loaded' = [loaded EXCEPT ![Active] = {f \in live : BucketOf[f] = Active}]
  /\ UNCHANGED <<serverVars, chosen, selected, drawer, deletes, jumped, unseen>>

(* Another tab, the MCP server. *)
DeletedElsewhere(f) ==
  /\ f \in live /\ lost < MaxLost /\ lost' = lost + 1 /\ live' = live \ {f}
  /\ UNCHANGED <<buckets, chosen, loaded, selected, drawer, deletes, jumped, unseen>>

(* The list of buckets is fetched: one has been created, an empty one        *)
(* deleted.                                                                  *)
BucketsChange ==
  /\ lost < MaxLost /\ lost' = lost + 1
  /\ \/ Later \notin ToSet(buckets) /\ buckets' = <<Later>> \o buckets
     \/ \E i \in DOMAIN buckets :
          /\ Len(buckets) > 1 /\ \A f \in live : BucketOf[f] # buckets[i]
          /\ buckets' = RemoveAt(buckets, i)
  /\ jumped' = (jumped \/ (selected # {} /\ BucketIn(buckets', chosen) # Active))
  /\ UNCHANGED <<live, chosen, loaded, selected, drawer, deletes, unseen>>

Next ==
  \/ \E f \in Files : Tick(f) \/ OpenDrawer(f) \/ Delete(f) \/ DeletedElsewhere(f)
  \/ \E b \in DOMAIN loaded : PickBucket(b)
  \/ Clear \/ BulkDelete \/ Loads \/ BucketsChange
  \/ \E i \in DOMAIN deletes : Served(i) \/ Answered(i) \/ Loses(i)

Spec == Init /\ [][Next]_vars

-----------------------------------------------------------------------------
TypeOK ==
  /\ live \subseteq Files /\ Cardinality(chosen) <= 1 /\ Cardinality(drawer) <= 1
  /\ \A b \in DOMAIN loaded : loaded[b] \subseteq {f \in Files : BucketOf[f] = b}
  /\ selected \subseteq Files /\ Len(deletes) <= MaxDeletes /\ lost <= MaxLost

(* A bulk delete takes no file but of the list on screen, whatever was ticked,*)
(* loaded and deleted before; unless the list of buckets has changed and     *)
(* another bucket has come first under the ticks.                            *)
BulkIsOnScreen == jumped \/ unseen = {}

(* Every file that was asked to go is gone once nothing is under way, though *)
(* only the last request of a bulk delete is watched.                        *)
AskedAreGone ==
  (Underway = {} /\ Sent("lost") = {}) => \A i \in DOMAIN deletes : deletes[i].file \notin live

(* A file that was deleted on its own is left neither ticked nor open, unless*)
(* another delete was sent before the answer, or the user has picked it anew *)
(* from the list that still has it.                                          *)
DeletedLeaves ==
  \A i \in Sent("answered") :
    (deletes[i].single /\ ~deletes[i].over /\ ~deletes[i].again)
      => deletes[i].file \notin selected \union drawer
=============================================================================
