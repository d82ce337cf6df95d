----------------------------- MODULE QueryCache -----------------------------
(* The dashboard's data layer: a screen shows what TanStack Query has cached *)
(* for its key, and every mutation hook names, when it is answered, the keys *)
(* that are to be fetched again. The model follows one cached query through  *)
(* the mutations that change what it reads: answers come late or never, a    *)
(* fetch is read by the server before or after a mutation, the screen is     *)
(* left and opened again. The library itself is external: invalidating marks *)
(* the entry, and a mounted screen fetches again, cancelling a fetch that is *)
(* under way only when there is already something to show.                   *)
EXTENDS Naturals, FiniteSets, SequencesExt

CONSTANTS
  MaxCalls,       \* mutations the user starts
  MaxFails        \* failed fetches

QueryCacheAssumption == MaxCalls \in Nat \ {0} /\ MaxFails \in Nat

(* What a hook changes on the server, and the keys its onSuccess invalidates. *)
Hook(name, writes, refreshes) == [name |-> name, writes |-> writes, refreshes |-> refreshes]

BillingHooks ==
  {Hook("addCapacity", {"capacity"}, {<<"billing">>}),
   Hook("updateAutoCapacity", {"auto"}, {<<"billing">>}),
   Hook("downgrade", {"plan", "capacity"}, {<<"billing">>, <<"usage">>})}

ApiKeyHooks ==
  {Hook("createKey", {"keys"}, {<<"apiKeys">>}),
   Hook("revokeKey", {"keys"}, {<<"apiKeys">>}),
   Hook("rotateKey", {"keys"}, {<<"apiKeys">>})}

BucketHooks ==
  {Hook("createBucket", {"buckets"}, {<<"buckets">>}),
   Hook("deleteBucket", {"buckets"}, {<<"buckets">>})}

TagHooks ==
  {Hook("createTag", {"tags"}, {<<"tags">>}),
   Hook("deleteTag", {"tags", "tagging"}, {<<"tags">>, <<"media">>})}

CategoryHooks ==
  {Hook("createCategory", {"categories"}, {<<"categories">>}),
   Hook("deleteCategory", {"categories", "filing"}, {<<"categories">>, <<"media">>}),
   Hook("setCategories", {"filing"}, {<<"categories">>, <<"media">>})}

SetHooks ==
  {Hook("createSet", {"sets"}, {<<"sets">>}),
   Hook("deleteSet", {"sets", "items"}, {<<"sets">>}),
   Hook("addItem", {"items"}, {<<"sets", "id">>}),
   Hook("removeItem", {"items"}, {<<"sets", "id">>}),
   Hook("generate", {"variants"}, {<<"sets", "id">>})}

StoryboardHooks ==
  {Hook("createStoryboard", {"storyboards"}, {<<"storyboards">>}),
   Hook("deleteStoryboard", {"storyboards", "clips"}, {<<"storyboards">>}),
   Hook("addClip", {"clips"}, {<<"storyboards", "id">>}),
   Hook("removeClip", {"clips"}, {<<"storyboards", "id">>}),
   Hook("reorder", {"order"}, {<<"storyboards", "id">>})}

MediaHooks ==
  {Hook("deleteMedia", {"objects"}, {<<"media">>}),
   Hook("updateMedia", {"tagging"}, {<<"media">>})}

Hooks ==
  BillingHooks \union ApiKeyHooks \union BucketHooks \union TagHooks \union CategoryHooks
    \union SetHooks \union StoryboardHooks \union MediaHooks

(* A query hook: the key it caches under and what the client asks for it. *)
Query(name, key, reads) == [name |-> name, key |-> key, reads |-> reads]

AccountQueries ==
  {Query("buckets", <<"buckets">>, {"buckets", "objects"}),
   Query("apiKeys", <<"apiKeys">>, {"keys"}),
   Query("usage", <<"usage">>, {"capacity", "objects"}),
   Query("billing", <<"billing">>, {"plan", "auto", "capacity", "objects"})}

CatalogueQueries ==
  {Query("sets", <<"sets">>, {"sets", "items"}),
   Query("set", <<"sets", "id">>, {"items", "variants"}),
   Query("storyboards", <<"storyboards">>, {"storyboards", "clips"}),
   Query("storyboard", <<"storyboards", "id">>, {"clips", "order"}),
   Query("tags", <<"tags">>, {"tags", "tagging"}),
   Query("categories", <<"categories">>, {"categories", "filing"})}

LibraryQueries ==
  {Query("media", <<"media", "id">>, {"objects", "tagging", "filing"}),
   Query("library", <<"media-infinite">>, {"objects"})}

Queries == AccountQueries \union CatalogueQueries \union LibraryQueries

Concerns(m, k) == m.writes \intersect k.reads # {}

Refreshes(m, k) == \E prefix \in m.refreshes : IsPrefix(prefix, k.key)

(* The screens a mutation changes and leaves to the polling, the focus or    *)
(* the next visit after half a minute.                                       *)
LeftBehind ==
  {<<"addCapacity", "usage">>, <<"updateMedia", "tags">>,
   <<"addItem", "sets">>, <<"removeItem", "sets">>,
   <<"addClip", "storyboards">>, <<"removeClip", "storyboards">>}
    \union {<<"deleteMedia", k>> : k \in {"library", "buckets", "usage", "billing"}}

LeftOut(m, k) == <<m.name, k.name>> \in LeftBehind

-----------------------------------------------------------------------------
VARIABLES
  query,      \* the cached query the behaviour follows
  mounted,    \* a screen observes it
  shown,      \* its data: the mutations they reflect; none before the first load
  stale,      \* the entry is marked invalidated
  fetching,   \* the fetch under way: what the server read for it, if it has
  applied,    \* mutations the server has carried out
  open,       \* mutations sent and not answered
  answered,   \* mutations answered with success
  slipped,    \* answered while a fetch was under way that nothing cancels
  fails

vars == <<query, mounted, shown, stale, fetching, applied, open, answered, slipped, fails>>

(* At most one snapshot: the mutations carried out when the rows were read. *)
Nothing == {}
Snapshot == {applied}

Idle == [on |-> FALSE, read |-> Nothing]
Asked == [on |-> TRUE, read |-> Nothing]

TypeOK ==
  /\ query \in Queries /\ mounted \in BOOLEAN /\ stale \in BOOLEAN
  /\ \A read \in {shown, fetching.read} : Cardinality(read) <= 1 /\ UNION read \subseteq applied
  /\ fetching.on \in BOOLEAN /\ (fetching.read # Nothing => fetching.on)
  /\ answered \subseteq applied /\ slipped \subseteq answered
  /\ open \subseteq Hooks /\ open \intersect answered = {}
  /\ fails \in 0..MaxFails

Init ==
  /\ query \in Queries
  /\ mounted = TRUE /\ shown = Nothing /\ stale = FALSE /\ fetching = Asked
  /\ applied = {} /\ open = {} /\ answered = {} /\ slipped = {} /\ fails = 0

(* The server reads the rows; the answer arrives later. *)
Served ==
  /\ fetching = Asked
  /\ fetching' = [on |-> TRUE, read |-> Snapshot]
  /\ UNCHANGED <<query, mounted, shown, stale, applied, open, answered, slipped, fails>>

Lands ==
  /\ fetching.read # Nothing
  /\ shown' = fetching.read /\ fetching' = Idle /\ stale' = FALSE
  /\ UNCHANGED <<query, mounted, applied, open, answered, slipped, fails>>

(* The fetch and its one retry fail: the data stays, and is marked. *)
FetchFails ==
  /\ fetching.on /\ fails < MaxFails
  /\ fails' = fails + 1 /\ fetching' = Idle /\ stale' = TRUE
  /\ UNCHANGED <<query, mounted, shown, applied, open, answered, slipped>>

(* A poll, the focus of the window, or half a minute gone: joins a fetch     *)
(* under way.                                                                *)
Refetch ==
  /\ mounted /\ ~fetching.on
  /\ fetching' = Asked
  /\ UNCHANGED <<query, mounted, shown, stale, applied, open, answered, slipped, fails>>

Leave ==
  /\ mounted /\ mounted' = FALSE
  /\ UNCHANGED <<query, shown, stale, fetching, applied, open, answered, slipped, fails>>

(* A screen opened again shows what is cached, and fetches what is marked. *)
Return ==
  /\ ~mounted /\ mounted' = TRUE
  /\ fetching' = IF ~fetching.on /\ (stale \/ shown = Nothing) THEN Asked ELSE fetching
  /\ UNCHANGED <<query, shown, stale, applied, open, answered, slipped, fails>>

Mutate(m) ==
  /\ Concerns(m, query) /\ m \notin applied \union open /\ Cardinality(applied \union open) < MaxCalls
  /\ open' = open \union {m}
  /\ UNCHANGED <<query, mounted, shown, stale, fetching, applied, answered, slipped, fails>>

Applied(m) ==
  /\ m \in open \ applied
  /\ applied' = applied \union {m}
  /\ UNCHANGED <<query, mounted, shown, stale, fetching, open, answered, slipped, fails>>

(* onSuccess: the entries under the keys are marked, and those on screen are *)
(* fetched again. A first load under way, or a fetch nobody waits for any    *)
(* more, is left to run and lands over the mark.                             *)
Invalidated ==
  /\ stale' = TRUE
  /\ fetching' = IF mounted /\ (shown # Nothing \/ ~fetching.on) THEN Asked ELSE fetching

Answered(m) ==
  /\ m \in open \intersect applied
  /\ open' = open \ {m} /\ answered' = answered \union {m}
  /\ IF Refreshes(m, query)
     THEN /\ Invalidated
          /\ slipped' = IF fetching.on /\ (shown = Nothing \/ ~mounted)
                        THEN slipped \union {m} ELSE slipped
     ELSE UNCHANGED <<stale, fetching, slipped>>
  /\ UNCHANGED <<query, mounted, shown, applied, fails>>

(* An upload invalidates "media" too, though the dashboard confirms none and *)
(* it has written no row.                                                    *)
Uploaded ==
  /\ IsPrefix(<<"media">>, query.key)
  /\ Invalidated
  /\ UNCHANGED <<query, mounted, shown, applied, open, answered, slipped, fails>>

(* The answer is lost: no onSuccess, and a mutation is not retried. *)
AnswerLost(m) ==
  /\ m \in open \intersect applied
  /\ open' = open \ {m}
  /\ UNCHANGED <<query, mounted, shown, stale, fetching, applied, answered, slipped, fails>>

Next ==
  \/ Served \/ Lands \/ FetchFails \/ Refetch \/ Leave \/ Return \/ Uploaded
  \/ \E m \in Hooks : Mutate(m) \/ Applied(m) \/ Answered(m) \/ AnswerLost(m)

Spec == Init /\ [][Next]_vars

-----------------------------------------------------------------------------
(* A screen that is neither loading nor marked for loading shows every       *)
(* mutation the user was told had succeeded, however fetches, polls and      *)
(* mutations overlap: outside the screens LeftBehind names, and but for the  *)
(* answers that slipped in under a first load or a fetch of a screen left.   *)
AnsweredIsShown ==
  (mounted /\ shown # Nothing /\ ~stale /\ ~fetching.on) =>
    \A m \in answered \ slipped : LeftOut(m, query) \/ m \in UNION shown
=============================================================================
