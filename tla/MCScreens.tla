------------------------------ MODULE MCScreens ------------------------------
(* What a tenant sees: the tags of an object and what the searches find by   *)
(* them, the search screen, the endless list of its results, the cached      *)
(* queries, the library's ticks, the links of files and thumbnails, the      *)
(* secrets of the API keys, the panel of auto-capacity, and the session they *)
(* all need.  They share no state that is modelled: one of them runs, the    *)
(* one in part; the others stay where they start.                            *)
EXTENDS TLC, Integers, Sequences

CONSTANTS
  None,
  Names, SlugOf, Notes, MaxTags, MaxCalls, MaxFails,   \* tags and metadata
  Requests, MaxTokens, MaxFaults,                      \* the session
  Texts, Items, FoundBy, TagsOf, KindOf,               \* the search
  Hits, Limit, MaxPages, MaxChanges,                   \* its list, and the files in it
  Defaults, Settings, Offered, MaxSaves, MaxEdits, MaxLost,   \* the panel
  Files, Buckets, Later, BucketOf, MaxDeletes,         \* the library
  MaxTime, MaxDelay,                                   \* links
  Keys, Old, MaxRequests                               \* keys and their secrets

VARIABLES
  part,
  tags, born, labels, note, index, deleted, drawer, calls, owed, unmet, cut,
  issued, owner, revoked, expired, jar, out, request, faults,
  typed, searched, chosen, options, wanted, asked, cache,
  files, newest, pages, fetch, changed, inView, armed, missed,
  query, mounted, shown, stale, fetching, applied, open, answered, slipped, fails,
  stored, form, edited, unsaved, data, marked, loading, saves, edits, lost, carried, kept,
  live, buckets, bucket, loaded, selected, sheet, deletes, gone, jumped, unseen,
  kind, now, made, link, signing, viewing, left, looked, failed, failures,
  status, secret, minted, listed, creating, requests, dialog, saved, others, foreign, hasty

\* Two names of one slug, and one that is its own.
MCSlugOf == "sea" :> "sea" @@ "c++" :> "c" @@ "c#" :> "c"

\* Two texts, one of which finds one of two files, the tagged one.
MCFoundBy == "clip" :> {"sea", "sun"} @@ "photo" :> {"sea"}
MCTagsOf == "clip" :> {"red"} @@ "photo" :> {}
MCKindOf == "clip" :> "image" @@ "photo" :> "image"

\* An org as it is set up, and one whose settings the panel has saved.
AutoSettings(enabled, gb, pct, cap) == [enabled |-> enabled, gb |-> gb, pct |-> pct, cap |-> cap]
MCDefaults == AutoSettings(TRUE, 100, 80, 50)
MCSettings == {AutoSettings(FALSE, 10, 80, 0), AutoSettings(TRUE, 100, 50, 20)}
MCOffered == [gb |-> {50}, pct |-> {50}, cap |-> {0, 20}]

\* Two files of one of two buckets.
MCBucketOf == [f \in Files |-> "a"]

Labelling == INSTANCE Tagging WITH alone <- unmet

Browser == INSTANCE Session

Searching == INSTANCE SearchScreen WITH query <- searched, active <- chosen

Results == INSTANCE InfiniteList WITH Screen <- "search", Files <- Hits, rows <- files, fails <- missed

Cached == INSTANCE QueryCache

Panel == INSTANCE AutoCapacity WITH stale <- marked, fetching <- loading

Library == INSTANCE LibraryScreen WITH chosen <- bucket, drawer <- sheet, lost <- gone

Previews == INSTANCE PreviewLinks WITH
  data <- link, fetching <- signing, mounted <- viewing, missed <- failed, fails <- failures

Secrets == INSTANCE OneTimeSecrets WITH
  MaxCalls <- MaxRequests, form <- creating, calls <- requests, lost <- others

ASSUME LabellingAssumption == Labelling!TaggingAssumption
ASSUME BrowserAssumption == Browser!SessionAssumption
ASSUME SearchingAssumption == Searching!SearchAssumption
ASSUME ResultsAssumption == Results!InfiniteListAssumption
ASSUME CachedAssumption == Cached!QueryCacheAssumption
ASSUME PanelAssumption == Panel!AutoCapacityAssumption
ASSUME LibraryScreenAssumption == Library!LibraryAssumption
ASSUME PreviewsAssumption == Previews!LinksAssumption
ASSUME KeysAssumption == Secrets!SecretsAssumption

tagVars == <<tags, born, labels, note, index, deleted, drawer, calls, owed, unmet, cut>>
sessionVars == <<issued, owner, revoked, expired, jar, out, request, faults>>
searchVars == <<typed, searched, chosen, options, wanted, asked, cache>>
listVars == <<files, newest, pages, fetch, changed, inView, armed, missed>>
cacheVars == <<query, mounted, shown, stale, fetching, applied, open, answered, slipped, fails>>
panelVars == <<stored, form, edited, unsaved, data, marked, loading, saves, edits, lost, carried, kept>>
libraryVars == <<live, buckets, bucket, loaded, selected, sheet, deletes, gone, jumped, unseen>>
linkVars == <<kind, now, made, link, signing, viewing, left, looked, failed, failures>>
secretVars == <<status, secret, minted, listed, creating, requests, dialog, saved, others, foreign, hasty>>

screenVars == <<tagVars, sessionVars, searchVars, listVars, cacheVars, panelVars>>
moreVars == <<libraryVars, linkVars, secretVars>>

Init ==
  /\ part \in {"tags", "session", "search", "results", "cache", "panel", "library", "links", "secrets"}
  /\ Labelling!Init /\ Browser!Init /\ Searching!Init /\ Results!Init
  /\ Cached!Init /\ (part = "cache" \/ query.name = "tags")
  /\ Panel!Init /\ (part = "panel" \/ stored.enabled)
  /\ Library!Init /\ (part = "library" \/ Head(buckets) = "a")
  /\ Previews!Init /\ (part = "links" \/ kind = "media")
  /\ Secrets!Init

Next ==
  /\ UNCHANGED part
  /\ \/ /\ part = "tags" /\ Labelling!Next
        /\ UNCHANGED <<sessionVars, searchVars, listVars, cacheVars, panelVars, moreVars>>
     \/ /\ part = "session" /\ Browser!Next
        /\ UNCHANGED <<tagVars, searchVars, listVars, cacheVars, panelVars, moreVars>>
     \/ /\ part = "search" /\ Searching!Next
        /\ UNCHANGED <<tagVars, sessionVars, listVars, cacheVars, panelVars, moreVars>>
     \/ /\ part = "results" /\ Results!Next
        /\ UNCHANGED <<tagVars, sessionVars, searchVars, cacheVars, panelVars, moreVars>>
     \/ /\ part = "cache" /\ Cached!Next
        /\ UNCHANGED <<tagVars, sessionVars, searchVars, listVars, panelVars, moreVars>>
     \/ /\ part = "panel" /\ Panel!Next
        /\ UNCHANGED <<tagVars, sessionVars, searchVars, listVars, cacheVars, moreVars>>
     \/ /\ part = "library" /\ Library!Next
        /\ UNCHANGED <<screenVars, linkVars, secretVars>>
     \/ /\ part = "links" /\ Previews!Next
        /\ UNCHANGED <<screenVars, libraryVars, secretVars>>
     \/ /\ part = "secrets" /\ Secrets!Next
        /\ UNCHANGED <<screenVars, libraryVars, linkVars>>

Spec == Init /\ [][Next]_<<part, screenVars, moreVars>>

-----------------------------------------------------------------------------
\* Labels lead to their objects: names end as the tags of those names whoever
\* made them, an edit nobody met stores what its drawer shows, the search entry
\* is the one of the labels of now, and the three searches agree (Tagging).
LabelsHold ==
  part = "tags" =>
    /\ Labelling!TypeOK /\ Labelling!TaggersConverge /\ Labelling!DrawerIsStored
    /\ Labelling!IndexIsCurrent /\ Labelling!SearchesAgree

\* What is on screen is what is stored: the search shows what its present text
\* finds (SearchScreen), its list is whole unless files come and go
\* (InfiniteList), mutations that were answered are shown (QueryCache), the
\* panel saves what was edited and shows what is stored (AutoCapacity), what
\* the library deletes is what was ticked on screen, and leaves it
\* (LibraryScreen), links work when looked at and thumbnails appear
\* (PreviewLinks), the secret of a key is shown and works (OneTimeSecrets), and
\* no session is lost that the user did not end (Session).
ScreensHold ==
  /\ part = "search" => Searching!TypeOK /\ Searching!AnswersItsText
  /\ part = "results" => Results!TypeOK /\ Results!ListIsWhole
  /\ part = "cache" => Cached!TypeOK /\ Cached!AnsweredIsShown
  /\ part = "panel" => Panel!TypeOK /\ Panel!SavesOnlyEdits /\ Panel!PanelIsStored
  /\ part = "library" =>
       Library!TypeOK /\ Library!BulkIsOnScreen /\ Library!AskedAreGone /\ Library!DeletedLeaves
  /\ part = "links" => Previews!TypeOK /\ Previews!LinkLasts /\ Previews!ThumbnailAppears
  /\ part = "secrets" => Secrets!TypeOK /\ Secrets!ShownSecretWorks /\ Secrets!NoSecretIsLost
  /\ part = "session" => Browser!TypeOK /\ Browser!SessionsLast
=============================================================================
