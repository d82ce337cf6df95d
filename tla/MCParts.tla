------------------------------ MODULE MCParts -------------------------------
(* What runs beside the requests: the media jobs of an object (overwritten, *)
(* or deleted), the nightly comparison of database and storage, the         *)
(* migrations of a release, the worker process itself.  And what a tenant   *)
(* does in the dashboard: it moves or adds the clips of a storyboard,       *)
(* generates the variants of its sets, uploads files, scrolls its library.  *)
(* They share no state that is modelled: one of them runs, the one in part; *)
(* the others stay where they start.                                        *)
EXTENDS TLC, Integers

CONSTANTS
  Machines,  \* those a run is about
  None, MaxAttempts, MaxStalls, MaxFaults,
  picture1, picture2, recording, clip, Extension, MaxPuts,
  \* of the media: the contents, those that overwrite one another, the derivatives
  Versions, Overwriting, TypeOf, Types,
  b1, b2, x, y, z, MaxEvents,
  old, new, hot, Absent, Unsummed, MaxCrashes,
  MaxStops,
  \* of the drift report, of the migrations, and of the process
  Pages, Runners, Release, Texts, Jobs,
  o1, o2, o3, setA, setB, photo, song, wide,
  \* of the storyboard: its clips at first, those added, and what is there when they are
  FirstClips, New, AddedTo, Editors, Offset, MaxMoves, MaxAlien, MaxPlace,
  \* of the sets: their items, those there at first, the objects probed at first
  Items, FirstItems, FirstProbed, Doors, SetOf, ObjectOf, AspectOf, Asked, KindOf, Source,
  MaxCalls, MaxRemovals,
  \* of the uploads, and of the list of the library
  Uploaded, Small, PartCount, PartConcurrency, MaxRetries, MaxStarts, MaxFailures,
  FirstFiles, Limit, MaxPages, MaxChanges, MaxFails

\* Two pictures and a recording; the clip is told by its extension.
MCTypeOf == picture1 :> "image" @@ picture2 :> "image" @@ recording :> "audio" @@ clip :> "unknown"

\* A bucket of two pages and one of one page.
MCPages == b1 :> << {x}, {y} >> @@ b2 :> << {z} >>

\* A release, the next one, and one with an edited file.
MCRelease == old :> <<"a", "a">> @@ new :> <<"a", "a", "a">> @@ hot :> <<"a", "b">>

MCStart == <<o1, o2, o3>>

\* A photo in two sets, at one aspect ratio, once wider than it is; a song.
MCSetOf == (1 :> setA) @@ (2 :> setA) @@ (3 :> setB)
MCObjectOf == (1 :> photo) @@ (2 :> song) @@ (3 :> photo)
MCAspectOf == (1 :> wide) @@ (2 :> wide) @@ (3 :> wide)
MCAsked == (1 :> 4) @@ (2 :> 1) @@ (3 :> 2)
MCKindOf == (photo :> "image") @@ (song :> "audio")

VARIABLES
  part,
  stored, row, deleted, assets, bytes, rows, jobs, confirm, removal, puts, faults, calm, asked, flawed, touched,
  found, live, kind, at, bucket, page, todo, listed, seen, sum, failed, report, moved, events, refused,
  record, effects, lock, pooled, runner, crashes,
  stage, exit, task, stalls, tries, running, alive, stops,
  place, hidden, view, tx, batch, adding, moves, alien, known, alone,
  sets, widths, status, gone, probed, queue, generations, made, count, broken, removals, answered, early, renders,
  upload, starts, cancelled, aborted, flying, next, recorded, landed, debris, object, sending, onScreen, failures, blamed,
  files, newest, pages, fetch, changed, inView, armed, missed

\* A picture overwritten by another one or by a recording, and a clip that
\* is deleted.
Media == INSTANCE MediaJobs

Drift == INSTANCE DriftReport WITH
  stored <- found, rows <- listed, touched <- moved, faults <- refused

Deploying == INSTANCE Migrations WITH run <- runner

Working == INSTANCE WorkerLifecycle WITH job <- task, attempts <- tries

Storyboard == INSTANCE Storyboards WITH Start <- FirstClips

Arranging == INSTANCE Sets WITH rows <- widths, calls <- generations, faults <- broken

\* Large files and small ones.
Sending == INSTANCE Uploads WITH
  Files <- Uploaded, MaxFaults <- MaxFailures, at <- upload, active <- sending, mounted <- onScreen, faults <- failures

Library == INSTANCE InfiniteList WITH
  Screen <- "library", Files <- FirstFiles, rows <- files, fails <- missed

ASSUME PartsAssumption ==
  Machines \subseteq {"overwrite", "delete", "drift", "migrations", "process", "moves", "adds", "sets", "uploads", "library"}
ASSUME MediaAssumption ==
  Media!MediaAssumption /\ Overwriting \subseteq Versions /\ {picture1, clip} \subseteq Versions
ASSUME DriftAssumption == Drift!DriftAssumption
ASSUME MigrationsAssumption == Deploying!MigrationsAssumption
ASSUME LifecycleAssumption == Working!LifecycleAssumption
ASSUME StoryboardsAssumption == Storyboard!StoryboardsAssumption
ASSUME SetsAssumption == Arranging!SetsAssumption
ASSUME UploadsAssumption == Sending!UploadsAssumption
ASSUME InfiniteListAssumption == Library!InfiniteListAssumption

mediaVars == <<stored, row, deleted, assets, bytes, rows, jobs, confirm, removal, puts, faults,
               calm, asked, flawed, touched>>
driftVars == <<found, live, kind, at, bucket, page, todo, listed, seen, sum, failed, report, moved, events, refused>>
migrationVars == <<record, effects, lock, pooled, runner, crashes>>
processVars == <<stage, exit, task, stalls, tries, running, alive, stops>>
besideVars == <<mediaVars, driftVars, migrationVars, processVars>>
storyVars == <<place, hidden, view, tx, batch, adding, moves, alien, known, alone>>
setVars == <<sets, widths, status, gone, probed, queue, generations, made, count, broken, removals, answered, early, renders>>
sendingVars == <<upload, starts, cancelled, aborted, flying, next, recorded, landed, debris, object,
                 sending, onScreen, failures, blamed>>
listVars == <<files, newest, pages, fetch, changed, inView, armed, missed>>
dashboardVars == <<storyVars, setVars, sendingVars, listVars>>
vars == <<part, besideVars, dashboardVars>>

\* A part that does not run starts in one state.
Rests(p, still) == part = p \/ still

\* Moves need clips, adds fewer of them.
Init ==
  /\ part \in Machines
  /\ Media!Init
  /\ Drift!Init /\ Rests("drift", found = {} /\ live = {} /\ kind = "keys")
  /\ Deploying!Init /\ Rests("migrations", ~pooled /\ record[1] = Absent)
  /\ Working!Init
  /\ Storyboard!Init
  /\ Storyboard!Live \in IF part = "moves" THEN {Storyboard!Old} ELSE IF part = "adds" THEN AddedTo ELSE {{}}
  /\ Arranging!Init /\ Arranging!present = FirstItems
  /\ probed \in IF part = "sets" THEN FirstProbed ELSE {{}}
  /\ Sending!Init
  /\ Library!Init

Overwrites ==
  \/ \E v \in Overwriting : (puts = 0 => v = picture1) /\ Media!Put(v)
  \/ Media!Confirms \/ Media!WorkerDies
  \/ \E i \in Media!Ids : Media!Works(i) \/ Media!Fails(i) \/ Media!Forget(i)

Deletion ==
  \/ puts = 0 /\ Media!Put(clip)
  \/ Media!Confirms \/ Media!Deletes
  \/ \E i \in Media!Ids : Media!Works(i) \/ (i[1] = "poster" /\ Media!Fails(i))

Moving ==
  \/ \E e \in Editors : Storyboard!Load(e) \/ Storyboard!Move(e) \/ Storyboard!Requests(e)
  \/ Storyboard!PutClip \/ Storyboard!DeleteClip \/ Storyboard!Hide

Adding ==
  \/ \E e \in Editors :
       \/ Storyboard!Load(e) \/ Storyboard!AddClips(e) \/ Storyboard!Requests(e)
       \/ moves = 0 /\ Storyboard!Move(e)
  \/ Storyboard!Asks \/ Storyboard!Gets

Beside ==
  \/ part = "overwrite" /\ Overwrites
     /\ UNCHANGED <<driftVars, migrationVars, processVars>>
  \/ part = "delete" /\ Deletion
     /\ UNCHANGED <<driftVars, migrationVars, processVars>>
  \/ part = "drift" /\ Drift!Next
     /\ UNCHANGED <<mediaVars, migrationVars, processVars>>
  \/ part = "migrations" /\ Deploying!Next
     /\ UNCHANGED <<mediaVars, driftVars, processVars>>
  \/ part = "process" /\ Working!Next
     /\ UNCHANGED <<mediaVars, driftVars, migrationVars>>

Dashboard ==
  \/ part = "moves" /\ Moving /\ UNCHANGED <<setVars, sendingVars, listVars>>
  \/ part = "adds" /\ Adding /\ UNCHANGED <<setVars, sendingVars, listVars>>
  \/ part = "sets" /\ Arranging!Next /\ UNCHANGED <<storyVars, sendingVars, listVars>>
  \/ part = "uploads" /\ Sending!Next /\ UNCHANGED <<storyVars, setVars, listVars>>
  \/ part = "library" /\ Library!Next /\ UNCHANGED <<storyVars, setVars, sendingVars>>

Next ==
  /\ UNCHANGED part
  /\ \/ Beside /\ UNCHANGED dashboardVars
     \/ Dashboard /\ UNCHANGED besideVars

\* The fairness of the modules, each while its part runs.
Fairness ==
  /\ WF_mediaVars(part \in {"overwrite", "delete"} /\ \E i \in Media!Ids : Media!Works(i))
  /\ WF_migrationVars(part = "migrations" /\ \E r \in Runners : Deploying!Works(r))
  /\ WF_processVars(part = "process" /\ Working!Goes)
  /\ WF_storyVars(part = "adds" /\ Storyboard!Gets)
  /\ \A e \in Editors : WF_storyVars(part \in {"moves", "adds"} /\ Storyboard!Requests(e))
  /\ WF_setVars(part = "sets" /\ (Arranging!Render \/ Arranging!GiveUp))
  /\ \A d \in Doors : WF_setVars(part = "sets" /\ Arranging!Works(d))
  /\ \A f \in Uploaded : WF_sendingVars(part = "uploads" /\ Sending!Upload(f))
  /\ WF_listVars(part = "library" /\ (Library!Counts \/ Library!Reads))
  /\ WF_listVars(part = "library" /\ Library!SentinelSeen)

Spec == Init /\ [][Next]_vars /\ Fairness

-----------------------------------------------------------------------------
\* Derivatives follow their object: a preview with a link is in the storage, an
\* overwrite regenerates everything, a deletion leaves nothing (MediaJobs).
MediaFollows ==
  part \in {"overwrite", "delete"} =>
    Media!TypeOK /\ Media!PreviewIsServed /\ Media!OverwriteRegenerates /\ Media!DeletedLeavesNothing

\* The drift report names the keys of one side only and never takes an
\* incomplete total for drift (DriftReport); a job keeps its database while it
\* runs, and a shutdown leaves no ffmpeg behind (WorkerLifecycle).
ProcessHolds ==
  /\ part = "drift" => Drift!TypeOK /\ Drift!ReportIsTrue /\ Drift!TotalIsWhole
  /\ part = "process" => Working!TypeOK /\ Working!JobsKeepTheirDb /\ Working!NoChildLeft

\* A file of a release takes effect once and is then on record, none before an
\* earlier one, and a run that ended well leaves its release on record
\* (Migrations).
ReleasesHold ==
  part = "migrations" =>
    Deploying!TypeOK /\ Deploying!AppliedOnce /\ Deploying!InOrder /\ Deploying!DoneIsApplied

\* The derivatives of the last upload become complete and the queue empty
\* (MediaJobs); a migration ends and does not keep the lock (Migrations); every
\* job ends, whatever is stopped (WorkerLifecycle).
WorkEnds ==
  /\ Media!EventuallyComplete /\ Media!JobsSettle
  /\ []<>(part = "migrations" => Deploying!Ended) /\ []<>(part = "process" => Working!Ended)

\* Editors who overlap: the move of a page that is up to date goes through, and
\* clips added together come last and in their order (Storyboards); a variant is
\* what an item asked, made to fit, and is rendered once however often it is
\* asked for (Sets).
EditsHold ==
  /\ part \in {"moves", "adds"} => Storyboard!TypeOK /\ Storyboard!CurrentViewMoves /\ Storyboard!AddsAppend
  /\ part = "sets" => Arranging!TypeOK /\ Arranging!GeneratedFits /\ Arranging!RendersOnce

\* An uploaded file is whole or not there, a cancel stops one file only
\* (Uploads), and the list of the library is whole unless files come and go
\* (InfiniteList).
FilesHold ==
  /\ part = "uploads" => Sending!TypeOK /\ Sending!WholeOrNothing /\ Sending!CancelsOnlyItself
  /\ part = "library" => Library!TypeOK /\ Library!ListIsWhole

\* What is asked is what is done: a reorder that succeeds has put its whole
\* order in place (Storyboards), a cancelled file sends no further part (Uploads).
EditsTakeEffect == Storyboard!MoveTakesEffect /\ Sending!CancelStops

\* What is begun ends: every move is answered (Storyboards); what was said to be
\* enqueued is settled (Sets); every upload ends (Uploads); a list whose end is
\* in view goes on loading (InfiniteList).
EditsEnd ==
  /\ Storyboard!MovesEnd
  /\ Arranging!EnqueuedIsSettled
  /\ Sending!UploadsEnd
  /\ Library!EndInViewLoads
=============================================================================
