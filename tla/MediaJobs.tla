----------------------------- MODULE MediaJobs -----------------------------
(***************************************************************************)
(* What happens to the content of one object after its upload is           *)
(* confirmed: a probe job writes its media_assets row and queues one job   *)
(* per derivative, each of which fetches the source again, converts it,    *)
(* puts the result under the derivative's fixed key and writes its row.    *)
(* The key can be overwritten, and the object deleted, at any time; jobs   *)
(* fail, are retried, and lose their worker.                               *)
(***************************************************************************)
EXTENDS Integers, FiniteSets

CONSTANTS
  Versions,     \* contents a client may upload; also the first 16 digits of their etags
  TypeOf,       \* the kind the content type of each names, or "unknown"
  Extension,    \* the kind the extension of the key names, or "other"
  Types,        \* the derivatives of the instance
  None,
  MaxPuts,      \* bound: uploads of the key
  MaxAttempts,  \* of a job, by the options of its queue
  MaxStalls,    \* how often a job may lose its worker
  MaxFaults     \* bound: calls that fail and workers that die

Kinds == {"image", "video", "audio", "pdf", "model3d", "other"}

MediaAssumption ==
  /\ TypeOf \in [Versions -> Kinds \cup {"unknown"}] /\ Extension \in Kinds
  /\ Types \subseteq {"thumbnail", "poster", "sprite"} /\ None \notin Versions
  /\ MaxPuts \in Nat /\ MaxAttempts \in Nat \ {0} /\ MaxStalls \in Nat /\ MaxFaults \in Nat

VARIABLES
  stored,   \* the version in the storage, or None
  row,      \* the etag of the objects row, or None
  deleted,  \* deleted_at is set
  assets,   \* media_assets: the kind, and the version whose measures it has
  bytes,    \* each derivative in storage: made of which version, cut by whose measures
  rows,     \* the types with a row of derivatives
  jobs,     \* the queues, by job id
  confirm,  \* the confirmation under way, and the version its HEAD found
  removal,  \* the DELETE under way, and the storage it has to remove
  puts, faults,
  calm,     \* history: the last upload came when nothing of the key was under way
  asked,    \* history: the probe of the last upload was accepted
  flawed,   \* history: a job was given up since the last upload
  touched   \* history: the DELETE met a derivative in the making or without a row,
            \*   or could not remove something

objectVars == <<stored, row, deleted>>
mediaVars == <<assets, bytes, rows>>
history == <<calm, asked, flawed, touched>>
vars == <<objectVars, mediaVars, jobs, confirm, removal, puts, faults, history>>

Ids == ({"probe"} \cup Types) \X Versions
NoJob == [at |-> "none", tries |-> 0, stalls |-> 0, kind |-> None, by |-> None, seen |-> None, todo |-> {}]
NoBytes == [of |-> None, by |-> None]

Init ==
  /\ stored = None /\ row = None /\ deleted = FALSE
  /\ assets = [kind |-> None, of |-> None]
  /\ bytes = [t \in Types |-> NoBytes] /\ rows = {}
  /\ jobs = [i \in Ids |-> NoJob]
  /\ confirm = [pc |-> "idle", ver |-> None] /\ removal = [pc |-> "idle", todo |-> {}]
  /\ puts = 0 /\ faults = 0
  /\ calm = FALSE /\ asked = FALSE /\ flawed = FALSE /\ touched = FALSE

Fault == faults < MaxFaults /\ faults' = faults + 1

\* What the content type says, else the extension.
Classify(v) == IF TypeOf[v] = "unknown" THEN Extension ELSE TypeOf[v]

\* What probeFile reports: it has no case for 3D models.
Probed(kind) == IF kind = "model3d" THEN "other" ELSE kind

Wanted(kind) == Types \cap (CASE kind = "image" -> {"thumbnail"}
                              [] kind = "video" -> {"thumbnail", "poster", "sprite"}
                              [] OTHER -> {})

Pending == {i \in Ids : jobs[i].at \notin {"none", "done", "failed"}}
Active == {i \in Pending : jobs[i].at # "waiting"}
Making == {i \in Active : i[1] # "probe"}

-----------------------------------------------------------------------------
(* The queue *)

Set(i, job) == jobs' = [jobs EXCEPT ![i] = job]

\* A job whose id the queue still knows, in whatever state, is not added.
WithJob(js, i, data) ==
  IF js[i].at = "none"
  THEN [js EXCEPT ![i] = [NoJob EXCEPT !.at = "waiting", !.kind = data.kind, !.by = data.by]]
  ELSE js

\* A throw: the attempts that are left are made from the start.
Retried(job) ==
  IF job.tries + 1 < MaxAttempts
  THEN [job EXCEPT !.at = "waiting", !.tries = @ + 1, !.seen = None, !.todo = {}]
  ELSE [job EXCEPT !.at = "failed", !.seen = None, !.todo = {}]

Throw(i) ==
  /\ Set(i, Retried(jobs[i]))
  /\ flawed' = (flawed \/ Retried(jobs[i]).at = "failed")

Fails(i) ==
  /\ i \in Pending /\ Fault /\ Throw(i)
  /\ UNCHANGED <<objectVars, mediaVars, confirm, removal, puts, calm, asked, touched>>

\* The worker's process ends: its jobs stall and are given to the next one.
WorkerDies ==
  /\ Active # {} /\ Fault
  /\ LET Lost(job) == [job EXCEPT !.at = IF job.stalls < MaxStalls THEN "waiting" ELSE "failed",
                                  !.stalls = @ + 1, !.seen = None, !.todo = {}]
     IN  /\ jobs' = [i \in Ids |-> IF i \in Active THEN Lost(jobs[i]) ELSE jobs[i]]
         /\ flawed' = (flawed \/ \E i \in Active : Lost(jobs[i]).at = "failed")
  /\ UNCHANGED <<objectVars, mediaVars, confirm, removal, puts, calm, asked, touched>>

\* removeOnComplete after an hour, removeOnFail after days.
Forget(i) ==
  /\ jobs[i].at \in {"done", "failed"} /\ Set(i, NoJob)
  /\ UNCHANGED <<objectVars, mediaVars, confirm, removal, puts, faults, history>>

-----------------------------------------------------------------------------
(* The client and the API *)

Put(v) ==
  /\ puts < MaxPuts /\ ~deleted /\ removal.pc = "idle"
  /\ puts' = puts + 1 /\ stored' = v
  /\ calm' = (Pending = {} /\ confirm.pc = "idle" /\ \A i \in Ids : i[2] = v => jobs[i].at = "none")
  /\ asked' = FALSE /\ flawed' = FALSE
  /\ UNCHANGED <<row, deleted, mediaVars, jobs, confirm, removal, faults, touched>>

\* Bound: an upload is confirmed until its probe is accepted.
Head ==
  /\ confirm.pc = "idle" /\ stored # None /\ ~deleted /\ ~asked
  /\ confirm' = [pc |-> "commit", ver |-> stored]
  /\ UNCHANGED <<objectVars, mediaVars, jobs, removal, puts, faults, history>>

\* Bound: what a confirmation that outlives the object does to the key's next object.
Commit ==
  /\ confirm.pc = "commit"
  /\ \/ ~deleted /\ row' = confirm.ver /\ confirm' = [confirm EXCEPT !.pc = "enqueue"]
     \/ deleted /\ UNCHANGED row /\ confirm' = [pc |-> "idle", ver |-> None]
  /\ UNCHANGED <<stored, deleted, mediaVars, jobs, removal, puts, faults, history>>

EnqueueProbe ==
  /\ confirm.pc = "enqueue" /\ confirm' = [pc |-> "idle", ver |-> None]
  /\ \/ /\ jobs' = WithJob(jobs, <<"probe", confirm.ver>>, [kind |-> Classify(confirm.ver), by |-> None])
        /\ asked' = (asked \/ confirm.ver = stored)
        /\ UNCHANGED faults
     \/ Fault /\ UNCHANGED <<jobs, asked>>
  /\ UNCHANGED <<objectVars, mediaVars, removal, puts, calm, flawed, touched>>

\* Derivatives whose job threw between the PUT and the row.
Unrecorded == {t \in Types \ rows : bytes[t] # NoBytes}

\* DELETE reads the keys of the derivatives before its transaction.
DeleteRead ==
  /\ row # None /\ ~deleted /\ removal.pc = "idle"
  /\ removal' = [pc |-> "tx", todo |-> rows] /\ touched' = (Making # {} \/ Unrecorded # {})
  /\ UNCHANGED <<objectVars, mediaVars, jobs, confirm, puts, faults, calm, asked, flawed>>

DeleteRows ==
  /\ removal.pc = "tx" /\ removal' = [removal EXCEPT !.pc = "source"]
  /\ deleted' = TRUE /\ rows' = {}
  /\ UNCHANGED <<stored, row, assets, bytes, jobs, confirm, puts, faults, history>>

DeleteSource ==
  /\ removal.pc = "source" /\ removal' = [removal EXCEPT !.pc = "derived"]
  /\ \/ stored' = None /\ UNCHANGED <<faults, touched>>
     \/ Fault /\ touched' = TRUE /\ UNCHANGED stored
  /\ UNCHANGED <<row, deleted, mediaVars, jobs, confirm, puts, calm, asked, flawed>>

DeleteDerived(t) ==
  /\ removal.pc = "derived" /\ t \in removal.todo
  /\ removal' = [removal EXCEPT !.todo = @ \ {t}]
  /\ \/ bytes' = [bytes EXCEPT ![t] = NoBytes] /\ UNCHANGED <<faults, touched>>
     \/ Fault /\ touched' = TRUE /\ UNCHANGED bytes
  /\ UNCHANGED <<objectVars, assets, rows, jobs, confirm, puts, calm, asked, flawed>>

DeleteAnswer ==
  /\ removal.pc = "derived" /\ removal.todo = {} /\ removal' = [removal EXCEPT !.pc = "done"]
  /\ UNCHANGED <<objectVars, mediaVars, jobs, confirm, puts, faults, history>>

-----------------------------------------------------------------------------
(* Every job begins by fetching the source, whatever version that is. *)

Fetch(i) ==
  /\ jobs[i].at = "waiting"
  /\ \/ stored # None /\ Set(i, [jobs[i] EXCEPT !.at = "fetched", !.seen = stored]) /\ UNCHANGED flawed
     \/ stored = None /\ Throw(i)
  /\ touched' = (touched \/ (i[1] # "probe" /\ removal.pc # "idle" /\ stored # None))
  /\ UNCHANGED <<objectVars, mediaVars, confirm, removal, puts, faults, calm, asked>>

\* An image is read by sharp, which throws on anything else; the tools for
\* video take what they are given.
Readable(i) == jobs[i].kind = "image" => Classify(jobs[i].seen) = "image"

ProbeWrites(i) ==
  /\ i[1] = "probe" /\ jobs[i].at = "fetched"
  /\ \/ /\ Readable(i) /\ assets' = [kind |-> Probed(jobs[i].kind), of |-> jobs[i].seen]
        /\ Set(i, [jobs[i] EXCEPT !.at = "probed"]) /\ UNCHANGED flawed
     \/ ~Readable(i) /\ Throw(i) /\ UNCHANGED assets
  /\ UNCHANGED <<objectVars, bytes, rows, confirm, removal, puts, faults, calm, asked, touched>>

\* Mutant: the job ids name the object only, as they did before W6.
BareJobId(i) == CHOOSE v \in Versions : TRUE

\* The etag of the row, as it is now, names the jobs this probe will queue.
JobVersion(i) == row

ProbeReads(i) ==
  /\ i[1] = "probe" /\ jobs[i].at = "probed"
  /\ Set(i, [jobs[i] EXCEPT !.at = "enqueue",
                            !.todo = {<<t, JobVersion(i)>> : t \in Wanted(Probed(jobs[i].kind))}])
  /\ UNCHANGED <<objectVars, mediaVars, confirm, removal, puts, faults, history>>

ProbeEnqueues(i) ==
  /\ jobs[i].at = "enqueue"
  /\ \E k \in jobs[i].todo :
       jobs' = WithJob([jobs EXCEPT ![i].todo = @ \ {k}], k,
                       [kind |-> Probed(jobs[i].kind), by |-> jobs[i].seen])
  /\ UNCHANGED <<objectVars, mediaVars, confirm, removal, puts, faults, history>>

\* The search index, whose row is in Catalogue, and the audit log.
ProbeEnds(i) ==
  /\ jobs[i].at = "enqueue" /\ jobs[i].todo = {}
  /\ Set(i, [jobs[i] EXCEPT !.at = "done", !.seen = None])
  /\ UNCHANGED <<objectVars, mediaVars, confirm, removal, puts, faults, history>>

Stores(i, result) ==
  /\ bytes' = [bytes EXCEPT ![i[1]] = result]
  /\ Set(i, [jobs[i] EXCEPT !.at = "stored"]) /\ UNCHANGED flawed

\* Of a picture by its own measures; of a clip the frame at 0.1 s.
Thumbnail(i) ==
  /\ i[1] = "thumbnail" /\ jobs[i].at = "fetched"
  /\ \/ Readable(i) /\ Stores(i, [of |-> jobs[i].seen, by |-> jobs[i].seen])
     \/ ~Readable(i) /\ Throw(i) /\ UNCHANGED bytes

\* The frame at a tenth of the duration the job was given.
Poster(i) ==
  i[1] = "poster" /\ jobs[i].at = "fetched" /\ Stores(i, [of |-> jobs[i].seen, by |-> jobs[i].by])

\* Ten frames spread over the duration the job was given.
Sprite(i) ==
  i[1] = "sprite" /\ jobs[i].at = "fetched" /\ Stores(i, [of |-> jobs[i].seen, by |-> jobs[i].by])

Convert(i) ==
  /\ Thumbnail(i) \/ Poster(i) \/ Sprite(i)
  /\ UNCHANGED <<objectVars, assets, rows, confirm, removal, puts, faults, calm, asked, touched>>

WriteRow(i) ==
  /\ jobs[i].at = "stored" /\ Set(i, [jobs[i] EXCEPT !.at = "done", !.seen = None])
  /\ rows' = rows \cup {i[1]}
  /\ UNCHANGED <<objectVars, assets, bytes, confirm, removal, puts, faults, history>>

-----------------------------------------------------------------------------
Works(i) ==
  \/ Fetch(i) \/ ProbeWrites(i) \/ ProbeReads(i) \/ ProbeEnqueues(i) \/ ProbeEnds(i)
  \/ Convert(i) \/ WriteRow(i)

Confirms == Head \/ Commit \/ EnqueueProbe
Deletes == DeleteRead \/ DeleteRows \/ DeleteSource \/ (\E t \in Types : DeleteDerived(t)) \/ DeleteAnswer

Next ==
  \/ \E v \in Versions : Put(v)
  \/ Confirms \/ Deletes \/ WorkerDies
  \/ \E i \in Ids : Works(i) \/ Fails(i) \/ Forget(i)

Spec == Init /\ [][Next]_vars

\* Workers take the jobs that wait and go on with those they have.
Fairness == WF_vars(\E i \in Ids : Works(i))

FairSpec == Spec /\ Fairness

-----------------------------------------------------------------------------
TypeOK ==
  /\ stored \in Versions \cup {None} /\ row \in Versions \cup {None} /\ deleted \in BOOLEAN
  /\ assets.kind \in Kinds \cup {None} /\ assets.of \in Versions \cup {None}
  /\ bytes \in [Types -> [of : Versions \cup {None}, by : Versions \cup {None}]]
  /\ rows \subseteq Types
  /\ \A i \in Ids : /\ jobs[i].at \in {"none", "waiting", "fetched", "probed", "enqueue", "stored", "done", "failed"}
                    /\ jobs[i].tries < MaxAttempts /\ jobs[i].stalls <= MaxStalls + 1
                    /\ jobs[i].todo \subseteq Ids
                    /\ (i \in Active) = (jobs[i].seen # None)

\* What the dashboard shows of an object: its thumbnail, else its poster.
Preview == IF "thumbnail" \in rows THEN "thumbnail" ELSE "poster"

\* A preview the API hands out a link to is in the storage: the row is written
\* after the bytes, and a deletion takes the row first.
PreviewIsServed ==
  (~deleted /\ rows \cap {"thumbnail", "poster"} # {}) => bytes[Preview].of # None

Complete ==
  /\ row # None
  /\ assets = [kind |-> Probed(Classify(row)), of |-> row]
  /\ \A t \in Wanted(assets.kind) : t \in rows /\ bytes[t] = [of |-> row, by |-> row]

\* An overwrite regenerates (W6): once the queue is empty, the measures and
\* every derivative are of the version the row names - if that upload came when
\* nothing of the key was under way and no job of that very content was still
\* known, and no job was given up since.
OverwriteRegenerates ==
  (calm /\ asked /\ ~flawed /\ ~deleted /\ stored = row /\ Pending = {}) => Complete

\* ... and the queue gets there.
EventuallyComplete ==
  []<>((calm /\ asked) => (Complete \/ flawed \/ removal.pc # "idle"))

\* A deletion leaves nothing to be billed or served: when it was answered and
\* the queue is empty, no derivative has a row or bytes and the source is gone,
\* unless one was in the making or unrecorded then, or a removal failed.
DeletedLeavesNothing ==
  (removal.pc = "done" /\ ~touched /\ Pending = {}) =>
    rows = {} /\ stored = None /\ \A t \in Types : bytes[t] = NoBytes

\* Every job ends, also those whose source is gone.
JobsSettle == []<>(Pending = {})
=============================================================================
