------------------------------ MODULE Uploads -------------------------------
(***************************************************************************)
(* The uploads of the dashboard: one hook serves every file of the page.   *)
(* A small file is one PUT; a large one is a multipart upload, its parts   *)
(* sent by a few workers that retry, then put together.  Files are         *)
(* cancelled one by one, retried, and left behind when the page goes.      *)
(*                                                                         *)
(* What the API does is sign: it looks the bucket up and refuses a         *)
(* declared size that does not fit (the dashboard declares none for a      *)
(* large file).  The storage does the rest.                                *)
(***************************************************************************)
EXTENDS Integers, FiniteSets

CONSTANTS
  Files, None,
  Small,           \* the files below MULTIPART_THRESHOLD
  PartCount,       \* the parts of a large one
  PartConcurrency, \* PART_CONCURRENCY
  MaxRetries,      \* MAX_RETRIES
  MaxStarts,       \* bound: the times files are tried, altogether
  MaxFaults        \* bound: requests that fail, or whose answer is lost

\* What the constants must be; assumed where the module is instantiated.
UploadsAssumption ==
  /\ None \notin Files /\ Small \subseteq Files
  /\ {PartCount, PartConcurrency, MaxStarts} \subseteq Nat \ {0}
  /\ MaxRetries \in Nat /\ MaxFaults \in Nat

VARIABLES
  at,         \* where the upload of each file is
  starts,
  cancelled,  \* files whose controller is aborted, for this start
  aborted,    \* files whose part controller is aborted
  flying,     \* the parts being sent, with the attempt each is in
  next,       \* the first part no worker has taken
  recorded,   \* the parts whose ETag is known
  landed,     \* the parts the storage has, of this start
  debris,     \* the number of multipart uploads that stay open on the storage
  object,     \* the parts each stored object was made of
  active,     \* abortRef: the file whose part controller the hook remembers
  mounted,
  faults,
  blamed      \* history: files that met a fault, a refusal or the end of the page

partVars == <<flying, next, recorded, landed>>
vars == <<at, starts, cancelled, aborted, partVars, debris, object, active, mounted, faults, blamed>>

Parts == 1 .. PartCount

Init ==
  /\ at = [f \in Files |-> "idle"] /\ starts = 0
  /\ cancelled = {} /\ aborted = {}
  /\ flying = [f \in Files |-> {}] /\ next = [f \in Files |-> 1]
  /\ recorded = [f \in Files |-> {}] /\ landed = [f \in Files |-> {}]
  /\ debris = 0 /\ object = [f \in Files |-> {}]
  /\ active = None /\ mounted = TRUE /\ faults = 0 /\ blamed = {}

Goes(f, place) == at' = [at EXCEPT ![f] = place]
Fault(f) == faults < MaxFaults /\ faults' = faults + 1 /\ blamed' = blamed \cup {f}

-----------------------------------------------------------------------------
(* UploadScreen *)

\* enqueue, and retry of a file that ended in an error; each start has a
\* controller of its own.
Start(f) ==
  /\ mounted /\ at[f] \in {"idle", "error"} /\ starts < MaxStarts
  /\ starts' = starts + 1
  /\ cancelled' = cancelled \ {f} /\ aborted' = aborted \ {f} /\ blamed' = blamed \ {f}
  /\ flying' = [flying EXCEPT ![f] = {}] /\ next' = [next EXCEPT ![f] = 1]
  /\ recorded' = [recorded EXCEPT ![f] = {}] /\ landed' = [landed EXCEPT ![f] = {}]
  /\ object' = [object EXCEPT ![f] = {}]
  /\ Goes(f, IF f \in Small THEN "put" ELSE "init")
  /\ UNCHANGED <<debris, active, mounted, faults>>

\* Mutant: the page aborts what the hook remembers, not this file.
CancelActive(f) ==
  /\ mounted /\ at[f] \in {"put", "init", "parts", "complete"} /\ f \notin cancelled
  /\ cancelled' = cancelled \cup {f}
  /\ aborted' = aborted \cup ({active} \ {None})
  /\ UNCHANGED <<at, starts, partVars, debris, object, active, mounted, faults, blamed>>

\* The part controller listens to the one of the file once it exists.
Cancel(f) ==
  /\ mounted /\ at[f] \in {"put", "init", "parts", "complete"} /\ f \notin cancelled
  /\ cancelled' = cancelled \cup {f}
  /\ aborted' = IF at[f] = "parts" THEN aborted \cup {f} ELSE aborted
  /\ UNCHANGED <<at, starts, partVars, debris, object, active, mounted, faults, blamed>>

\* The hook aborts the parts of the one file it remembers.
Unmount ==
  /\ mounted /\ mounted' = FALSE
  /\ aborted' = aborted \cup ({active} \ {None})
  /\ blamed' = blamed \cup ({active} \ {None})
  /\ UNCHANGED <<at, starts, cancelled, partVars, debris, object, active, faults>>

-----------------------------------------------------------------------------
(* A small file *)

\* presignUpload and the PUT; refused, lost or cancelled it is an error.
Put(f) ==
  /\ at[f] = "put"
  /\ \/ f \notin cancelled /\ object' = [object EXCEPT ![f] = Parts] /\ Goes(f, "done") /\ UNCHANGED <<faults, blamed>>
     \/ f \in cancelled /\ Goes(f, "error") /\ UNCHANGED <<object, faults, blamed>>
     \/ Fault(f) /\ Goes(f, "error") /\ object' \in {object, [object EXCEPT ![f] = Parts]}
  /\ UNCHANGED <<starts, cancelled, aborted, partVars, debris, active, mounted>>

-----------------------------------------------------------------------------
(* A large one *)

\* presignCreateMultipart and the POST, which no signal stops.  The part
\* controller starts aborted when the file was cancelled meanwhile.
Initiate(f) ==
  /\ at[f] = "init"
  /\ \/ /\ debris' = debris + 1 /\ Goes(f, "parts") /\ active' = f
        /\ aborted' = IF f \in cancelled THEN aborted \cup {f} ELSE aborted
        /\ UNCHANGED <<faults, blamed>>
     \/ Fault(f) /\ Goes(f, "error") /\ debris' \in {debris, debris + 1} /\ UNCHANGED <<active, aborted>>
  /\ UNCHANGED <<starts, cancelled, partVars, object, mounted>>

\* A free worker takes the next part.
TakePart(f) ==
  /\ at[f] = "parts" /\ next[f] <= PartCount /\ Cardinality(flying[f]) < PartConcurrency
  /\ flying' = [flying EXCEPT ![f] = @ \cup {<<next[f], 0>>}]
  /\ next' = [next EXCEPT ![f] = @ + 1]
  /\ UNCHANGED <<at, starts, cancelled, aborted, recorded, landed, debris, object, active, mounted, faults, blamed>>

\* The PUT of a part answers with its ETag.
PartStored(f, p) ==
  /\ at[f] = "parts" /\ p \in flying[f] /\ f \notin aborted
  /\ flying' = [flying EXCEPT ![f] = @ \ {p}]
  /\ recorded' = [recorded EXCEPT ![f] = @ \cup {p[1]}]
  /\ landed' = [landed EXCEPT ![f] = @ \cup {p[1]}]
  /\ UNCHANGED <<at, starts, cancelled, aborted, next, debris, object, active, mounted, faults, blamed>>

\* The last failure of a part: everything is aborted.
GivesUp(f) ==
  /\ Goes(f, "error") /\ flying' = [flying EXCEPT ![f] = {}] /\ aborted' = aborted \cup {f}
  /\ active' = IF active = f THEN None ELSE active

\* No answer, an error or no ETag: the part is sent again, up to MAX_RETRIES
\* times.  Its URL is asked for once.
PartFails(f, p) ==
  /\ at[f] = "parts" /\ p \in flying[f] /\ f \notin aborted /\ Fault(f)
  /\ \/ /\ landed' \in {landed, [landed EXCEPT ![f] = @ \cup {p[1]}]}
        /\ IF p[2] < MaxRetries
           THEN flying' = [flying EXCEPT ![f] = (@ \ {p}) \cup {<<p[1], p[2] + 1>>}] /\ UNCHANGED <<at, aborted, active>>
           ELSE GivesUp(f)
     \/ p[2] = 0 /\ GivesUp(f) /\ UNCHANGED landed
  /\ UNCHANGED <<starts, cancelled, next, recorded, debris, object, mounted>>

\* AbortError: the workers give up.  The abort of the upload on the storage
\* is asked of /presign/abort-multipart, which the API does not have.
Stop(f) ==
  /\ at[f] = "parts" /\ f \in aborted /\ (flying[f] # {} \/ next[f] <= PartCount)
  /\ Goes(f, "error") /\ flying' = [flying EXCEPT ![f] = {}]
  /\ active' = IF active = f THEN None ELSE active
  /\ UNCHANGED <<starts, cancelled, aborted, next, recorded, landed, debris, object, mounted, faults, blamed>>

\* All workers are through.
PartsDone(f) ==
  /\ at[f] = "parts" /\ flying[f] = {} /\ next[f] > PartCount
  /\ Goes(f, "complete")
  /\ active' = IF active = f THEN None ELSE active
  /\ UNCHANGED <<starts, cancelled, aborted, partVars, debris, object, mounted, faults, blamed>>

\* The guard over the ETags, presignCompleteMultipart and the POST, which no
\* signal stops.
Complete(f) ==
  /\ at[f] = "complete"
  /\ \/ /\ recorded[f] = Parts /\ Goes(f, "done")
        /\ object' = [object EXCEPT ![f] = landed[f]] /\ debris' = debris - 1
        /\ UNCHANGED <<faults, blamed>>
     \/ recorded[f] # Parts /\ Goes(f, "error") /\ UNCHANGED <<object, debris, faults, blamed>>
     \/ /\ Fault(f) /\ Goes(f, "error")
        /\ \/ UNCHANGED <<object, debris>>
           \/ object' = [object EXCEPT ![f] = landed[f]] /\ debris' = debris - 1
  /\ UNCHANGED <<starts, cancelled, aborted, partVars, active, mounted>>

-----------------------------------------------------------------------------
Upload(f) ==
  \/ Put(f) \/ Initiate(f) \/ TakePart(f) \/ Stop(f) \/ PartsDone(f) \/ Complete(f)
  \/ \E p \in flying[f] : PartStored(f, p) \/ PartFails(f, p)

Next ==
  \/ \E f \in Files : Start(f) \/ Cancel(f) \/ Upload(f)
  \/ Unmount

\* Requests are answered, or fail, in the end.
Fairness == \A f \in Files : WF_vars(Upload(f))

Spec == Init /\ [][Next]_vars

-----------------------------------------------------------------------------
TypeOK ==
  /\ at \in [Files -> {"idle", "put", "init", "parts", "complete", "done", "error"}]
  /\ starts \in 0 .. MaxStarts /\ cancelled \subseteq Files /\ aborted \subseteq Files
  /\ flying \in [Files -> SUBSET (Parts \X (0 .. MaxRetries))]
  /\ next \in [Files -> 1 .. PartCount + 1]
  /\ recorded \in [Files -> SUBSET Parts] /\ landed \in [Files -> SUBSET Parts]
  /\ debris \in Nat /\ object \in [Files -> SUBSET Parts]
  /\ active \in Files \cup {None} /\ mounted \in BOOLEAN
  /\ faults \in 0 .. MaxFaults /\ blamed \subseteq Files

\* useMedia.ts:282, P2.53: an object is never put together with parts
\* missing, and a file shown as done is on the storage whole.
WholeOrNothing ==
  \A f \in Files : object[f] \in {{}, Parts} /\ (at[f] = "done" => object[f] = Parts)

\* UploadScreen.tsx:176, P2.52: cancelling a file stops that file only.
CancelsOnlyItself ==
  \A f \in Files : at[f] = "error" => f \in cancelled \cup blamed

\* A file that is cancelled before its last part is recorded is not uploaded.
CancelStops ==
  [][\A f \in Files : f \in cancelled /\ recorded[f] # Parts /\ f \notin Small
       => recorded'[f] \in {recorded[f], {}}]_vars

\* Every upload ends, whatever fails, is cancelled or goes away under it, and a
\* queue is worked off: there is a time, again and again, when none is going on.
UploadsEnd == []<>(\A f \in Files : at[f] \in {"idle", "done", "error"})
=============================================================================
