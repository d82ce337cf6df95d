---------------------------- MODULE DriftReport -----------------------------
(***************************************************************************)
(* The two nightly comparisons of what the object store holds with what    *)
(* the database says of it, neither of which corrects anything: the        *)
(* per-key one of storage:reconcile, which reads the rows of a bucket and  *)
(* then lists it, and the per-org one of billing:reconcile, which lists    *)
(* all the buckets and then reads used_bytes.  Objects come and go while   *)
(* a comparison is under way, and a listing may fail in the middle.        *)
(***************************************************************************)
EXTENDS Integers, Sequences

CONSTANTS
  Pages,       \* the buckets of the org, each the sequence of its pages
  None,
  MaxEvents,   \* bound: the changes of the objects
  MaxFaults    \* bound: the listings that fail

\* A page is a set of keys; the keys of a bucket are those of its pages.
Keys(b) == UNION {Pages[b][i] : i \in DOMAIN Pages[b]}
Buckets == DOMAIN Pages
AllKeys == UNION {Keys(b) : b \in Buckets}

DriftAssumption ==
  /\ \A b \in Buckets : Pages[b] \in Seq(SUBSET AllKeys) /\ Pages[b] # <<>>
  /\ \A b, c \in Buckets : b # c => Keys(b) \cap Keys(c) = {}
  /\ {None, "org"} \cap Buckets = {} /\ None # "org" /\ MaxEvents \in Nat /\ MaxFaults \in Nat

VARIABLES
  stored, live,   \* the keys in storage, and those with a live objects row
  kind,           \* the comparison that runs: by key, or by bytes
  at,             \* where it is
  bucket, page,   \* the bucket it is at, and the page
  todo,           \* the buckets left
  rows, seen,     \* what it read of the bucket: its rows, and its listing
  sum, failed,    \* by bytes: the keys counted so far, and listFailed
  report,         \* what it said last: the bucket, its orphans and its ghosts,
                  \* or the physical and the tracked bytes
  touched,        \* history: the keys that changed since it began
  events, faults  \* bounds

vars == <<stored, live, kind, at, bucket, page, todo, rows, seen, sum, failed, report, touched, events, faults>>
objectVars == <<stored, live, touched, events>>

Silent == [of |-> None, orphans |-> {}, ghosts |-> {}, physical |-> {}, tracked |-> {}]

Init ==
  /\ stored \in SUBSET AllKeys /\ live \in SUBSET AllKeys
  /\ kind \in {"keys", "bytes"} /\ at = "idle" /\ bucket = None /\ page = 0 /\ todo = {}
  /\ rows = {} /\ seen = {} /\ sum = {} /\ failed = FALSE
  /\ report = Silent /\ touched = {} /\ events = 0 /\ faults = 0

-----------------------------------------------------------------------------
\* A confirm, a delete of the row, an upload, a delete of the bytes: what each
\* does to one key.
Changes ==
  /\ at \notin {"idle", "done"} /\ events < MaxEvents /\ events' = events + 1
  /\ \E k \in AllKeys :
       /\ touched' = touched \cup {k}
       /\ \/ live' \in {live \cup {k}, live \ {k}} /\ live' # live /\ UNCHANGED stored
          \/ stored' \in {stored \cup {k}, stored \ {k}} /\ stored' # stored /\ UNCHANGED live
  /\ UNCHANGED <<kind, at, bucket, page, todo, rows, seen, sum, failed, report, faults>>

\* The job: the buckets that are not deleted.
Begin ==
  /\ at = "idle" /\ at' = "next" /\ todo' = Buckets
  /\ UNCHANGED <<kind, bucket, page, rows, seen, sum, failed, report, faults, objectVars>>

\* The next bucket: by key its rows come first.
NextBucket ==
  /\ at = "next" /\ todo # {}
  /\ \E b \in todo :
       /\ bucket' = b /\ todo' = todo \ {b}
       /\ rows' = IF kind = "keys" THEN live \cap Keys(b) ELSE {}
  /\ at' = "listing" /\ page' = 1 /\ seen' = {}
  /\ UNCHANGED <<kind, sum, failed, report, faults, objectVars>>

\* ListObjectsV2, page by page until it is no longer truncated.
ListPage ==
  /\ at = "listing"
  /\ seen' = seen \cup (stored \cap Pages[bucket][page])
  /\ IF page < Len(Pages[bucket])
     THEN page' = page + 1 /\ UNCHANGED at
     ELSE at' = "listed" /\ UNCHANGED page
  /\ UNCHANGED <<kind, bucket, todo, rows, sum, failed, report, faults, objectVars>>

\* The bucket is skipped; by bytes the pages before the failure stay counted,
\* and the org is skipped at the end.
ListFails ==
  /\ at = "listing" /\ faults < MaxFaults /\ faults' = faults + 1
  /\ failed' = (kind = "bytes" \/ failed)
  /\ sum' = IF kind = "bytes" THEN sum \cup seen ELSE sum
  /\ at' = "next"
  /\ UNCHANGED <<kind, bucket, page, todo, rows, seen, report, objectVars>>

\* By key: the keys of one side that the other lacks.  By bytes: added up.
Compare ==
  /\ at = "listed" /\ at' = "next"
  /\ IF kind = "keys"
     THEN report' = [Silent EXCEPT !.of = bucket, !.orphans = seen \ rows, !.ghosts = rows \ seen]
          /\ UNCHANGED sum
     ELSE sum' = sum \cup seen /\ UNCHANGED report
  /\ UNCHANGED <<kind, bucket, page, todo, rows, seen, failed, faults, objectVars>>

\* By bytes, unless a listing failed: used_bytes, and the comparison.
Finish ==
  /\ at = "next" /\ todo = {} /\ at' = "done"
  /\ report' = IF kind = "bytes" /\ ~failed
               THEN [Silent EXCEPT !.of = "org", !.physical = sum, !.tracked = live] ELSE report
  /\ UNCHANGED <<kind, bucket, page, todo, rows, seen, sum, failed, faults, objectVars>>

Sweeps == Begin \/ NextBucket \/ ListPage \/ Compare \/ Finish

Next == Changes \/ Sweeps \/ ListFails

Spec == Init /\ [][Next]_vars

-----------------------------------------------------------------------------
TypeOK ==
  /\ stored \subseteq AllKeys /\ live \subseteq AllKeys /\ touched \subseteq AllKeys
  /\ kind \in {"keys", "bytes"} /\ at \in {"idle", "next", "listing", "listed", "done"}
  /\ bucket \in Buckets \cup {None} /\ todo \subseteq Buckets
  /\ rows \subseteq AllKeys /\ seen \subseteq AllKeys /\ sum \subseteq AllKeys /\ failed \in BOOLEAN
  /\ at = "listing" => page \in DOMAIN Pages[bucket]
  /\ events \in 0 .. MaxEvents /\ faults \in 0 .. MaxFaults

\* Of the keys that did not change meanwhile, a bucket's report names exactly
\* those that only one side has, however long the listing and whatever failed:
\* neither a false alarm nor an orphan missed.
ReportIsTrue ==
  report.of \in Buckets =>
    LET steady == Keys(report.of) \ touched IN
    /\ report.orphans \cap steady = (stored \ live) \cap steady
    /\ report.ghosts \cap steady = (live \ stored) \cap steady

\* The bytes that are compared with used_bytes are those of all the buckets:
\* an incomplete total is never taken for drift.
TotalIsWhole ==
  report.of = "org" => report.physical \ touched = stored \ touched
=============================================================================
