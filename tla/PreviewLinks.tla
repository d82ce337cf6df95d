----------------------------- MODULE PreviewLinks -----------------------------
(* The links a screen shows bytes by: the presigned GET of a file, which the *)
(* viewer and the download button of its page use, and the one of its        *)
(* thumbnail. Both are answers of the API that the cache keeps: a link runs  *)
(* out, an answer without a link is kept like one with it, and a query is    *)
(* asked again only when a screen that uses it is opened, or its window is   *)
(* looked at, after its stale time. Time is counted in five minutes.         *)
EXTENDS Naturals, FiniteSets

CONSTANTS
  MaxTime,
  MaxDelay,       \* an answer takes no longer
  MaxFails

LinksAssumption == {MaxTime, MaxDelay, MaxFails} \subseteq Nat /\ MaxDelay > 0

(* staleTime, gcTime, and how long the link is valid. *)
Times(stale, gc, ttl) == [stale |-> stale, gc |-> gc, ttl |-> ttl]
Links ==
  [media     |-> Times(10, 1, 12),
   thumbnail |-> Times(6, 6, 288)]

VARIABLES
  kind,       \* which of the two
  now,
  made,       \* since when there is something to link to; never yet
  data,       \* the cached answer, with the time it arrived; none
  fetching,   \* the request: since when, what the server has answered
  mounted,    \* the screen is open
  left,       \* while it is not: since when the entry waits to be collected
  looked,     \* history, while it is: when it was opened or its window looked at last
  missed,     \* history: the last request failed
  fails

vars == <<kind, now, made, data, fetching, mounted, left, looked, missed, fails>>

(* At most one of a kind. *)
Nothing == {}
Idle == [on |-> FALSE, since |-> 0, read |-> Nothing]

Its == Links[kind]

(* An answer with a link, by the time it was signed, or without one. *)
Link == {answer.url : answer \in data}
Stale == \A answer \in data : now - answer.at >= Its.stale

Init ==
  /\ kind \in DOMAIN Links /\ now = 0
  /\ made = IF kind = "media" THEN {0} ELSE Nothing
  /\ data = Nothing /\ fetching = Idle /\ mounted = FALSE /\ left = 0 /\ looked = 0
  /\ missed = FALSE /\ fails = 0

-----------------------------------------------------------------------------
(* The screen *)

(* What is stale is asked for, or joins the request under way. *)
Asks == fetching' = IF Stale /\ ~fetching.on THEN [on |-> TRUE, since |-> now, read |-> Nothing] ELSE fetching

Open ==
  /\ ~mounted /\ mounted' = TRUE /\ left' = 0 /\ looked' = now /\ Asks
  /\ UNCHANGED <<kind, now, made, data, missed, fails>>

(* The window gets the focus, or the network comes back. *)
Look ==
  /\ mounted /\ looked' = now /\ Asks
  /\ UNCHANGED <<kind, now, made, data, mounted, left, missed, fails>>

Leave ==
  /\ mounted /\ mounted' = FALSE /\ left' = now /\ looked' = 0
  /\ UNCHANGED <<kind, now, made, data, fetching, missed, fails>>

(* gcTime after the last screen was left, or after the last answer. *)
Collect ==
  /\ ~mounted /\ ~fetching.on /\ data # Nothing /\ now - left >= Its.gc
  /\ data' = Nothing
  /\ UNCHANGED <<kind, now, made, fetching, mounted, left, looked, missed, fails>>

-----------------------------------------------------------------------------
(* The API, the worker *)

(* POST /presign/download; GET /media/:id/thumbnail, whose 404 is an answer  *)
(* without a link.                                                           *)
Signs ==
  /\ fetching.on /\ fetching.read = Nothing
  /\ fetching' = [fetching EXCEPT !.read = {IF made = Nothing THEN Nothing ELSE {now}}]
  /\ UNCHANGED <<kind, now, made, data, mounted, left, looked, missed, fails>>

Ends ==
  /\ fetching' = Idle /\ left' = IF mounted THEN left ELSE now
  /\ UNCHANGED <<kind, now, made, mounted, looked>>

Lands ==
  /\ fetching.read # Nothing
  /\ data' = {[url |-> url, at |-> now] : url \in fetching.read}
  /\ missed' = FALSE /\ Ends /\ UNCHANGED fails

(* It is not asked again: what was cached stays.  An error of the API,       *)
(* whichever, is to the thumbnail a file without one, and is cached.         *)
Fails ==
  /\ fetching.on /\ fails < MaxFails /\ fails' = fails + 1 /\ missed' = TRUE /\ Ends
  /\ \/ UNCHANGED data
     \/ kind = "thumbnail" /\ data' = {[url |-> Nothing, at |-> now]}

(* The worker records a thumbnail or a poster. *)
Made ==
  /\ made = Nothing /\ made' = {now}
  /\ UNCHANGED <<kind, now, data, fetching, mounted, left, looked, missed, fails>>

Passes ==
  /\ now < MaxTime /\ now' = now + 1
  /\ fetching.on => now - fetching.since < MaxDelay
  /\ UNCHANGED <<kind, made, data, fetching, mounted, left, looked, missed, fails>>

Next ==
  \/ Open \/ Look \/ Leave \/ Collect
  \/ Signs \/ Lands \/ Fails \/ Made \/ Passes

Spec == Init /\ [][Next]_vars

-----------------------------------------------------------------------------
TypeOK ==
  /\ kind \in DOMAIN Links /\ now \in 0..MaxTime /\ made \subseteq 0..now
  /\ \A answer \in data : answer.at <= now /\ answer.url \subseteq 0..now
  /\ Cardinality(made) <= 1 /\ Cardinality(data) <= 1 /\ Cardinality(fetching.read) <= 1
  /\ looked <= now /\ left <= now /\ fails <= MaxFails

Settled == mounted /\ ~fetching.on /\ ~missed

TenMinutes == 2
HalfAnHour == 6

(* A link works when its screen is opened or looked at, and for ten minutes  *)
(* after that, less what an answer takes. A page left open has it run out.   *)
LinkLasts ==
  (Settled /\ now - looked <= TenMinutes - MaxDelay)
    => \A url \in Link : \A signed \in url : now < signed + Its.ttl

(* A thumbnail is shown to whoever looks half an hour after it was made, and *)
(* what an answer takes: until then the answer without one is believed.      *)
ThumbnailAppears ==
  (Settled /\ \E t \in made : looked >= t + HalfAnHour + MaxDelay) => \E url \in Link : url # Nothing
=============================================================================
