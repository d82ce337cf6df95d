---------------------------- MODULE SigningKeys ----------------------------
(***************************************************************************)
(* The cache of the identity provider's signing keys that verifies session *)
(* tokens.  A process keeps one cache; its requests read it, and fetch     *)
(* jwks.json anew when the kid is missing or the cache is older than TTL.  *)
(* Several fetches may be under way, and answers may overtake one another. *)
(* The provider, which publishes and retires keys, is external.            *)
(***************************************************************************)
EXTENDS Integers

CONSTANTS
  Requests,
  Kids,
  FirstKid,  \* the key that is published at the start
  TTL,
  Latency,   \* bound: how long an answer of the provider is under way
  MaxTime    \* bound of the clock

\* What the constants must be; assumed where the module is instantiated.
SigningAssumption ==
  FirstKid \in Kids /\ TTL \in Nat /\ Latency \in Nat /\ MaxTime \in Nat

VARIABLES
  clock,
  published,  \* the kids of jwks.json
  retired,    \* when a kid was retired; -1 before
  cache,      \* _jwksCache: the keys and fetchedAt
  request     \* of each request: its step, kid, and the answer under way

vars == <<clock, published, retired, cache, request>>

Idle == [pc |-> "idle", kid |-> "none", body |-> {}, sampled |-> 0]

Init ==
  /\ clock = 0 /\ published = {FirstKid} /\ retired = [k \in Kids |-> -1]
  /\ cache = [keys |-> {}, at |-> 0] /\ request = [r \in Requests |-> Idle]

Tick ==
  /\ clock < MaxTime /\ clock' = clock + 1
  /\ \A r \in Requests : request[r].pc = "answer" => clock < request[r].sampled + Latency
  /\ UNCHANGED <<published, retired, cache, request>>

Publish(k) ==
  /\ k \notin published /\ retired[k] = -1 /\ published' = published \cup {k}
  /\ UNCHANGED <<clock, retired, cache, request>>

Retire(k) ==
  /\ k \in published /\ published' = published \ {k} /\ retired' = [retired EXCEPT ![k] = clock]
  /\ UNCHANGED <<clock, cache, request>>

Stale(k) == k \notin cache.keys \/ clock - cache.at > TTL

\* verifySupabaseJwt, getJwksKey: a token signed by k comes in; the key is in
\* the cache, or is fetched.
Verify(r, k) ==
  /\ request[r].pc \in {"idle", "verified", "refused", "unreachable"}
  /\ request' = [request EXCEPT ![r] =
       [Idle EXCEPT !.kid = k,
          !.pc = IF Stale(k) THEN "fetch" ELSE IF k \in cache.keys THEN "verified" ELSE "refused"]]
  /\ UNCHANGED <<clock, published, retired, cache>>

\* The provider answers; the answer is under way.
Sample(r) ==
  /\ request[r].pc = "fetch"
  /\ request' = [request EXCEPT ![r].pc = "answer", ![r].body = published, ![r].sampled = clock]
  /\ UNCHANGED <<clock, published, retired, cache>>

FetchFails(r) ==
  /\ request[r].pc = "fetch"
  /\ request' = [request EXCEPT ![r] = [Idle EXCEPT !.pc = "unreachable"]]
  /\ UNCHANGED <<clock, published, retired, cache>>

\* The response replaces the cache, a newer response as well as an older one,
\* and is dated by its arrival.
Receive(r) ==
  /\ request[r].pc = "answer" /\ cache' = [keys |-> request[r].body, at |-> clock]
  /\ request' = [request EXCEPT ![r] = [Idle EXCEPT !.kid = request[r].kid,
       !.pc = IF request[r].kid \in request[r].body THEN "verified" ELSE "refused"]]
  /\ UNCHANGED <<clock, published, retired>>

Next ==
  \/ Tick \/ \E k \in Kids : Publish(k) \/ Retire(k)
  \/ \E r \in Requests : Sample(r) \/ FetchFails(r) \/ Receive(r) \/ \E k \in Kids : Verify(r, k)

Spec == Init /\ [][Next]_vars

-----------------------------------------------------------------------------
(* Properties *)

TypeOK ==
  /\ clock \in 0 .. MaxTime /\ published \subseteq Kids /\ retired \in [Kids -> -1 .. MaxTime]
  /\ cache.keys \subseteq Kids /\ cache.at \in 0 .. clock
  /\ \A r \in Requests :
       /\ request[r].pc \in {"idle", "fetch", "answer", "unreachable", "verified", "refused"}
       /\ request[r].body \subseteq Kids /\ request[r].sampled \in 0 .. clock

\* "refreshed on a miss or after a TTL" (auth/src/index.ts:336-340): a token is
\* good for at most TTL and the time of one answer after its signing key was
\* retired, also when answers overtake one another and an older one
\* overwrites the cache.
RetiredKeysFade ==
  [][\A r \in Requests :
       request'[r].pc = "verified" /\ request[r] # request'[r] =>
         \/ request'[r].kid \in published
         \/ clock <= retired[request'[r].kid] + TTL + Latency]_vars

\* A token is not refused while its key is published, whatever the cache
\* holds: one signed by a new key need not wait for the TTL.  (A key that is
\* published while the answer is under way is found by the next request.)
NewKeysAreFound ==
  [][\A r \in Requests :
       request'[r].pc = "refused" /\ request[r] # request'[r] =>
         \/ request'[r].kid \notin published
         \/ request[r].pc = "answer" /\ request[r].kid \notin request[r].body]_vars
=============================================================================
