----------------------------- MODULE ApiRequests -----------------------------
(***************************************************************************)
(* A mutating request on its way through the API server: authentication,   *)
(* the replay of a stored response, the handler, the record of the         *)
(* response, the answer.  The client loses answers, gives up on requests   *)
(* and retries them under one Idempotency-Key; API keys are rotated and    *)
(* revoked by other requests meanwhile, or expire.                         *)
(*                                                                         *)
(* An operation is what a client wants done once; its attempts are the     *)
(* HTTP requests it makes for it.                                          *)
(***************************************************************************)
EXTENDS Integers, FiniteSets

CONSTANTS
  Keys,        \* API keys
  User,        \* a dashboard session, which needs no key
  Ops,
  Principal,   \* the key an operation is made with, or User
  Kind,        \* "rotate", "revoke" or "create" (of another key)
  Target,      \* the key it is about
  Keyed,       \* the operations sent with an Idempotency-Key
  Tries,       \* bound: the attempts clients make, <<operation, number>>
  MaxSecret,   \* bound of the secrets minted
  MaxFaults    \* bound: redis calls that fail, servers that die

\* What the constants must be; assumed where the module is instantiated.
RequestsAssumption ==
  /\ User \notin Keys /\ "nobody" \notin Ops /\ Principal \in [Ops -> Keys \cup {User}]
  /\ Kind \in [Ops -> {"rotate", "revoke", "create"}] /\ Target \in [Ops -> Keys]
  /\ Keyed \subseteq Ops /\ Tries \subseteq Ops \X (Nat \ {0})
  /\ MaxSecret \in Nat /\ MaxFaults \in Nat

VARIABLES
  status,    \* of each row of api_keys: "none", "live", "revoked" or "expired"
  secret,    \* the secret its hash stands for
  minted,    \* the number of secrets minted
  records,   \* the stored response of each operation, <<>> without one
  known,     \* the secret of each key that its holders were told last
  at,        \* where each attempt is
  presented, \* the secret it was sent with
  result,    \* what its handler, or the record, answers
  faults,
  overlap,   \* history: operations with two attempts under way, or whose record was lost
  effects,   \* history: how often each operation was done
  writer,    \* history: the operation that wrote a secret last
  banned     \* history: attempts sent with a key that was no good then

keyVars == <<status, secret, minted, writer>>
clientVars == <<known, presented, banned>>
vars == <<keyVars, records, at, result, faults, overlap, effects, clientVars>>

NoAnswer == <<"none", 0>>

Init ==
  /\ status \in [Keys -> {"none", "live"}]
  /\ \A o \in Ops : Principal[o] # User => status[Principal[o]] = "live"
  /\ \A k \in Keys : status[k] = "none" <=> \E o \in Ops : Kind[o] = "create" /\ Target[o] = k
  /\ secret = [k \in Keys |-> 0] /\ minted = 0 /\ known = secret
  /\ records = [o \in Ops |-> NoAnswer]
  /\ at = [t \in Tries |-> "unsent"] /\ result = [t \in Tries |-> NoAnswer]
  /\ presented = [t \in Tries |-> 0]
  /\ faults = 0 /\ overlap = {} /\ effects = [o \in Ops |-> 0]
  /\ writer = [k \in Keys |-> "nobody"] /\ banned = {}

Fault == faults < MaxFaults /\ faults' = faults + 1

Goes(t, place) == at' = [at EXCEPT ![t] = place]

Running(o) == {t \in Tries : t[1] = o /\ at[t] \in {"auth", "replay", "write", "save", "reply"}}

-----------------------------------------------------------------------------
(* The client *)

\* The bearer token of the operation, a secret, is the one of a live key.
Usable(o, token) ==
  Principal[o] = User \/ (status[Principal[o]] = "live" /\ secret[Principal[o]] = token)

\* The first attempt, or another one when the last is answered by silence.
Send(t) ==
  /\ at[t] = "unsent"
  /\ \A u \in Tries : u[1] = t[1] /\ u[2] < t[2] => at[u] \notin {"unsent", "answered"}
  /\ Goes(t, "auth")
  /\ overlap' = IF Running(t[1]) # {} THEN overlap \cup {t[1]} ELSE overlap
  /\ \E token \in 0 .. MaxSecret :
       /\ token = IF Principal[t[1]] = User THEN 0 ELSE known[Principal[t[1]]]
       /\ presented' = [presented EXCEPT ![t] = token]
       /\ banned' = IF Usable(t[1], token) THEN banned ELSE banned \cup {t}
  /\ UNCHANGED <<keyVars, records, known, result, faults, effects>>

-----------------------------------------------------------------------------
(* The server *)

Refuse(t) == Goes(t, "answered") /\ result' = [result EXCEPT ![t] = <<"refused", 0>>]

\* authMiddleware: the row with the secret's hash is neither revoked nor expired.
Authenticate(t) ==
  /\ at[t] = "auth"
  /\ IF Usable(t[1], presented[t]) THEN Goes(t, "replay") /\ UNCHANGED result ELSE Refuse(t)
  /\ UNCHANGED <<keyVars, records, faults, overlap, effects, clientVars>>

\* What a handler finds before it writes: a rotation reads that the key is not
\* revoked.
Found(o) == Kind[o] = "rotate" => status[Target[o]] \in {"live", "expired"}

\* idempotencyPreHandler: a stored response is the answer; without one, or
\* without redis, the handler starts, and reads.
Replay(t) ==
  /\ at[t] = "replay"
  /\ \/ /\ records[t[1]] # NoAnswer /\ Goes(t, "reply") /\ result' = [result EXCEPT ![t] = records[t[1]]]
        /\ UNCHANGED <<faults, overlap>>
     \/ /\ IF records[t[1]] = NoAnswer THEN UNCHANGED <<faults, overlap>>
           ELSE Fault /\ overlap' = overlap \cup {t[1]}
        /\ IF Found(t[1]) THEN Goes(t, "write") /\ UNCHANGED result ELSE Refuse(t)
  /\ UNCHANGED <<keyVars, records, effects, clientVars>>

Done(t, value) ==
  /\ Goes(t, "save") /\ result' = [result EXCEPT ![t] = value]
  /\ effects' = [effects EXCEPT ![t[1]] = @ + 1]

\* POST /api-keys and create_api_key: a new row with a new secret.
Create(t) ==
  /\ at[t] = "write" /\ Kind[t[1]] = "create" /\ minted < MaxSecret
  /\ minted' = minted + 1
  /\ IF status[Target[t[1]]] = "none"
     THEN /\ status' = [status EXCEPT ![Target[t[1]]] = "live"]
          /\ secret' = [secret EXCEPT ![Target[t[1]]] = minted + 1]
          /\ writer' = [writer EXCEPT ![Target[t[1]]] = t[1]]
     ELSE UNCHANGED <<status, secret, writer>>  \* a second key, nobody asked for
  /\ Done(t, <<"secret", minted + 1>>)
  /\ UNCHANGED <<records, faults, overlap, clientVars>>

\* PUT /api-keys/:id/rotate, its UPDATE: the row may have been revoked, or
\* rotated by another request, since it was read.
Rotate(t) ==
  /\ at[t] = "write" /\ Kind[t[1]] = "rotate" /\ minted < MaxSecret
  /\ minted' = minted + 1 /\ secret' = [secret EXCEPT ![Target[t[1]]] = minted + 1]
  /\ writer' = [writer EXCEPT ![Target[t[1]]] = t[1]]
  /\ Done(t, <<"secret", minted + 1>>)
  /\ UNCHANGED <<status, records, faults, overlap, clientVars>>

\* DELETE /api-keys/:id: 404 when the key is revoked already.
Revoke(t) ==
  /\ at[t] = "write" /\ Kind[t[1]] = "revoke"
  /\ IF status[Target[t[1]]] \in {"live", "expired"}
     THEN status' = [status EXCEPT ![Target[t[1]]] = "revoked"] /\ Done(t, <<"revoked", 0>>)
     ELSE Refuse(t) /\ UNCHANGED <<status, effects>>
  /\ UNCHANGED <<secret, minted, writer, records, faults, overlap, clientVars>>

\* Mutant: the storage key leaves out the path.
SaveAnyPath(t) ==
  /\ at[t] = "save" /\ Goes(t, "reply") /\ UNCHANGED <<faults, overlap>>
  /\ records' = IF t[1] \in Keyed
                THEN [o \in Ops |-> IF o \in Keyed THEN result[t] ELSE records[o]] ELSE records
  /\ UNCHANGED <<keyVars, result, effects, clientVars>>

\* idempotencyOnSend: a 2xx response is stored before it is sent, if redis answers.
Save(t) ==
  /\ at[t] = "save" /\ Goes(t, "reply")
  /\ \/ /\ records' = IF t[1] \in Keyed THEN [records EXCEPT ![t[1]] = result[t]] ELSE records
        /\ UNCHANGED <<faults, overlap>>
     \/ t[1] \in Keyed /\ Fault /\ overlap' = overlap \cup {t[1]} /\ UNCHANGED records
  /\ UNCHANGED <<keyVars, result, effects, clientVars>>

\* The answer arrives, or is lost on the way.
Reply(t) ==
  /\ at[t] = "reply"
  /\ \/ /\ Goes(t, "answered")
        /\ known' = IF result[t][1] = "secret"
                    THEN [known EXCEPT ![Target[t[1]]] = result[t][2]] ELSE known
     \/ Goes(t, "lost") /\ UNCHANGED known
  /\ UNCHANGED <<keyVars, records, result, presented, faults, overlap, effects, banned>>

\* The server dies: what the handler has done stays done.
Dies(t) ==
  /\ at[t] = "save" /\ Fault /\ Goes(t, "lost") /\ overlap' = overlap \cup {t[1]}
  /\ UNCHANGED <<keyVars, records, result, effects, clientVars>>

Expire(k) ==
  /\ status[k] = "live" /\ status' = [status EXCEPT ![k] = "expired"]
  /\ UNCHANGED <<secret, minted, writer, records, at, result, faults, overlap, effects, clientVars>>

-----------------------------------------------------------------------------
Serve(t) ==
  \/ Authenticate(t) \/ Replay(t) \/ Create(t) \/ Rotate(t) \/ Revoke(t) \/ Save(t) \/ Reply(t)

Next ==
  \/ \E t \in Tries : Send(t) \/ Serve(t) \/ Dies(t)
  \/ \E k \in Keys : Expire(k)

Spec == Init /\ [][Next]_vars

-----------------------------------------------------------------------------
(* Properties *)

Results == {NoAnswer, <<"refused", 0>>, <<"revoked", 0>>} \cup ({"secret"} \X (1 .. MaxSecret))

TypeOK ==
  /\ status \in [Keys -> {"none", "live", "revoked", "expired"}]
  /\ secret \in [Keys -> 0 .. MaxSecret] /\ minted \in 0 .. MaxSecret
  /\ records \in [Ops -> Results] /\ result \in [Tries -> Results]
  /\ at \in [Tries -> {"unsent", "auth", "replay", "write", "save", "reply", "answered", "lost"}]
  /\ faults \in 0 .. MaxFaults /\ overlap \subseteq Ops /\ effects \in [Ops -> Nat]
  /\ known \in [Keys -> 0 .. MaxSecret] /\ presented \in [Tries -> 0 .. MaxSecret]
  /\ writer \in [Keys -> Ops \cup {"nobody"}] /\ banned \subseteq Tries

\* "a retry with the same key ... replays the stored response instead of
\* re-running the mutation" (middleware/idempotency.ts:11-14): an operation
\* whose attempts come one after the other is done at most once.  (Attempts
\* that overlap both find no record, and a record may fail to be written.)
RetryRunsOnce == \A o \in Keyed \ overlap : effects[o] <= 1

\* The secret a client is told is the secret of the key: unless another
\* operation wrote the row since, "Store this new secret" (auth.ts:218) holds
\* of the original answer and of its replay.
AnswerIsCurrent ==
  \A t \in Tries :
    at[t] = "answered" /\ result[t][1] = "secret" /\ t[1] \in Keyed \ overlap
      /\ writer[Target[t[1]]] = t[1]
      => secret[Target[t[1]]] = result[t][2]

\* "Previous secret is no longer valid" (auth.ts:218): a request sent with a
\* key that was revoked or had expired, or with a secret that was replaced, is
\* refused, though its response is stored, and though a rotation that read the
\* key before it was revoked finishes after.
RevokedStaysOut ==
  \A t \in banned : at[t] \in {"answered", "lost", "auth"} /\ (at[t] = "answered" => result[t][1] = "refused")
=============================================================================
