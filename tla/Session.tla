------------------------------- MODULE Session -------------------------------
(* The session of a browser in the dashboard: its tokens live in cookies     *)
(* that every request carries and any answer may replace. The middleware     *)
(* refreshes an expired token before anything else, the proxy turns the      *)
(* cookies into a bearer token for the API, the browser's own client         *)
(* refreshes, signs in and signs out. Requests of several tabs overlap and   *)
(* their answers come in any order. The identity provider is external:       *)
(* refreshing with the newest token or the one before it gives the newest,   *)
(* an older one revokes the whole session, and a bearer token is good until  *)
(* it expires, whatever became of its session.                               *)
EXTENDS Naturals, FiniteSets

CONSTANTS
  Requests,       \* requests that may be in flight at once
  MaxTokens,      \* tokens issued
  MaxFaults       \* sign-outs whose call fails

SessionAssumption == MaxTokens \in Nat \ {0} /\ MaxFaults \in Nat

NoCookies == 0         \* no cookies
Kinds == {"page", "login", "api", "client"}

VARIABLES
  issued,         \* tokens issued so far: the newest is the last one
  owner,          \* the sign-in each token belongs to
  revoked,        \* sign-ins revoked
  expired,        \* the tokens up to this one are past their lifetime
  jar,            \* the token in the browser's cookies
  out,            \* sign-ins the user ended
  request,        \* each request: what it is, its cookies, what is to come back
  faults

vars == <<issued, owner, revoked, expired, jar, out, request, faults>>

Tokens == 1..issued
SignIns == {owner[t] : t \in Tokens}
Newest(s) == CHOOSE t \in Tokens : owner[t] = s /\ \A u \in Tokens : owner[u] = s => u <= t

(* The token before the newest of its sign-in. *)
Parent(t) ==
  /\ owner[t] \in SignIns /\ t # Newest(owner[t])
  /\ \A u \in Tokens : (owner[u] = owner[t] /\ u > t) => u = Newest(owner[t])

Free == [kind |-> "none", sent |-> NoCookies, back |-> "none", set |-> NoCookies]

TypeOK ==
  /\ issued \in 0..MaxTokens /\ owner \in [Tokens -> Nat]
  /\ revoked \subseteq SignIns /\ out \subseteq SignIns /\ expired \in 0..issued
  /\ jar \in 0..issued /\ faults \in 0..MaxFaults
  /\ \A r \in Requests :
       /\ request[r].kind \in Kinds \union {"none"} /\ request[r].sent \in 0..issued
       /\ request[r].back \in {"none", "keep", "set", "clear"}
       /\ request[r].set \in 0..issued

Init ==
  /\ issued = 0 /\ owner = <<>> /\ revoked = {} /\ expired = 0 /\ jar = NoCookies /\ out = {}
  /\ request = [r \in Requests |-> Free] /\ faults = 0

(* A new token for a sign-in. *)
Issues(s) ==
  /\ issued < MaxTokens
  /\ issued' = issued + 1 /\ owner' = [t \in 1..(issued + 1) |-> IF t > issued THEN s ELSE owner[t]]

(* signInWithPassword, or the code of the callback exchanged: the client or  *)
(* the callback's answer writes the cookies.                                 *)
SignIn ==
  /\ Issues(Cardinality(SignIns) + 1)
  /\ jar' = issued + 1
  /\ UNCHANGED <<revoked, expired, out, request, faults>>

\* Mutant: the client remembers the tokens it first signed in with.
PresentedRemembered(r) == IF request[r].kind = "api" /\ issued > 0 THEN 1 ELSE request[r].sent

(* Which cookies a request reads its session from: those it was sent with. *)
Presented(r) == request[r].sent

(* A page, the login page, a call through the proxy, or the refresh of the   *)
(* browser's client goes out with the cookies of the moment.                 *)
Sends(r, kind) ==
  /\ request[r].kind = "none"
  /\ kind = "client" => jar # NoCookies
  /\ request' = [request EXCEPT ![r] = [Free EXCEPT !.kind = kind, !.sent = jar]]
  /\ UNCHANGED <<issued, owner, revoked, expired, jar, out, faults>>

(* Without a usable session a page is answered by a redirect of its own,     *)
(* which does not carry the cookies to clear; anything else carries them.    *)
Refusal(r) == IF request[r].kind = "page" THEN "keep" ELSE "clear"

Back(r, back, set) == request' = [request EXCEPT ![r].back = back, ![r].set = set]

(* getClaims in the middleware, then the handler. No cookies, or a token     *)
(* still good: nothing to write.                                             *)
HandlesAsIs(r) ==
  /\ request[r].kind # "none" /\ request[r].back = "none"
  /\ Presented(r) # NoCookies => Presented(r) > expired
  /\ Back(r, "keep", NoCookies)
  /\ UNCHANGED <<issued, owner, revoked, expired, jar, out, faults>>

(* The token is expired and is refreshed: the answer sets the rotated one. *)
HandlesRefreshing(r) ==
  LET t == Presented(r) IN
  /\ request[r].kind # "none" /\ request[r].back = "none"
  /\ t # NoCookies /\ t <= expired /\ owner[t] \notin revoked
  /\ \/ /\ t = Newest(owner[t]) /\ Issues(owner[t])
        /\ Back(r, "set", issued + 1)
        /\ UNCHANGED revoked
     \/ /\ Parent(t) /\ Back(r, "set", Newest(owner[t]))
        /\ UNCHANGED <<issued, owner, revoked>>
     \/ /\ t # Newest(owner[t]) /\ ~Parent(t)
        /\ revoked' = revoked \union {owner[t]} /\ Back(r, Refusal(r), NoCookies)
        /\ UNCHANGED <<issued, owner>>
  /\ UNCHANGED <<expired, jar, out, faults>>

(* The session is gone: the provider refuses, the handler clears the cookies *)
(* and the proxy calls the API without a bearer.                             *)
HandlesRefused(r) ==
  LET t == Presented(r) IN
  /\ request[r].kind # "none" /\ request[r].back = "none"
  /\ t # NoCookies /\ t <= expired /\ owner[t] \in revoked
  /\ Back(r, Refusal(r), NoCookies)
  /\ UNCHANGED <<issued, owner, revoked, expired, jar, out, faults>>

(* The answer arrives, and with it the cookies it sets or clears. *)
Lands(r) ==
  /\ request[r].back # "none"
  /\ jar' = CASE request[r].back = "set" -> request[r].set
              [] request[r].back = "clear" -> NoCookies
              [] OTHER -> jar
  /\ request' = [request EXCEPT ![r] = Free]
  /\ UNCHANGED <<issued, owner, revoked, expired, out, faults>>

(* A lifetime passes. Two requests, one after the other, do not take as      *)
(* long: a token newer than the one a request in flight carries was issued   *)
(* during it or during one that was in flight when it was sent.              *)
Expires ==
  /\ expired < issued
  /\ \A r \in Requests : request[r].sent # NoCookies => expired < request[r].sent
  /\ expired' = expired + 1
  /\ UNCHANGED <<issued, owner, revoked, jar, out, request, faults>>

(* The account menu: the provider revokes the sign-in, the client drops its  *)
(* cookies, the shell goes to the login page.                                *)
SignOut ==
  /\ jar # NoCookies
  /\ revoked' = revoked \union {owner[jar]} /\ out' = out \union {owner[jar]} /\ jar' = NoCookies
  /\ UNCHANGED <<issued, owner, expired, request, faults>>

(* The call fails: signOut's error is not looked at, the cookies stay, and   *)
(* the login page is shown all the same.                                     *)
SignOutFails ==
  /\ jar # NoCookies /\ faults < MaxFaults /\ faults' = faults + 1
  /\ UNCHANGED <<issued, owner, revoked, expired, jar, out, request>>

Next ==
  \/ SignIn \/ Expires \/ SignOut \/ SignOutFails
  \/ \E r \in Requests :
       \/ \E kind \in Kinds : Sends(r, kind)
       \/ HandlesAsIs(r) \/ HandlesRefreshing(r) \/ HandlesRefused(r) \/ Lands(r)

Spec == Init /\ [][Next]_vars

-----------------------------------------------------------------------------
(* However the requests of several tabs overlap and their answers arrive,    *)
(* rotating tokens never costs the user the session: none is revoked that    *)
(* the user did not end.                                                     *)
SessionsLast == revoked \subseteq out
=============================================================================
