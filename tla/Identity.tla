------------------------------ MODULE Identity ------------------------------
(***************************************************************************)
(* Which org a request acts for and what it may do there, at both doors:   *)
(* the REST API and the MCP server.  Once a session token is verified      *)
(* (SigningKeys) org and role come from the memberships of its user, the   *)
(* scopes from the role, and at the MCP door the tools it may call from    *)
(* the scopes; an API key brings org and scopes along.  Memberships change *)
(* between the steps of a request.                                         *)
(***************************************************************************)
EXTENDS Integers

CONSTANTS
  Orgs,         \* numbered: org_id as a tie-break
  KeyScopes,    \* the scopes of the API keys in use, each a set
  Millisecond,  \* the database's ticks in one of a JavaScript Date
  Approvals,    \* whether the firewall asks for approvals: it is built so
  MaxTime,      \* bound of the clock
  MaxChanges    \* bound: changes of memberships

\* What the constants must be; assumed where the module is instantiated.
IdentityAssumption ==
  /\ Orgs \subseteq Nat /\ Millisecond \in Nat \ {0} /\ Approvals \in BOOLEAN
  /\ MaxTime \in Nat /\ MaxChanges \in Nat
  /\ KeyScopes \subseteq SUBSET {"read", "write", "delete", "admin"}

Scopes == {"read", "write", "delete", "admin"}

Roles == {"owner", "admin", "member"}

VARIABLES
  clock,
  members,   \* the role of the user in each org, and its created_at
  changes,
  request,   \* its step, door, credential, and what was found
  held       \* history: the roles the user had in each org during the request

vars == <<clock, members, changes, request, held>>

NoMember == [role |-> "none", since |-> 0]

Idle == [pc |-> "idle", door |-> "api", key |-> FALSE, claim |-> -1,
         org |-> -1, scopes |-> {}, tool |-> "none"]

Init ==
  /\ clock = 0 /\ members = [o \in Orgs |-> NoMember] /\ changes = 0
  /\ request = Idle /\ held = {}

Tick ==
  /\ clock < MaxTime /\ clock' = clock + 1 /\ UNCHANGED <<members, changes, request, held>>

\* The user joins an org, changes role or leaves.
Change(o, role) ==
  /\ changes < MaxChanges /\ changes' = changes + 1 /\ role # members[o].role
  /\ members' = [members EXCEPT ![o] =
       IF role = "none" THEN NoMember
       ELSE [role |-> role, since |-> IF members[o].role = "none" THEN clock ELSE members[o].since]]
  /\ held' = IF request.pc \in {"org", "gate", "handler"} THEN held \cup {<<o, role>>} ELSE held
  /\ UNCHANGED <<clock, request>>

Go(pc) == request' = [request EXCEPT !.pc = pc]

Over == request.pc \in {"idle", "refused", "blocked", "forbidden", "done"}

\* A request with a session token, naming an org or not.
Begin(door, claim) ==
  /\ Over /\ request' = [Idle EXCEPT !.pc = "org", !.door = door, !.claim = claim]
  /\ held' = {<<o, members[o].role>> : o \in Orgs}
  /\ UNCHANGED <<clock, members, changes>>

\* A request with an API key: org and scopes are columns of its row.
BeginKey(door, scopes) ==
  /\ Over /\ held' = {}
  /\ request' = [Idle EXCEPT !.pc = "gate", !.door = door, !.key = TRUE, !.scopes = scopes]
  /\ UNCHANGED <<clock, members, changes>>

-----------------------------------------------------------------------------
(* Org, role and scopes *)

In == {o \in Orgs : members[o].role # "none"}

Rank(role) == CASE role = "owner" -> 0 [] role = "admin" -> 1 [] OTHER -> 2

First(before(_, _)) == {o \in In : \A p \in In \ {o} : before(o, p)}

\* The API's ORDER BY role, created_at, org_id LIMIT 1.
ApiFirst ==
  First(LAMBDA o, p :
    \/ Rank(members[o].role) < Rank(members[p].role)
    \/ /\ Rank(members[o].role) = Rank(members[p].role)
       /\ \/ members[o].since < members[p].since
          \/ members[o].since = members[p].since /\ o < p)

\* resolveOrgFromUser's sort: a Date keeps milliseconds.
McpFirst ==
  LET since(o) == members[o].since \div Millisecond
  IN First(LAMBDA o, p :
       \/ Rank(members[o].role) < Rank(members[p].role)
       \/ /\ Rank(members[o].role) = Rank(members[p].role)
          /\ since(o) < since(p) \/ (since(o) = since(p) /\ o < p))

\* scopesForRole, which both doors define alike.
ScopesFor(role) == IF role \in {"owner", "admin"} THEN Scopes ELSE {"read"}

\* The org that was named, if the user belongs to it, or the default.
Chosen ==
  IF request.claim >= 0 THEN In \cap {request.claim}
  ELSE IF request.door = "api" THEN ApiFirst ELSE McpFirst

\* Mutant: the named org with the role of the default one.
ResolveMixed ==
  /\ request.pc = "org"
  /\ \/ Chosen = {} /\ Go("refused")
     \/ \E o \in Chosen, p \in ApiFirst :
          request' = [request EXCEPT !.pc = "gate", !.org = o, !.scopes = ScopesFor(members[p].role)]
  /\ UNCHANGED <<clock, members, changes, held>>

Resolve ==
  /\ request.pc = "org"
  /\ \/ Chosen = {} /\ Go("refused")
     \/ \E o \in Chosen :
          request' = [request EXCEPT !.pc = "gate", !.org = o, !.scopes = ScopesFor(members[o].role)]
  /\ UNCHANGED <<clock, members, changes, held>>

-----------------------------------------------------------------------------
(* What it may do.  A tool, or a route, stands for the scope it asks for. *)

\* requireScope of the routes, and the check in the handlers of the tools,
\* which have none for reading.
HandlerAccepts ==
  \/ request.tool \in request.scopes \/ "admin" \in request.scopes
  \/ request.door = "mcp" /\ request.tool = "read"

\* allowedToolsForScopes
Allowed == {"read"} \cup {tool \in Scopes : {tool, "admin"} \cap request.scopes # {}}

\* The allowlist hook of the MCP server; the API has none.
Gate(tool) ==
  /\ request.pc = "gate"
  /\ request' = [request EXCEPT !.tool = tool,
       !.pc = IF request.door = "mcp" /\ tool \notin Allowed THEN "refused" ELSE "handler"]
  /\ UNCHANGED <<clock, members, changes, held>>

\* ToolFirewall.check: a destructive tool needs an approval, which nobody gives.
Blocked == request.door = "mcp" /\ request.tool = "delete" /\ Approvals

Handle ==
  /\ request.pc = "handler"
  /\ Go(IF Blocked THEN "blocked" ELSE IF HandlerAccepts THEN "done" ELSE "forbidden")
  /\ UNCHANGED <<clock, members, changes, held>>

-----------------------------------------------------------------------------
Next ==
  \/ Tick \/ (\E o \in Orgs, role \in Roles \cup {"none"} : Change(o, role))
  \/ \E door \in {"api", "mcp"} :
       \/ \E claim \in Orgs \cup {-1} : Begin(door, claim)
       \/ \E scopes \in KeyScopes : BeginKey(door, scopes)
  \/ Resolve \/ (\E tool \in Scopes : Gate(tool)) \/ Handle

Spec == Init /\ [][Next]_vars

-----------------------------------------------------------------------------
(* Properties *)

TypeOK ==
  /\ clock \in 0 .. MaxTime /\ changes \in 0 .. MaxChanges
  /\ members \in [Orgs -> [role : Roles \cup {"none"}, since : 0 .. MaxTime]]
  /\ request \in [pc : {"idle", "org", "gate", "handler", "refused", "blocked", "forbidden", "done"},
                  door : {"api", "mcp"}, key : BOOLEAN, claim : Orgs \cup {-1},
                  org : Orgs \cup {-1}, scopes : SUBSET Scopes, tool : Scopes \cup {"none"}]
  /\ held \subseteq Orgs \X (Roles \cup {"none"})

\* "mirrors @medialocker/auth.resolveOrgFromUser" (middleware/auth.ts:151): a
\* user who names no org acts for the same one at both doors, unless two
\* memberships began in one millisecond.
DoorsAgree ==
  \/ ApiFirst = McpFirst
  \/ \E o, p \in In :
       /\ members[o].since # members[p].since
       /\ members[o].since \div Millisecond = members[p].since \div Millisecond

\* Whatever a session does, at either door, some membership of its user in
\* that very org allowed it while the request was under way, though roles
\* change between its steps.
AuthorityWasHeld ==
  request.pc = "done" /\ ~request.key =>
    \E h \in held : /\ h[1] = request.org /\ h[2] # "none"
                    /\ h[2] = "member" => request.tool = "read"

\* The allowlist of a call follows its own credential: what passes it is
\* accepted by the handler's check, and what it refuses would not have been.
AllowlistIsExact ==
  request.door = "mcp" /\ request.tool # "none" =>
    /\ request.pc # "forbidden"
    /\ request.pc = "refused" => ~HandlerAccepts

\* "Destructive tools default to APPROVAL_REQUIRED (fail-closed ...)"
\* (firewall.ts:16-18): with that default nothing is deleted through the MCP
\* door, by no credential.
DestructiveFailsClosed ==
  Approvals /\ request.door = "mcp" /\ request.pc = "done" => request.tool # "delete"
=============================================================================
