---------------------------- MODULE TenantsProofs ----------------------------
(***************************************************************************)
(* Proofs about what a tenant gets and who may use it, for any orgs,       *)
(* memberships, credentials, keys, secrets, checkouts and buckets.         *)
(***************************************************************************)
EXTENDS MCTenants, FiniteSets, FiniteSetTheorems, WellFoundedInduction, TLAPS

-----------------------------------------------------------------------------
(* The org, the role and the scopes of a request *)

MemberTypes ==
  /\ now \in 0 .. LastTick /\ changes \in 0 .. MaxChanges
  /\ members \in [Orgs -> [role : Identities!Roles \cup {"none"}, since : 0 .. LastTick]]
  /\ call \in [pc : {"idle", "org", "gate", "handler", "refused", "blocked", "forbidden", "done"},
               door : {"api", "mcp"}, key : BOOLEAN, claim : Orgs \cup {-1},
               org : Orgs \cup {-1}, scopes : SUBSET Identities!Scopes, tool : Identities!Scopes \cup {"none"}]
  /\ held \subseteq Orgs \X (Identities!Roles \cup {"none"})

\* The scopes of a session are those of a role it held; until the org is
\* chosen, the roles of the moment are among those it held.
RoleInv ==
  ~call.key =>
    /\ call.pc = "org" => \A o \in Orgs : <<o, members[o].role>> \in held
    /\ call.pc \in {"gate", "handler", "done"} =>
         \E h \in held : h[1] = call.org /\ h[2] # "none" /\ call.scopes = Identities!ScopesFor(h[2])
    /\ call.pc = "done" => Identities!HandlerAccepts

\* A tool that is with its handler passed the allowlist.
ToolInv ==
  /\ call.pc \in {"idle", "org", "gate"} => call.tool = "none"
  /\ call.pc \in {"handler", "blocked", "forbidden", "done"} => call.tool # "none"
  /\ call.door = "mcp" /\ call.tool # "none" =>
       /\ call.pc # "forbidden" /\ (call.pc # "refused" => call.tool \in Identities!Allowed)
       /\ call.pc = "refused" => call.tool \notin Identities!Allowed
       /\ call.pc = "done" => ~Identities!Blocked

IdentityInv == MemberTypes /\ RoleInv /\ ToolInv

\* The allowlist of the MCP server is the check of its handlers.
LEMMA GateIsHandler ==
  ASSUME MemberTypes, call.door = "mcp", call.tool # "none"
  PROVE  call.tool \in Identities!Allowed <=> Identities!HandlerAccepts
BY DEF MemberTypes, Identities!Allowed, Identities!HandlerAccepts, Identities!Scopes

\* Dates compare as the database's times do, unless they are equal.
LEMMA Milliseconds ==
  ASSUME NEW m \in Nat \ {0}, NEW a \in Nat, NEW b \in Nat, a < b
  PROVE  a \div m <= b \div m
<1> DEFINE p == a \div m
           q == b \div m
<1>1. p \in Int /\ q \in Int /\ m * p <= a /\ b < m * q + m
  OBVIOUS
<1> HIDE DEF p, q
<1>2. p > q => m * p >= m * (q + 1)
  BY <1>1
<1>3. m * (q + 1) = m * q + m
  BY <1>1
<1> QED
  BY <1>1, <1>2, <1>3

LEMMA OneDefaultOrg == MemberTypes => Identities!DoorsAgree
<1> SUFFICES ASSUME MemberTypes,
                    \A o, p \in Identities!In :
                      members[o].since # members[p].since =>
                        members[o].since \div Millisecond # members[p].since \div Millisecond
             PROVE  Identities!ApiFirst = Identities!McpFirst
  BY DEF Identities!DoorsAgree
<1>1. ASSUME NEW o \in Identities!In, NEW p \in Identities!In
      PROVE  members[o].since < members[p].since <=>
               members[o].since \div Millisecond < members[p].since \div Millisecond
  <2>1. members[o].since \in Nat /\ members[p].since \in Nat
    BY DEF MemberTypes, Identities!In
  <2> QED
    BY <1>1, <2>1, Milliseconds, AuthorityAssumption DEF Identities!IdentityAssumption
<1> QED
  BY <1>1 DEF Identities!ApiFirst, Identities!McpFirst, Identities!First

LEMMA AuthorityIsHeld ==
  IdentityInv =>
    /\ Identities!TypeOK /\ Identities!DoorsAgree /\ Identities!AuthorityWasHeld
    /\ Identities!AllowlistIsExact /\ Identities!DestructiveFailsClosed
<1> SUFFICES ASSUME IdentityInv
             PROVE  /\ Identities!TypeOK /\ Identities!DoorsAgree /\ Identities!AuthorityWasHeld
                    /\ Identities!AllowlistIsExact /\ Identities!DestructiveFailsClosed
  OBVIOUS
<1> USE DEF IdentityInv
<1>1. Identities!TypeOK
  BY DEF MemberTypes, Identities!TypeOK
<1>2. Identities!AuthorityWasHeld
  <2> SUFFICES ASSUME call.pc = "done", ~call.key
               PROVE  \E h \in held : /\ h[1] = call.org /\ h[2] # "none"
                                      /\ h[2] = "member" => call.tool = "read"
    BY DEF Identities!AuthorityWasHeld
  <2>1. PICK h \in held : h[1] = call.org /\ h[2] # "none" /\ call.scopes = Identities!ScopesFor(h[2])
    BY DEF RoleInv
  <2>2. h[2] = "member" => call.tool = "read"
    BY <2>1 DEF RoleInv, Identities!HandlerAccepts, Identities!ScopesFor
  <2> QED
    BY <2>1, <2>2
<1>3. Identities!AllowlistIsExact
  BY GateIsHandler DEF ToolInv, Identities!AllowlistIsExact
<1>4. Identities!DestructiveFailsClosed
  BY DEF ToolInv, Identities!DestructiveFailsClosed, Identities!Blocked, Identities!Scopes, MemberTypes
<1> QED
  BY <1>1, <1>2, <1>3, <1>4, OneDefaultOrg

LEMMA InitIdentity == Identities!Init => IdentityInv
<1> SUFFICES ASSUME Identities!Init PROVE IdentityInv
  OBVIOUS
<1>1. call = [pc |-> "idle", door |-> "api", key |-> FALSE, claim |-> -1,
              org |-> -1, scopes |-> {}, tool |-> "none"]
  BY DEF Identities!Init, Identities!Idle
<1>2. MemberTypes
  BY <1>1, AuthorityAssumption
     DEF Identities!Init, Identities!NoMember, MemberTypes, Identities!IdentityAssumption
<1> QED
  BY <1>1, <1>2 DEF IdentityInv, RoleInv, ToolInv

\* Memberships change, the clock goes on.
LEMMA MembersKeep ==
  ASSUME IdentityInv,
         Identities!Tick \/ \E o \in Orgs, role \in Identities!Roles \cup {"none"} : Identities!Change(o, role)
  PROVE  IdentityInv'
<1> USE DEF IdentityInv
<1>1. CASE Identities!Tick
  <2>1. now' \in 0 .. LastTick /\ UNCHANGED <<members, changes, call, held>>
    BY <1>1, AuthorityAssumption DEF Identities!Tick, Identities!IdentityAssumption, MemberTypes
  <2> QED
    BY <2>1 DEF MemberTypes, RoleInv, ToolInv, Identities!HandlerAccepts, Identities!Allowed, Identities!Blocked
<1>2. ASSUME NEW o \in Orgs, NEW role \in Identities!Roles \cup {"none"}, Identities!Change(o, role)
      PROVE  IdentityInv'
  <2> DEFINE new == IF role = "none" THEN Identities!NoMember
                    ELSE [role |-> role, since |-> IF members[o].role = "none" THEN now ELSE members[o].since]
  <2>1. /\ changes' \in 0 .. MaxChanges /\ members' = [members EXCEPT ![o] = new]
        /\ UNCHANGED <<now, call>>
    BY <1>2, AuthorityAssumption DEF Identities!Change, Identities!IdentityAssumption, MemberTypes
  <2>2. new \in [role : Identities!Roles \cup {"none"}, since : 0 .. LastTick] /\ new.role = role
    BY <1>2, AuthorityAssumption DEF MemberTypes, Identities!NoMember, Identities!IdentityAssumption
  <2> HIDE DEF new
  <2>3. held' = IF call.pc \in {"org", "gate", "handler"} THEN held \cup {<<o, role>>} ELSE held
    BY <1>2 DEF Identities!Change
  <2>4. held \subseteq held' /\ held' \subseteq Orgs \X (Identities!Roles \cup {"none"})
    BY <1>2, <2>3 DEF MemberTypes
  <2>5. MemberTypes'
    BY <2>1, <2>2, <2>4 DEF MemberTypes
  <2>6. ASSUME ~call.key, call.pc = "org", NEW p \in Orgs PROVE <<p, members'[p].role>> \in held'
    <3>1. CASE p = o
      BY <2>1, <2>2, <2>3, <2>6, <3>1 DEF MemberTypes
    <3>2. CASE p # o
      BY <2>1, <2>4, <2>6, <3>2 DEF MemberTypes, RoleInv
    <3> QED
      BY <3>1, <3>2
  <2>7. RoleInv'
    BY <2>1, <2>4, <2>6 DEF RoleInv, Identities!HandlerAccepts
  <2>8. ToolInv'
    BY <2>1 DEF ToolInv, Identities!HandlerAccepts, Identities!Allowed, Identities!Blocked
  <2> QED
    BY <2>5, <2>7, <2>8
<1> QED
  BY <1>1, <1>2

\* A request comes in, with a session or with an API key.
LEMMA BeginsKeep ==
  ASSUME IdentityInv, NEW door \in {"api", "mcp"},
         \/ \E claim \in Orgs \cup {-1} : Identities!Begin(door, claim)
         \/ \E scopes \in KeyScopes : Identities!BeginKey(door, scopes)
  PROVE  IdentityInv'
<1> USE DEF IdentityInv
<1>1. ASSUME NEW claim \in Orgs \cup {-1}, Identities!Begin(door, claim) PROVE IdentityInv'
  <2>1. /\ call'.pc = "org" /\ ~call'.key /\ call'.tool = "none" /\ call'.door = door
        /\ call' \in [pc : {"org"}, door : {"api", "mcp"}, key : BOOLEAN, claim : Orgs \cup {-1},
                      org : {-1}, scopes : SUBSET Identities!Scopes, tool : {"none"}]
        /\ held' = {<<o, members[o].role>> : o \in Orgs}
        /\ UNCHANGED <<now, members, changes>>
    BY <1>1 DEF Identities!Begin, Identities!Idle
  <2>2. held' \subseteq Orgs \X (Identities!Roles \cup {"none"})
    BY <2>1 DEF MemberTypes
  <2>3. MemberTypes'
    BY <2>1, <2>2 DEF MemberTypes
  <2> QED
    BY <2>1, <2>3 DEF RoleInv, ToolInv
<1>2. ASSUME NEW scopes \in KeyScopes, Identities!BeginKey(door, scopes) PROVE IdentityInv'
  <2>1. scopes \in SUBSET Identities!Scopes
    BY AuthorityAssumption DEF Identities!IdentityAssumption, Identities!Scopes
  <2>2. /\ call'.pc = "gate" /\ call'.key /\ call'.tool = "none" /\ call'.door = door
        /\ call' \in [pc : {"gate"}, door : {"api", "mcp"}, key : BOOLEAN, claim : {-1},
                      org : {-1}, scopes : SUBSET Identities!Scopes, tool : {"none"}]
        /\ held' = {} /\ UNCHANGED <<now, members, changes>>
    BY <1>2, <2>1 DEF Identities!BeginKey, Identities!Idle
  <2>3. MemberTypes'
    BY <2>2 DEF MemberTypes
  <2> QED
    BY <2>2, <2>3 DEF RoleInv, ToolInv
<1> QED
  BY <1>1, <1>2

\* Org and scopes are found: the scopes of the role in that very org.
LEMMA ResolveKeeps == ASSUME IdentityInv, Identities!Resolve PROVE IdentityInv'
<1> USE DEF IdentityInv
<1>1. call.pc = "org" /\ call.tool = "none" /\ UNCHANGED <<now, members, changes, held>>
  BY DEF Identities!Resolve, ToolInv
<1>2. CASE call' = [call EXCEPT !.pc = "refused"]
  <2>1. MemberTypes' /\ call'.pc = "refused" /\ call'.tool = "none"
    BY <1>1, <1>2 DEF MemberTypes
  <2> QED
    BY <2>1 DEF RoleInv, ToolInv
<1>3. ASSUME NEW o \in Identities!Chosen,
             call' = [call EXCEPT !.pc = "gate", !.org = o, !.scopes = Identities!ScopesFor(members[o].role)]
      PROVE  IdentityInv'
  <2>1. o \in Orgs /\ members[o].role # "none"
    BY DEF Identities!Chosen, Identities!In, Identities!ApiFirst, Identities!McpFirst, Identities!First
  <2>2. Identities!ScopesFor(members[o].role) \in SUBSET Identities!Scopes
    BY DEF Identities!ScopesFor, Identities!Scopes
  <2>3. /\ MemberTypes' /\ call'.pc = "gate" /\ call'.tool = "none" /\ call'.org = o /\ call'.key = call.key
        /\ call'.scopes = Identities!ScopesFor(members[o].role)
    BY <1>1, <1>3, <2>1, <2>2 DEF MemberTypes
  <2>4. ~call.key => <<o, members[o].role>> \in held'
    BY <1>1, <2>1 DEF RoleInv
  <2> QED
    BY <2>1, <2>3, <2>4 DEF RoleInv, ToolInv
<1> QED
  BY <1>2, <1>3 DEF Identities!Resolve, Identities!Go

\* The tool or the route is named; the MCP server asks its allowlist.
LEMMA GateKeeps == ASSUME IdentityInv, NEW tool \in Identities!Scopes, Identities!Gate(tool) PROVE IdentityInv'
<1> USE DEF IdentityInv
<1> DEFINE to == IF call.door = "mcp" /\ tool \notin Identities!Allowed THEN "refused" ELSE "handler"
<1>1. /\ call.pc = "gate" /\ call' = [call EXCEPT !.tool = tool, !.pc = to]
      /\ to \in {"refused", "handler"} /\ tool # "none" /\ UNCHANGED <<now, members, changes, held>>
  BY DEF Identities!Gate, Identities!Scopes
<1>2. to = "refused" <=> call.door = "mcp" /\ tool \notin Identities!Allowed
  OBVIOUS
<1> HIDE DEF to
<1>3. /\ MemberTypes' /\ call'.pc = to /\ call'.tool = tool /\ call'.door = call.door
      /\ call'.key = call.key /\ call'.org = call.org /\ call'.scopes = call.scopes
  BY <1>1 DEF MemberTypes
<1>4. Identities!Allowed' = Identities!Allowed
  BY <1>3 DEF Identities!Allowed
<1>5. RoleInv'
  BY <1>1, <1>3 DEF RoleInv
<1>6. ToolInv'
  BY <1>1, <1>2, <1>3, <1>4 DEF ToolInv
<1> QED
  BY <1>3, <1>5, <1>6

\* The firewall and the handler decide.
LEMMA HandleKeeps == ASSUME IdentityInv, Identities!Handle PROVE IdentityInv'
<1> USE DEF IdentityInv
<1> DEFINE to == IF Identities!Blocked THEN "blocked"
                 ELSE IF Identities!HandlerAccepts THEN "done" ELSE "forbidden"
<1>1. /\ call.pc = "handler" /\ call' = [call EXCEPT !.pc = to] /\ call.tool # "none"
      /\ to \in {"blocked", "done", "forbidden"} /\ UNCHANGED <<now, members, changes, held>>
  BY DEF Identities!Handle, Identities!Go, ToolInv
<1>2. /\ to = "done" => Identities!HandlerAccepts /\ ~Identities!Blocked
      /\ to = "forbidden" => ~Identities!HandlerAccepts
  OBVIOUS
<1> HIDE DEF to
<1>3. /\ MemberTypes' /\ call'.pc = to /\ call'.tool = call.tool /\ call'.door = call.door
      /\ call'.key = call.key /\ call'.org = call.org /\ call'.scopes = call.scopes
  BY <1>1 DEF MemberTypes
<1>4. /\ Identities!Allowed' = Identities!Allowed /\ (Identities!HandlerAccepts' <=> Identities!HandlerAccepts)
      /\ (Identities!Blocked' <=> Identities!Blocked)
  BY <1>3 DEF Identities!Allowed, Identities!HandlerAccepts, Identities!Blocked
<1>5. RoleInv'
  BY <1>1, <1>2, <1>3, <1>4 DEF RoleInv
<1>6. call.door = "mcp" => to # "forbidden"
  BY <1>1, <1>2, GateIsHandler DEF ToolInv
<1>7. ToolInv'
  BY <1>1, <1>2, <1>3, <1>4, <1>6 DEF ToolInv
<1> QED
  BY <1>3, <1>5, <1>7

LEMMA IdentityKeeps == IdentityInv /\ Identities!Next => IdentityInv'
BY MembersKeep, BeginsKeep, ResolveKeeps, GateKeeps, HandleKeeps DEF Identities!Next

-----------------------------------------------------------------------------
(* The signing keys of session tokens *)

ReaderRecord ==
  [pc : {"idle", "fetch", "answer", "unreachable", "verified", "refused"},
   kid : Kids \cup {"none"}, body : SUBSET Kids, sampled : 0 .. MaxTime]

KeyTypes ==
  /\ clock \in 0 .. MaxTime /\ published \subseteq Kids /\ retired \in [Kids -> -1 .. MaxTime]
  /\ cache \in [keys : SUBSET Kids, at : 0 .. MaxTime] /\ cache.at <= clock
  /\ request \in [Readers -> ReaderRecord] /\ \A r \in Readers : request[r].sampled <= clock
  /\ \A r \in Readers : request[r].pc \in {"fetch", "answer"} => request[r].kid \in Kids

\* What an answer or the cache still names was published when the answer was
\* given, and that is at most Latency ago, or was when it arrived.
SeenInv ==
  /\ \A r \in Readers : request[r].pc = "answer" =>
       /\ clock <= request[r].sampled + Latency
       /\ \A k \in request[r].body : k \in published \/ request[r].sampled <= retired[k]
  /\ \A k \in cache.keys : k \in published \/ cache.at <= retired[k] + Latency
  /\ \A k \in Kids : k \in published => retired[k] = -1

SigningInv == KeyTypes /\ SeenInv

LEMMA InitSigning == Signing!Init => SigningInv
BY AuthorityAssumption
   DEF Signing!Init, Signing!Idle, SigningInv, KeyTypes, SeenInv, ReaderRecord, Signing!SigningAssumption

LEMMA SigningTypes == SigningInv => Signing!TypeOK
BY DEF SigningInv, KeyTypes, ReaderRecord, Signing!TypeOK

LEMMA IdleFits == Signing!Idle \in ReaderRecord
BY AuthorityAssumption DEF Signing!SigningAssumption, Signing!Idle, ReaderRecord

\* One request moves, to a record that fits.
LEMMA ReaderMoves ==
  ASSUME SigningInv, NEW r \in Readers, NEW to \in ReaderRecord, request' = [request EXCEPT ![r] = to],
         UNCHANGED <<clock, published, retired, cache>>, to.sampled <= clock,
         to.pc \in {"fetch", "answer"} => to.kid \in Kids,
         to.pc = "answer" => to.body = published /\ to.sampled = clock
  PROVE  SigningInv'
<1>1. request' \in [Readers -> ReaderRecord] /\ \A q \in Readers : request'[q] = IF q = r THEN to ELSE request[q]
  BY DEF SigningInv, KeyTypes
<1>2. KeyTypes'
  BY <1>1 DEF SigningInv, KeyTypes
<1>3. clock <= clock + Latency
  BY AuthorityAssumption DEF Signing!SigningAssumption, SigningInv, KeyTypes
<1>4. SeenInv'
  BY <1>1, <1>3 DEF SigningInv, SeenInv
<1> QED
  BY <1>2, <1>4 DEF SigningInv

LEMMA SigningKeeps == SigningInv /\ Signing!Next => SigningInv'
<1> SUFFICES ASSUME SigningInv, Signing!Next PROVE SigningInv'
  OBVIOUS
<1> USE DEF SigningInv
<1>0. MaxTime \in Nat /\ clock \in Nat
  BY AuthorityAssumption DEF Signing!SigningAssumption, KeyTypes
<1>1. CASE Signing!Tick
  <2>1. clock' = clock + 1 /\ clock' \in 0 .. MaxTime /\ UNCHANGED <<published, retired, cache, request>>
    BY <1>1, AuthorityAssumption DEF Signing!Tick, Signing!SigningAssumption, KeyTypes
  <2>2. KeyTypes'
    BY <2>1 DEF KeyTypes, ReaderRecord
  <2>3. ASSUME NEW r \in Readers, request[r].pc = "answer" PROVE clock + 1 <= request[r].sampled + Latency
    <3>1. clock < request[r].sampled + Latency /\ request[r].sampled \in Int /\ clock \in Int /\ Latency \in Int
      BY <1>1, <2>3, AuthorityAssumption DEF Signing!Tick, Signing!SigningAssumption, KeyTypes, ReaderRecord
    <3> QED
      BY <3>1
  <2>4. SeenInv'
    BY <2>1, <2>3 DEF SeenInv
  <2> QED
    BY <2>2, <2>4
<1>2. ASSUME NEW k \in Kids, Signing!Publish(k) PROVE SigningInv'
  BY <1>2 DEF Signing!Publish, KeyTypes, SeenInv
<1>3. ASSUME NEW k \in Kids, Signing!Retire(k) PROVE SigningInv'
  <2>1. /\ published' = published \ {k} /\ UNCHANGED <<clock, cache, request>>
        /\ retired' \in [Kids -> -1 .. MaxTime] /\ retired'[k] = clock
        /\ \A j \in Kids : j # k => retired'[j] = retired[j]
    BY <1>3 DEF Signing!Retire, KeyTypes
  <2>2. KeyTypes'
    BY <2>1 DEF KeyTypes
  <2>3. ASSUME NEW r \in Readers, request'[r].pc = "answer", NEW j \in request'[r].body
        PROVE  j \in published' \/ request'[r].sampled <= retired'[j]
    BY <2>1, <2>3 DEF KeyTypes, SeenInv, ReaderRecord
  <2>4. ASSUME NEW j \in cache'.keys PROVE j \in published' \/ cache'.at <= retired'[j] + Latency
    <3>1. j \in Kids /\ Latency \in Nat /\ cache.at <= clock /\ cache.at \in Nat /\ clock \in Nat
      BY <2>1, AuthorityAssumption DEF KeyTypes, Signing!SigningAssumption
    <3> QED
      BY <2>1, <3>1 DEF SeenInv
  <2>5. \A j \in Kids : j \in published' => retired'[j] = -1
    BY <2>1 DEF SeenInv
  <2> QED
    BY <2>1, <2>2, <2>3, <2>4, <2>5 DEF SeenInv
<1>4. ASSUME NEW r \in Readers, NEW k \in Kids, Signing!Verify(r, k) PROVE SigningInv'
  <2>1. UNCHANGED <<clock, published, retired, cache>>
    BY <1>4 DEF Signing!Verify
  <2>2. PICK then \in {"fetch", "verified", "refused"} :
          request' = [request EXCEPT ![r] = [Signing!Idle EXCEPT !.kid = k, !.pc = then]]
    BY <1>4 DEF Signing!Verify
  <2> DEFINE to == [Signing!Idle EXCEPT !.kid = k, !.pc = then]
  <2>3. to \in ReaderRecord /\ to.sampled = 0 /\ to.kid = k /\ to.pc = then /\ request' = [request EXCEPT ![r] = to]
    <3>1. to \in ReaderRecord
      BY IdleFits DEF ReaderRecord
    <3> QED
      BY <2>2, <3>1 DEF Signing!Idle
  <2> HIDE DEF to
  <2>4. to.sampled <= clock /\ to.pc # "answer"
    BY <1>0, <2>2, <2>3
  <2> QED
    BY <2>1, <2>3, <2>4, ReaderMoves
<1>5. ASSUME NEW r \in Readers, Signing!Sample(r) PROVE SigningInv'
  <2> DEFINE to == [request[r] EXCEPT !.pc = "answer", !.body = published, !.sampled = clock]
  <2>1. /\ to \in ReaderRecord /\ to.sampled = clock /\ to.body = published /\ to.pc = "answer" /\ to.kid \in Kids
    BY <1>5 DEF Signing!Sample, ReaderRecord, KeyTypes
  <2>2. request' = [request EXCEPT ![r] = to] /\ UNCHANGED <<clock, published, retired, cache>>
    BY <1>5 DEF Signing!Sample, KeyTypes
  <2> HIDE DEF to
  <2>3. to.sampled <= clock
    BY <1>0, <2>1
  <2> QED
    BY <2>1, <2>2, <2>3, ReaderMoves
<1>6. ASSUME NEW r \in Readers, Signing!FetchFails(r) PROVE SigningInv'
  <2> DEFINE to == [Signing!Idle EXCEPT !.pc = "unreachable"]
  <2>1. /\ to \in ReaderRecord /\ to.sampled = 0 /\ to.pc = "unreachable"
        /\ request' = [request EXCEPT ![r] = to] /\ UNCHANGED <<clock, published, retired, cache>>
    BY <1>0, <1>6 DEF Signing!FetchFails, Signing!Idle, ReaderRecord
  <2> HIDE DEF to
  <2>2. to.sampled <= clock /\ to.pc \notin {"fetch", "answer"}
    BY <1>0, <2>1
  <2> QED
    BY <2>1, <2>2, ReaderMoves
<1>7. ASSUME NEW r \in Readers, Signing!Receive(r) PROVE SigningInv'
  <2>a. request[r].kid \in Kids
    BY <1>7 DEF Signing!Receive, KeyTypes
  <2>b. PICK then \in {"verified", "refused"} :
          request' = [request EXCEPT ![r] = [Signing!Idle EXCEPT !.kid = request[r].kid, !.pc = then]]
    BY <1>7 DEF Signing!Receive
  <2> DEFINE to == [Signing!Idle EXCEPT !.kid = request[r].kid, !.pc = then]
  <2>c. to \in ReaderRecord /\ to.sampled = 0 /\ to.pc = then
    <3>1. to \in ReaderRecord
      BY <2>a, IdleFits DEF ReaderRecord
    <3> QED
      BY <3>1 DEF Signing!Idle
  <2>1. /\ request[r].pc = "answer" /\ cache' = [keys |-> request[r].body, at |-> clock]
        /\ to \in ReaderRecord /\ to.sampled = 0 /\ to.pc \in {"verified", "refused"}
        /\ request' = [request EXCEPT ![r] = to] /\ UNCHANGED <<clock, published, retired>>
    BY <1>7, <2>b, <2>c DEF Signing!Receive
  <2> HIDE DEF to
  <2>2. request' \in [Readers -> ReaderRecord] /\ \A q \in Readers : request'[q] = IF q = r THEN to ELSE request[q]
    BY <2>1 DEF KeyTypes
  <2>3. cache' \in [keys : SUBSET Kids, at : 0 .. MaxTime] /\ cache'.at = clock /\ cache'.keys = request[r].body
    BY <2>1 DEF KeyTypes, ReaderRecord
  <2>4. KeyTypes'
    BY <2>1, <2>2, <2>3 DEF KeyTypes
  <2>5. ASSUME NEW k \in cache'.keys PROVE k \in published \/ cache'.at <= retired[k] + Latency
    <3>1. k \in Kids /\ clock <= request[r].sampled + Latency /\ (k \in published \/ request[r].sampled <= retired[k])
      BY <2>1, <2>3, <2>5 DEF SeenInv, KeyTypes
    <3>2. Latency \in Int /\ request[r].sampled \in Int /\ clock \in Int /\ (k \in Kids => retired[k] \in Int)
      BY AuthorityAssumption DEF Signing!SigningAssumption, KeyTypes, ReaderRecord
    <3> QED
      BY <2>3, <3>1, <3>2
  <2>6. SeenInv'
    BY <2>1, <2>2, <2>5 DEF SeenInv
  <2> QED
    BY <2>4, <2>6
<1> QED
  BY <1>1, <1>2, <1>3, <1>4, <1>5, <1>6, <1>7 DEF Signing!Next

\* The two action properties, of each step.
KeysFade ==
  \A r \in Readers : request'[r].pc = "verified" /\ request[r] # request'[r] =>
    \/ request'[r].kid \in published
    \/ clock <= retired[request'[r].kid] + TTL + Latency

KeysFound ==
  \A r \in Readers : request'[r].pc = "refused" /\ request[r] # request'[r] =>
    \/ request'[r].kid \notin published
    \/ request[r].pc = "answer" /\ request[r].kid \notin request[r].body

LEMMA SigningSteps == SigningInv /\ Signing!Next => KeysFade /\ KeysFound
<1> SUFFICES ASSUME SigningInv, Signing!Next, NEW r \in Readers, request[r] # request'[r]
             PROVE  /\ request'[r].pc = "verified" =>
                         request'[r].kid \in published \/ clock <= retired[request'[r].kid] + TTL + Latency
                    /\ request'[r].pc = "refused" =>
                         \/ request'[r].kid \notin published
                         \/ request[r].pc = "answer" /\ request[r].kid \notin request[r].body
  BY DEF KeysFade, KeysFound
<1> USE DEF SigningInv
<1>1. TTL \in Nat /\ Latency \in Nat /\ clock \in Int /\ cache.at \in Int /\ request[r].sampled \in Int
  BY AuthorityAssumption DEF Signing!SigningAssumption, KeyTypes, ReaderRecord
<1>2. PICK q \in Readers : Signing!Sample(q) \/ Signing!FetchFails(q) \/ Signing!Receive(q)
                           \/ \E k \in Kids : Signing!Verify(q, k)
  BY DEF Signing!Next, Signing!Tick, Signing!Publish, Signing!Retire
<1>3. q = r /\ request \in [Readers -> ReaderRecord]
  BY <1>2 DEF Signing!Sample, Signing!FetchFails, Signing!Receive, Signing!Verify, KeyTypes
<1>4. CASE Signing!Sample(r) \/ Signing!FetchFails(r)
  <2>1. request'[r].pc \in {"answer", "unreachable"}
    BY <1>3, <1>4 DEF Signing!Sample, Signing!FetchFails, Signing!Idle, ReaderRecord
  <2> QED
    BY <2>1
<1>5. CASE Signing!Receive(r)
  <2>1. /\ request[r].pc = "answer" /\ request'[r].kid = request[r].kid
        /\ request'[r].pc = "verified" => request[r].kid \in request[r].body
        /\ request'[r].pc = "refused" => request[r].kid \notin request[r].body
    BY <1>3, <1>5 DEF Signing!Receive, Signing!Idle
  <2>2. request[r].kid \in request[r].body =>
          \/ request[r].kid \in published
          \/ /\ request[r].sampled <= retired[request[r].kid] /\ clock <= request[r].sampled + Latency
             /\ retired[request[r].kid] \in Int
    BY <2>1 DEF SeenInv, KeyTypes
  <2> QED
    BY <1>1, <2>1, <2>2
<1>6. ASSUME NEW k \in Kids, Signing!Verify(r, k) PROVE KeysFade /\ KeysFound
  <2>1. /\ request'[r].kid = k /\ request'[r].pc # "refused"
        /\ request'[r].pc = "verified" => k \in cache.keys /\ ~(clock - cache.at > TTL)
        /\ \A p \in Readers : p # r => request'[p] = request[p]
    BY <1>3, <1>6 DEF Signing!Verify, Signing!Idle, Signing!Stale
  <2>2. k \in cache.keys => k \in published \/ (cache.at <= retired[k] + Latency /\ retired[k] \in Int)
    BY <1>6 DEF SeenInv, KeyTypes
  <2> QED
    BY <1>1, <2>1, <2>2 DEF KeysFade, KeysFound
<1> QED
  BY <1>2, <1>3, <1>4, <1>5, <1>6 DEF KeysFade, KeysFound

-----------------------------------------------------------------------------
(* The internal secret *)

Promoting == {"demote", "promote"}
Cur == Rotation!In("current")
Pen == Rotation!In("pending")
Prev == Rotation!In("previous")
One(S) == \E v \in S : S = {v}

StageTypes ==
  /\ Rotation!TypeOK /\ lastFault <= day /\ \A r \in Senders : sentOn[r] <= day
  /\ stages \in [Rotation!Versions -> {{}, {"current"}, {"pending"}, {"previous"}}]

\* Rows are numbered in the order they become previous, current, pending, and
\* no row that was activated goes.
OrderInv ==
  /\ activated = Cur \cup Prev /\ (Rotation!Rows # {} => activated # {})
  /\ \A v \in Prev, w \in Cur : v < w
  /\ \A v \in Cur \cup Prev, w \in Pen : v < w
  /\ \A v, w \in Rotation!Rows : created[v] <= day /\ (v < w => created[v] <= created[w])
  /\ \A v \in Cur, p \in Pen : created[v] < created[p]

\* Where a run is, and what is current then; the row it stored is pending.
RunInv ==
  /\ run # "idle" \/ ran => Rotation!Rows # {}
  /\ run # "idle" => ~ran
  /\ run = "promote" => Cur = {}
  /\ run \in Promoting => \E p \in Pen : created[p] = day
  /\ \A p \in Pen : created[p] <= lastFault \/ (run \in Promoting /\ created[p] = day)
  /\ day > lastFault => \A p, q \in Pen : created[p] = day /\ created[q] = day => p = q
  /\ ~ran => \/ \A v \in Cur : created[v] < day
             \/ run \in {"idle", "check"} /\ One(Cur) /\ Pen = {} /\ ~torn
  /\ torn => Rotation!Rows # {}
  /\ ~torn /\ Rotation!Rows # {} =>
       /\ IF run = "promote" THEN Cur = {} ELSE One(Cur)
       /\ IF run \in Promoting THEN One(Pen) ELSE Pen = {}

\* What a failed run left behind is repaired within three days.
MendInv ==
  /\ (day >= lastFault + 2 \/ (day = lastFault + 1 /\ ran)) /\ Rotation!Rows # {} =>
       IF run \in Promoting THEN One(Pen) ELSE Pen = {} /\ Cur # {}
  /\ (day = lastFault + 2 /\ ran) \/ (day = lastFault + 3 /\ ~ran) =>
       ~torn \/ \A v \in Cur : created[v] <= lastFault + 1
  /\ (day = lastFault + 3 /\ ran) \/ day > lastFault + 3 => ~torn
  /\ ran /\ day >= lastFault + 3 => \A v \in Cur : created[v] >= day - 1

\* A request of the day is signed with the newest secret that was activated,
\* or with the one before it when that is the one of today's run.
Newer(v) == {w \in activated : w > v}

SignedInv ==
  \A r \in Senders : verdict[r] = "sent" /\ sentOn[r] = day /\ signed[r] # 0 =>
    /\ signed[r] \in activated
    /\ Newer(signed[r]) = {} \/ (ran /\ (torn \/ One(Newer(signed[r]))))

RotationInv == StageTypes /\ OrderInv /\ RunInv /\ MendInv /\ SignedInv

LEMMA Largest ==
  ASSUME NEW m \in Nat, NEW S \in SUBSET (0 .. m), S # {}
  PROVE  \E x \in S : \A y \in S : y <= x
<1> DEFINE T == {n \in Nat : m - n \in S}
<1>1. PICK s \in S : TRUE
  OBVIOUS
<1>2. s \in 0 .. m /\ m - (m - s) = s /\ m - s \in Nat
  OBVIOUS
<1>3. T \subseteq Nat /\ T # {}
  BY <1>1, <1>2
<1> HIDE DEF T
<1>4. \E x \in T : \A y \in T : ~ (<<y, x>> \in OpToRel(<, Nat))
  BY <1>3, NatLessThanWellFounded, WFMin
<1>5. PICK x \in T : \A y \in T : ~(y < x)
  BY <1>3, <1>4 DEF OpToRel
<1>6. x \in Nat /\ m - x \in S
  BY DEF T
<1>7. ASSUME NEW y \in S PROVE y <= m - x
  <2>1. y \in 0 .. m /\ m - y \in Nat /\ m - (m - y) = y
    OBVIOUS
  <2>2. m - y \in T
    BY <2>1 DEF T
  <2> QED
    BY <1>5, <1>6, <2>1, <2>2
<1> QED
  BY <1>6, <1>7

\* The rotation counts with the same operator.
LEMMA SameCount == \A S : Rotation!Cardinality(S) = Cardinality(S)
BY DEF Rotation!Cardinality, Cardinality

LEMMA RotationConstants == MaxDay \in Nat /\ MaxVersion \in Nat /\ Rotation!Versions = 0 .. MaxVersion
BY AuthorityAssumption DEF Rotation!RotationAssumption, Rotation!Versions

\* The rows, by their stages.
LEMMA StageSets ==
  ASSUME StageTypes
  PROVE  /\ Cur = {v \in Rotation!Versions : stages[v] = {"current"}}
         /\ Pen = {v \in Rotation!Versions : stages[v] = {"pending"}}
         /\ Prev = {v \in Rotation!Versions : stages[v] = {"previous"}}
         /\ Rotation!Rows = {v \in Rotation!Versions : stages[v] # {}}
         /\ Rotation!Rows = Cur \cup Pen \cup Prev
         /\ \A v \in Rotation!Versions : created[v] \in Nat /\ v \in Nat
         /\ day \in Nat /\ lastFault \in Int /\ torn \in BOOLEAN /\ ran \in BOOLEAN
<1>1. \A v \in Rotation!Versions : stages[v] \in {{}, {"current"}, {"pending"}, {"previous"}}
  BY DEF StageTypes
<1>2. Cur = {v \in Rotation!Versions : stages[v] = {"current"}}
  BY <1>1 DEF Cur, Rotation!In
<1>3. Pen = {v \in Rotation!Versions : stages[v] = {"pending"}}
  BY <1>1 DEF Pen, Rotation!In
<1>4. Prev = {v \in Rotation!Versions : stages[v] = {"previous"}}
  BY <1>1 DEF Prev, Rotation!In
<1>5. Rotation!Rows = {v \in Rotation!Versions : stages[v] # {}}
  BY DEF Rotation!Rows
<1>6. Rotation!Rows = Cur \cup Pen \cup Prev
  BY <1>1, <1>2, <1>3, <1>4, <1>5
<1>7. /\ \A v \in Rotation!Versions : created[v] \in Nat /\ v \in Nat
      /\ day \in Nat /\ lastFault \in Int /\ torn \in BOOLEAN /\ ran \in BOOLEAN
  BY RotationConstants DEF StageTypes, Rotation!TypeOK
<1> QED
  BY <1>2, <1>3, <1>4, <1>5, <1>6, <1>7

\* The version that signs is the newest of those that are current.
LEMMA NewestCurrent ==
  ASSUME StageTypes, Cur # {}
  PROVE  \E v \in Rotation!Current : v \in Cur /\ \A w \in Cur : w <= v
<1>1. Cur \in SUBSET (0 .. MaxVersion)
  BY StageSets, RotationConstants
<1>2. PICK v \in Cur : \A w \in Cur : w <= v
  BY <1>1, Largest, RotationConstants
<1> QED
  BY <1>2 DEF Rotation!Current, Cur

LEMMA InitRotation == Rotation!Init => RotationInv
<1> SUFFICES ASSUME Rotation!Init PROVE RotationInv
  OBVIOUS
<1>1. StageTypes
  <2>1. /\ day \in 0 .. MaxDay /\ outages \in 0 .. MaxOutages /\ lastFault \in -2 .. MaxDay /\ lastFault <= day
        /\ created \in [Rotation!Versions -> 0 .. MaxDay] /\ sentOn \in [Senders -> 0 .. MaxDay]
        /\ \A r \in Senders : sentOn[r] <= day
    BY RotationConstants, AuthorityAssumption DEF Rotation!Init, Rotation!RotationAssumption
  <2>2. /\ stages \in [Rotation!Versions -> {{}, {"current"}, {"pending"}, {"previous"}}]
        /\ stages \in [Rotation!Versions -> SUBSET {"current", "pending", "previous"}]
    BY DEF Rotation!Init
  <2>3. /\ activated \subseteq Rotation!Versions /\ ran \in BOOLEAN /\ torn \in BOOLEAN
        /\ run \in {"idle", "check", "store", "demote", "promote"}
        /\ signed \in [Senders -> Rotation!Versions \cup {-1}]
        /\ verdict \in [Senders -> {"none", "sent", "accepted", "rejected", "stale", "unread"}]
    BY DEF Rotation!Init
  <2> QED
    BY <2>1, <2>2, <2>3 DEF StageTypes, Rotation!TypeOK
<1>2. Rotation!Rows = {} /\ Cur = {} /\ Pen = {} /\ Prev = {}
  BY DEF Rotation!Init, Rotation!Rows, Cur, Pen, Prev, Rotation!In
<1>3. /\ day = 0 /\ lastFault = -2 /\ run = "idle" /\ ran = FALSE /\ torn = FALSE /\ activated = {}
  BY DEF Rotation!Init
<1>5. OrderInv
  BY <1>2, <1>3 DEF OrderInv
<1>6. RunInv
  BY <1>2, <1>3 DEF RunInv, Promoting
<1>7. MendInv
  BY <1>2, <1>3 DEF MendInv, Promoting
<1>4. SignedInv
  BY DEF Rotation!Init, SignedInv
<1> QED
  BY <1>1, <1>4, <1>5, <1>6, <1>7 DEF RotationInv

\* The store of secrets stays as it is.
LEMMA StoreStays ==
  ASSUME OrderInv, UNCHANGED <<stages, created, activated>>, day \in Nat, day' \in Nat, day <= day',
         \A v \in Rotation!Versions : created[v] \in Nat
  PROVE  /\ Cur' = Cur /\ Pen' = Pen /\ Prev' = Prev /\ Rotation!Rows' = Rotation!Rows
         /\ OrderInv' /\ \A v : Newer(v)' = Newer(v)
<1>1. Cur' = Cur /\ Pen' = Pen /\ Prev' = Prev /\ Rotation!Rows' = Rotation!Rows
  BY DEF Cur, Pen, Prev, Rotation!In, Rotation!Rows
<1>2. Rotation!Rows \subseteq Rotation!Versions
  BY DEF Rotation!Rows
<1>3. OrderInv'
  BY <1>1, <1>2 DEF OrderInv
<1> QED
  BY <1>1, <1>3 DEF Newer

LEMMA NextDayKeeps == ASSUME RotationInv, Rotation!Tick PROVE RotationInv'
<1> USE DEF RotationInv
<1>1. /\ ran /\ run = "idle" /\ day' = day + 1 /\ ran' = FALSE /\ day < MaxDay
      /\ UNCHANGED <<outages, stages, created, activated, run, signed, sentOn, verdict, torn, lastFault>>
  BY DEF Rotation!Tick, Rotation!store, Rotation!traffic
<1>2. /\ \A v \in Rotation!Versions : created[v] \in Nat /\ v \in Nat
      /\ day \in Nat /\ lastFault \in Int
  BY StageSets
<1>3. /\ Cur' = Cur /\ Pen' = Pen /\ Prev' = Prev /\ Rotation!Rows' = Rotation!Rows
      /\ OrderInv' /\ \A v : Newer(v)' = Newer(v)
  BY <1>1, <1>2, StoreStays
<1>4. StageTypes'
  <2>1. /\ day' \in 0 .. MaxDay /\ lastFault' <= day' /\ lastFault' \in -2 .. MaxDay
        /\ \A r \in Senders : sentOn'[r] <= day'
    BY <1>1, <1>2, RotationConstants DEF StageTypes, Rotation!TypeOK
  <2> QED
    BY <1>1, <2>1 DEF StageTypes, Rotation!TypeOK
<1>5. Cur \subseteq Rotation!Rows /\ Pen \subseteq Rotation!Rows /\ Rotation!Rows \subseteq Rotation!Versions
  BY StageSets
<1>6. RunInv'
  BY <1>1, <1>2, <1>3, <1>5 DEF RunInv, OrderInv, StageTypes, Promoting
<1>7. MendInv'
  BY <1>1, <1>2, <1>3, <1>5 DEF MendInv, Promoting
<1>8. SignedInv'
  BY <1>1, <1>2 DEF StageTypes, SignedInv, Rotation!TypeOK
<1> QED
  BY <1>3, <1>4, <1>6, <1>7, <1>8

LEMMA BootstrapKeeps == ASSUME RotationInv, Rotation!Bootstrap PROVE RotationInv'
<1> USE DEF RotationInv
<1>1. /\ run = "idle" /\ ~ran /\ run' = "check"
      /\ UNCHANGED <<day, outages, ran, signed, sentOn, verdict, torn, lastFault>>
  BY DEF Rotation!Bootstrap, Rotation!traffic
<1>2. /\ \A v \in Rotation!Versions : created[v] \in Nat /\ v \in Nat
      /\ day \in Nat /\ lastFault \in Int /\ ran \in BOOLEAN
  BY StageSets
<1>3. CASE Rotation!Rows # {}
  <2>1. UNCHANGED <<stages, created, activated>>
    BY <1>3 DEF Rotation!Bootstrap, Rotation!store
  <2>2. /\ Cur' = Cur /\ Pen' = Pen /\ Prev' = Prev /\ Rotation!Rows' = Rotation!Rows
        /\ OrderInv' /\ \A v : Newer(v)' = Newer(v)
    BY <1>1, <1>2, <2>1, StoreStays
  <2>3. StageTypes'
    BY <1>1, <2>1 DEF StageTypes, Rotation!TypeOK
  <2>4. RunInv' /\ MendInv'
    BY <1>1, <1>3, <2>1, <2>2 DEF RunInv, MendInv, Promoting
  <2>5. SignedInv'
    BY <1>1, <2>1, <2>2 DEF SignedInv
  <2> QED
    BY <2>2, <2>3, <2>4, <2>5
<1>4. CASE Rotation!Rows = {}
  <2>1. /\ stages' = [stages EXCEPT ![0] = {"current"}] /\ created' = [created EXCEPT ![0] = day]
        /\ activated' = {0} /\ 0 \in Rotation!Versions
    BY <1>4, RotationConstants DEF Rotation!Bootstrap
  <2>2. StageTypes'
    BY <1>1, <1>2, <2>1, RotationConstants DEF StageTypes, Rotation!TypeOK
  <2>3. \A v \in Rotation!Versions : stages[v] = {} /\ (v # 0 => stages'[v] = {}) /\ stages'[0] = {"current"}
    BY <1>4, <2>1 DEF StageTypes, Rotation!Rows
  <2>4. Cur' = {0} /\ Pen' = {} /\ Prev' = {} /\ Rotation!Rows' = {0} /\ created'[0] = day
    <3>1. created'[0] = day
      BY <2>1 DEF StageTypes, Rotation!TypeOK
    <3> QED
      BY <2>1, <2>3, <3>1 DEF Cur, Pen, Prev, Rotation!In, Rotation!Rows
  <2>5. OrderInv'
    BY <1>1, <1>2, <2>1, <2>4 DEF OrderInv
  <2>6. ~torn /\ activated = {}
    <3>1. Cur \cup Prev = {}
      BY <1>4, StageSets
    <3> QED
      BY <1>4, <3>1 DEF RunInv, OrderInv
  <2>7. One(Cur)'
    BY <2>4 DEF One
  <2>8. RunInv'
    BY <1>1, <1>2, <2>4, <2>6, <2>7 DEF RunInv, Promoting
  <2>9. MendInv'
    BY <1>1, <1>2, <2>4, <2>6 DEF MendInv, Promoting
  <2>10. SignedInv'
    BY <1>1, <2>6 DEF SignedInv
  <2> QED
    BY <2>2, <2>5, <2>8, <2>9, <2>10
<1> QED
  BY <1>3, <1>4

\* The policy: a rotation that is not due leaves a current row of the day before.
LEMMA CheckKeeps == ASSUME RotationInv, Rotation!Check PROVE RotationInv'
<1> USE DEF RotationInv
<1>1. /\ run = "check" /\ ~ran
      /\ UNCHANGED <<day, outages, stages, created, activated, signed, sentOn, verdict, torn, lastFault>>
  BY DEF Rotation!Check, Rotation!store, Rotation!traffic, RunInv
<1>2. /\ \A v \in Rotation!Versions : created[v] \in Nat /\ v \in Nat
      /\ day \in Nat /\ lastFault \in Int /\ ran \in BOOLEAN
      /\ Cur \subseteq Rotation!Rows /\ Pen \subseteq Rotation!Rows /\ Rotation!Rows \subseteq Rotation!Versions
  BY StageSets
<1>3. /\ Cur' = Cur /\ Pen' = Pen /\ Prev' = Prev /\ Rotation!Rows' = Rotation!Rows
      /\ OrderInv' /\ \A v : Newer(v)' = Newer(v)
  BY <1>1, <1>2, StoreStays
<1>4. run' \in {"store", "idle"} /\ ran' \in BOOLEAN
  BY <1>1, <1>2 DEF Rotation!Check
<1>5. StageTypes'
  BY <1>1, <1>4 DEF StageTypes, Rotation!TypeOK
<1>6. SignedInv'
  BY <1>1, <1>3 DEF SignedInv
<1>7. CASE Rotation!Due /\ run' = "store" /\ ran' = ran
  <2>1. \A v \in Cur : created[v] < day
    <3> SUFFICES ASSUME NEW v \in Cur PROVE created[v] < day
      OBVIOUS
    <3>1. PICK m \in Rotation!Current : m \in Cur /\ \A w \in Cur : w <= m
      BY NewestCurrent
    <3>2. created[m] + 1 <= day /\ v <= m
      BY <1>7, <3>1 DEF Rotation!Due
    <3>3. created[v] <= created[m]
      BY <1>2, <3>1, <3>2 DEF OrderInv
    <3> QED
      BY <1>2, <3>1, <3>2, <3>3
  <2>2. RunInv' /\ MendInv'
    BY <1>1, <1>3, <1>7, <2>1 DEF RunInv, MendInv, Promoting
  <2> QED
    BY <1>3, <1>5, <1>6, <2>2
<1>8. CASE Rotation!TooEarly /\ run' = "idle" /\ ran' = TRUE
  <2>1. PICK m \in Cur : created[m] + 1 >= day
    BY <1>8 DEF Rotation!TooEarly, Rotation!Current, Cur
  <2>2. day = lastFault + 1 => Pen = {}
    BY <1>1, <1>2, <2>1 DEF RunInv, OrderInv, Promoting
  <2>3. RunInv'
    BY <1>1, <1>3, <1>8 DEF RunInv, Promoting
  <2>4. day = lastFault + 2 => ~torn \/ \A v \in Cur : created[v] <= lastFault + 1
    BY <1>1, <1>2 DEF RunInv
  <2>5. day >= lastFault + 3 => ~torn
    BY <1>1, <1>2, <2>1 DEF MendInv
  <2>6. ~torn => \A v \in Cur : created[v] >= day - 1
    <3>1. ~torn => One(Cur)
      BY <1>1, <1>2 DEF RunInv
    <3> QED
      BY <1>2, <2>1, <3>1 DEF One
  <2>7. MendInv'
    BY <1>1, <1>2, <1>3, <1>8, <2>1, <2>2, <2>4, <2>5, <2>6 DEF MendInv, Promoting
  <2> QED
    BY <1>3, <1>5, <1>6, <2>3, <2>7
<1> QED
  BY <1>7, <1>8 DEF Rotation!Check

\* A version is stored: the newest row, of today, is pending.
LEMMA StoreKeeps == ASSUME RotationInv, Rotation!Store PROVE RotationInv'
<1> USE DEF RotationInv
<1>1. /\ run = "store" /\ run' = "demote" /\ ~ran
      /\ UNCHANGED <<day, outages, activated, ran, signed, sentOn, verdict, torn, lastFault>>
  BY DEF Rotation!Store, Rotation!traffic, RunInv
<1>2. /\ \A v \in Rotation!Versions : created[v] \in Nat /\ v \in Nat
      /\ day \in Nat /\ lastFault \in Int
      /\ Rotation!Rows = Cur \cup Pen \cup Prev /\ Rotation!Rows \subseteq Rotation!Versions
  BY StageSets
<1>3. PICK v \in Rotation!Versions :
        /\ \A w \in Rotation!Versions : w \in Rotation!Rows => w < v
        /\ stages' = [stages EXCEPT ![v] = {"pending"}] /\ created' = [created EXCEPT ![v] = day]
  BY DEF Rotation!Store
<1>4. v \notin Rotation!Rows /\ \A w \in Rotation!Rows : w < v
  BY <1>2, <1>3
<1>5. /\ \A w \in Rotation!Versions : w # v => stages'[w] = stages[w] /\ created'[w] = created[w]
      /\ stages'[v] = {"pending"} /\ created'[v] = day
  BY <1>3 DEF StageTypes, Rotation!TypeOK
<1>6. Cur' = Cur /\ Pen' = Pen \cup {v} /\ Prev' = Prev /\ Rotation!Rows' = Rotation!Rows \cup {v}
  <2>1. stages[v] = {}
    BY <1>4 DEF Rotation!Rows
  <2> QED
    BY <1>5, <2>1 DEF Cur, Pen, Prev, Rotation!In, Rotation!Rows
<1>7. StageTypes'
  <2>1. created' \in [Rotation!Versions -> 0 .. MaxDay]
    BY <1>3 DEF StageTypes, Rotation!TypeOK
  <2>2. /\ stages' \in [Rotation!Versions -> {{}, {"current"}, {"pending"}, {"previous"}}]
        /\ stages' \in [Rotation!Versions -> SUBSET {"current", "pending", "previous"}]
    BY <1>3 DEF StageTypes, Rotation!TypeOK
  <2> QED
    BY <1>1, <2>1, <2>2 DEF StageTypes, Rotation!TypeOK
<1>8. \A c \in Cur : created[c] < day
  BY <1>1 DEF RunInv
<1>9. OrderInv'
  <2>1. activated' = Cur' \cup Prev' /\ (Rotation!Rows' # {} => activated' # {})
    BY <1>1, <1>2, <1>6 DEF OrderInv, RunInv
  <2>2. \A a \in Prev', w \in Cur' : a < w
    BY <1>6 DEF OrderInv
  <2>3. \A a \in Cur' \cup Prev', w \in Pen' : a < w
    BY <1>2, <1>4, <1>6 DEF OrderInv
  <2>4. \A a, w \in Rotation!Rows' : created'[a] <= day' /\ (a < w => created'[a] <= created'[w])
    BY <1>1, <1>2, <1>3, <1>4, <1>5, <1>6 DEF OrderInv
  <2>5. \A a \in Cur', w \in Pen' : created'[a] < created'[w]
    BY <1>2, <1>4, <1>5, <1>6, <1>8 DEF OrderInv
  <2> QED
    BY <2>1, <2>2, <2>3, <2>4, <2>5 DEF OrderInv
<1>10. \A w \in Pen : created'[w] = created[w] /\ created[w] <= lastFault
  BY <1>1, <1>2, <1>4, <1>5 DEF RunInv, Promoting
<1>11. \A w \in Cur : created'[w] = created[w]
  BY <1>2, <1>4, <1>5
<1>12. Pen = {} => One(Pen')
  BY <1>6 DEF One
<1>13. One(Cur) <=> One(Cur')
  BY <1>6
<1>14. RunInv'
  <2>1. Rotation!Rows' # {} /\ run' # "promote" /\ ~ran' /\ run' \in Promoting
    BY <1>1, <1>6 DEF Promoting
  <2>2. \E w \in Pen' : created'[w] = day'
    BY <1>1, <1>5, <1>6
  <2>3. \A w \in Pen' : created'[w] <= lastFault' \/ created'[w] = day'
    BY <1>1, <1>5, <1>6, <1>10
  <2>4. day' > lastFault' => \A a, b \in Pen' : created'[a] = day' /\ created'[b] = day' => a = b
    BY <1>1, <1>2, <1>5, <1>6, <1>10
  <2>5. \A c \in Cur' : created'[c] < day'
    BY <1>1, <1>6, <1>8, <1>11
  <2>6. ~torn' => One(Cur)' /\ One(Pen)'
    <3>1. ~torn => One(Cur) /\ Pen = {}
      BY <1>1 DEF RunInv, Promoting
    <3> QED
      BY <1>1, <1>6, <1>12, <3>1 DEF One
  <2> QED
    BY <2>1, <2>2, <2>3, <2>4, <2>5, <2>6 DEF RunInv, Promoting
<1>15. MendInv'
  <2>1. run' \in Promoting /\ run \notin Promoting /\ Rotation!Rows # {}
    BY <1>1 DEF Promoting, RunInv
  <2>2. (day' >= lastFault' + 2 \/ (day' = lastFault' + 1 /\ ran')) => One(Pen)'
    BY <1>1, <1>6, <1>12, <2>1 DEF MendInv, One
  <2>3. (day' = lastFault' + 3 /\ ~ran') => ~torn' \/ \A c \in Cur' : created'[c] <= lastFault' + 1
    BY <1>1, <1>6, <1>11 DEF MendInv
  <2>4. day' > lastFault' + 3 => ~torn'
    BY <1>1 DEF MendInv
  <2> QED
    BY <1>1, <2>1, <2>2, <2>3, <2>4 DEF MendInv
<1>16. SignedInv'
  BY <1>1 DEF SignedInv, Newer
<1> QED
  BY <1>7, <1>9, <1>14, <1>15, <1>16

\* The first update of a promotion: nothing is current for a moment.
LEMMA DemoteKeeps == ASSUME RotationInv, Rotation!Demote PROVE RotationInv'
<1> USE DEF RotationInv
<1>1. /\ run = "demote" /\ run' = "promote" /\ ~ran
      /\ UNCHANGED <<day, outages, created, activated, ran, signed, sentOn, verdict, torn, lastFault>>
  BY DEF Rotation!Demote, Rotation!traffic, RunInv
<1>2. /\ Cur = {v \in Rotation!Versions : stages[v] = {"current"}}
      /\ Pen = {v \in Rotation!Versions : stages[v] = {"pending"}}
      /\ Prev = {v \in Rotation!Versions : stages[v] = {"previous"}}
  BY StageSets
<1>3. stages' = [v \in Rotation!Versions |-> IF v \in Cur THEN {"previous"} ELSE stages[v]]
  <2>1. \A v \in Rotation!Versions :
          /\ v \in Rotation!In("current") \ Rotation!In("pending") <=> v \in Cur
          /\ v \in Cur => (stages[v] \ {"current"}) \cup {"previous"} = {"previous"}
    BY <1>2 DEF Cur, Pen
  <2> QED
    BY <2>1 DEF Rotation!Demote
<1>4. Cur' = {} /\ Pen' = Pen /\ Prev' = Prev \cup Cur /\ Rotation!Rows' = Rotation!Rows
  <2>1. \A v \in Rotation!Versions : stages'[v] = IF v \in Cur THEN {"previous"} ELSE stages[v]
    BY <1>3
  <2>2. StageTypes
    OBVIOUS
  <2>3. Cur' = {}
    BY <1>2, <2>1, <2>2 DEF Rotation!In, Cur, StageTypes
  <2>4. Pen' = Pen /\ Prev' = Prev \cup Cur
    BY <1>2, <2>1, <2>2 DEF Rotation!In, Pen, Prev, StageTypes
  <2>5. Rotation!Rows' = Rotation!Rows
    BY <1>2, <2>1 DEF Rotation!Rows
  <2> QED
    BY <2>3, <2>4, <2>5
<1>5. StageTypes'
  <2>1. /\ stages' \in [Rotation!Versions -> {{}, {"current"}, {"pending"}, {"previous"}}]
        /\ stages' \in [Rotation!Versions -> SUBSET {"current", "pending", "previous"}]
    BY <1>3 DEF StageTypes, Rotation!TypeOK
  <2> QED
    BY <1>1, <2>1 DEF StageTypes, Rotation!TypeOK
<1>6. OrderInv'
  BY <1>1, <1>4 DEF OrderInv
<1>7. One(Pen)' <=> One(Pen)
  BY <1>4 DEF One
<1>8. RunInv'
  BY <1>1, <1>4, <1>7 DEF RunInv, Promoting
<1>9. MendInv'
  BY <1>1, <1>4, <1>7 DEF MendInv, Promoting
<1>10. SignedInv'
  BY <1>1 DEF SignedInv, Newer
<1> QED
  BY <1>5, <1>6, <1>8, <1>9, <1>10

\* The second update: what is pending becomes current.
LEMMA PromoteKeeps == ASSUME RotationInv, Rotation!Promote PROVE RotationInv'
<1> USE DEF RotationInv
<1>1. /\ run = "promote" /\ run' = "idle" /\ ~ran /\ ran' = TRUE
      /\ activated' = activated \cup Pen /\ torn' = (torn /\ Cardinality(Pen) # 1)
      /\ UNCHANGED <<day, outages, created, signed, sentOn, verdict, lastFault>>
  <2>1. torn' = (torn /\ Rotation!Cardinality(Pen) # 1) /\ activated' = activated \cup Pen
    BY Zenon DEF Rotation!Promote, Pen
  <2>2. /\ run = "promote" /\ run' = "idle" /\ ran' = TRUE
        /\ UNCHANGED <<day, outages, created, signed, sentOn, verdict, lastFault>>
    BY DEF Rotation!Promote, Rotation!traffic
  <2>3. torn' = (torn /\ Cardinality(Pen) # 1)
    BY Zenon, <2>1, SameCount
  <2> QED
    BY <2>1, <2>2, <2>3 DEF RunInv
<1>2. /\ Pen = {v \in Rotation!Versions : stages[v] = {"pending"}}
      /\ Prev = {v \in Rotation!Versions : stages[v] = {"previous"}}
      /\ Rotation!Rows = Cur \cup Pen \cup Prev /\ Rotation!Rows \subseteq Rotation!Versions
      /\ \A v \in Rotation!Versions : created[v] \in Nat /\ v \in Nat
      /\ day \in Nat /\ lastFault \in Int /\ torn \in BOOLEAN
  BY StageSets
<1>3. stages' = [v \in Rotation!Versions |-> IF v \in Pen THEN {"current"} ELSE stages[v]]
  <2>1. \A v \in Rotation!Versions : v \in Pen => (stages[v] \ {"pending"}) \cup {"current"} = {"current"}
    BY <1>2
  <2> QED
    BY <2>1 DEF Rotation!Promote, Pen
<1>4. Cur = {} /\ Cur' = Pen /\ Pen' = {} /\ Prev' = Prev /\ Rotation!Rows' = Rotation!Rows
  <2>1. \A v \in Rotation!Versions : stages'[v] = IF v \in Pen THEN {"current"} ELSE stages[v]
    BY <1>3
  <2>2. Cur = {} /\ StageTypes
    BY <1>1 DEF RunInv
  <2>3. Cur' = Pen
    BY <1>2, <2>1, <2>2 DEF Rotation!In, Cur, StageTypes
  <2>4. Pen' = {} /\ Prev' = Prev
    BY <1>2, <2>1, <2>2 DEF Rotation!In, Pen, Prev, StageTypes
  <2>5. Rotation!Rows' = Rotation!Rows
    BY <1>2, <2>1 DEF Rotation!Rows
  <2> QED
    BY <2>2, <2>3, <2>4, <2>5
<1>5. StageTypes'
  <2>1. /\ stages' \in [Rotation!Versions -> {{}, {"current"}, {"pending"}, {"previous"}}]
        /\ stages' \in [Rotation!Versions -> SUBSET {"current", "pending", "previous"}]
    BY <1>3 DEF StageTypes, Rotation!TypeOK
  <2>2. activated' \subseteq Rotation!Versions /\ torn' \in BOOLEAN
    BY <1>1, <1>2 DEF StageTypes, Rotation!TypeOK
  <2> QED
    BY <1>1, <2>1, <2>2 DEF StageTypes, Rotation!TypeOK
<1>6. PICK p \in Pen : created[p] = day
  BY <1>1 DEF RunInv, Promoting
<1>7. One(Pen) <=> Cardinality(Pen) = 1
  <2>1. IsFiniteSet(Pen)
    <3>1. IsFiniteSet(Rotation!Versions)
      BY RotationConstants, FS_Interval
    <3> QED
      BY <1>2, <3>1, FS_Subset
  <2>2. Cardinality(Pen) = 1 <=> \E v : Pen = {v}
    BY <2>1, FS_Singleton
  <2> QED
    BY <2>2 DEF One
<1>8. ~torn' => One(Pen)
  BY <1>1, <1>2, <1>7 DEF RunInv, Promoting
<1>9. One(Pen) => ~torn'
  BY <1>1, <1>7
<1>10. OrderInv'
  BY <1>1, <1>2, <1>4, <1>6 DEF OrderInv
<1>11. One(Cur)' <=> One(Pen)
  BY <1>4 DEF One
<1>12. RunInv'
  BY <1>1, <1>2, <1>4, <1>6, <1>8, <1>11 DEF RunInv, Promoting
<1>13. day >= lastFault + 2 \/ day = lastFault + 3 \/ day > lastFault + 3 => One(Pen)
  BY <1>1, <1>2, <1>6 DEF MendInv, Promoting
<1>14. One(Pen) => Pen = {p}
  BY <1>6 DEF One
<1>15. MendInv'
  BY <1>1, <1>2, <1>4, <1>6, <1>9, <1>13, <1>14 DEF MendInv, Promoting
<1>16. SignedInv'
  <2> SUFFICES ASSUME NEW r \in Senders, verdict[r] = "sent", sentOn[r] = day, signed[r] # 0
               PROVE  signed[r] \in activated' /\ (torn' \/ Newer(signed[r])' = Pen)
    BY <1>1, <1>8 DEF SignedInv, One
  <2>1. signed[r] \in activated /\ Newer(signed[r]) = {}
    BY <1>1 DEF SignedInv
  <2>2. activated = Prev /\ \A w \in Pen : w > signed[r]
    BY <1>2, <1>4, <2>1 DEF OrderInv
  <2> QED
    BY <1>1, <2>1, <2>2 DEF Newer
<1> QED
  BY <1>5, <1>10, <1>12, <1>15, <1>16

\* A run that fails takes its pending rows back.
LEMMA CancelKeeps == ASSUME RotationInv, Rotation!Cancel PROVE RotationInv'
<1> USE DEF RotationInv
<1>1. /\ run \in {"store", "demote", "promote"} /\ run' = "idle" /\ ~ran /\ ran' = TRUE
      /\ torn' = (torn \/ run = "promote") /\ lastFault' = day
      /\ outages < MaxOutages /\ outages' = outages + 1
      /\ UNCHANGED <<day, created, activated, signed, sentOn, verdict>>
  BY DEF Rotation!Cancel, Rotation!Fault, Rotation!traffic, RunInv
<1>2. /\ Pen = {v \in Rotation!Versions : stages[v] = {"pending"}}
      /\ Prev = {v \in Rotation!Versions : stages[v] = {"previous"}}
      /\ Cur = {v \in Rotation!Versions : stages[v] = {"current"}}
      /\ Rotation!Rows = Cur \cup Pen \cup Prev /\ Rotation!Rows \subseteq Rotation!Versions
      /\ \A v \in Rotation!Versions : created[v] \in Nat /\ v \in Nat
      /\ day \in Nat /\ torn \in BOOLEAN
  BY StageSets
<1>3. stages' = [v \in Rotation!Versions |-> IF v \in Pen THEN {} ELSE stages[v]]
  BY DEF Rotation!Cancel, Pen
<1>4. Cur' = Cur /\ Pen' = {} /\ Prev' = Prev /\ Rotation!Rows' = Cur \cup Prev
  <2>1. \A v \in Rotation!Versions : stages'[v] = IF v \in Pen THEN {} ELSE stages[v]
    BY <1>3
  <2>2. Cur' = Cur
    BY <1>2, <2>1 DEF Rotation!In, Cur
  <2>3. Pen' = {} /\ Prev' = Prev
    BY <1>2, <2>1 DEF Rotation!In, Pen, Prev
  <2>4. StageTypes
    OBVIOUS
  <2>5. Rotation!Rows' = Cur \cup Prev
    BY <1>2, <2>1, <2>4 DEF Rotation!Rows, StageTypes
  <2> QED
    BY <2>2, <2>3, <2>5
<1>5. StageTypes'
  <2>1. /\ stages' \in [Rotation!Versions -> {{}, {"current"}, {"pending"}, {"previous"}}]
        /\ stages' \in [Rotation!Versions -> SUBSET {"current", "pending", "previous"}]
    BY <1>3 DEF StageTypes, Rotation!TypeOK
  <2>2. outages' \in 0 .. MaxOutages /\ lastFault' \in -2 .. MaxDay /\ lastFault' <= day' /\ torn' \in BOOLEAN
    BY <1>1, <1>2, AuthorityAssumption DEF StageTypes, Rotation!TypeOK, Rotation!RotationAssumption
  <2> QED
    BY <1>1, <2>1, <2>2 DEF StageTypes, Rotation!TypeOK
<1>6. Rotation!Rows # {} /\ activated # {}
  BY <1>1 DEF RunInv, OrderInv
<1>7. OrderInv'
  BY <1>1, <1>2, <1>4, <1>6 DEF OrderInv
<1>8. One(Cur)' <=> One(Cur)
  BY <1>4 DEF One
<1>9. Rotation!Rows' # {}
  BY <1>4, <1>6 DEF OrderInv
<1>10. ~torn' => One(Cur)
  BY <1>1, <1>2, <1>6 DEF RunInv
<1>11. RunInv'
  BY <1>1, <1>2, <1>4, <1>8, <1>9, <1>10 DEF RunInv, Promoting
<1>12. MendInv'
  BY <1>1, <1>2 DEF MendInv
<1>13. SignedInv'
  BY <1>1 DEF SignedInv, Newer
<1> QED
  BY <1>5, <1>7, <1>11, <1>12, <1>13

\* A worker that dies leaves the store as it is.
LEMMA DiesKeeps == ASSUME RotationInv, Rotation!Dies PROVE RotationInv'
<1> USE DEF RotationInv
<1>1. /\ run # "idle" /\ run' = "idle" /\ ~ran /\ ran' \in BOOLEAN
      /\ torn' = (torn \/ run \in {"demote", "promote"}) /\ lastFault' = day
      /\ outages < MaxOutages /\ outages' = outages + 1
      /\ UNCHANGED <<day, stages, created, activated, signed, sentOn, verdict>>
  BY DEF Rotation!Dies, Rotation!Fault, Rotation!store, Rotation!traffic, RunInv
<1>2. /\ \A v \in Rotation!Versions : created[v] \in Nat /\ v \in Nat
      /\ day \in Nat /\ torn \in BOOLEAN
      /\ Rotation!Rows = Cur \cup Pen \cup Prev /\ Rotation!Rows \subseteq Rotation!Versions
  BY StageSets
<1>3. /\ Cur' = Cur /\ Pen' = Pen /\ Prev' = Prev /\ Rotation!Rows' = Rotation!Rows
      /\ OrderInv' /\ \A v : Newer(v)' = Newer(v)
  BY <1>1, <1>2, StoreStays
<1>4. StageTypes'
  <2>1. outages' \in 0 .. MaxOutages /\ lastFault' \in -2 .. MaxDay /\ lastFault' <= day' /\ torn' \in BOOLEAN
    BY <1>1, <1>2, AuthorityAssumption DEF StageTypes, Rotation!TypeOK, Rotation!RotationAssumption
  <2> QED
    BY <1>1, <2>1 DEF StageTypes, Rotation!TypeOK
<1>5. \A w \in Pen : created[w] <= day
  BY <1>2 DEF OrderInv
<1>6. Rotation!Rows # {}
  BY <1>1 DEF RunInv
<1>7. RunInv'
  <2>1. run' = "idle" /\ run' \notin Promoting /\ Rotation!Rows' # {}
    BY <1>1, <1>3, <1>6 DEF Promoting
  <2>2. \A p \in Pen' : created'[p] <= lastFault'
    BY <1>1, <1>3, <1>5
  <2>3. ~ran' => (\A v \in Cur' : created'[v] < day') \/ (One(Cur)' /\ Pen' = {} /\ ~torn')
    <3>1. (\A v \in Cur : created[v] < day) \/ (run = "check" /\ One(Cur) /\ Pen = {} /\ ~torn)
      BY <1>1 DEF RunInv
    <3> QED
      BY <1>1, <1>3, <3>1 DEF One
  <2>4. ~torn' => One(Cur)' /\ Pen' = {}
    <3>1. ~torn' => ~torn /\ run \notin Promoting /\ run # "promote"
      BY <1>1 DEF Promoting
    <3>2. ~torn' => One(Cur) /\ Pen = {}
      BY <1>6, <3>1 DEF RunInv
    <3> QED
      BY <1>3, <3>2 DEF One
  <2>5. ~(day' > lastFault')
    BY <1>1, <1>2
  <2> QED
    BY <2>1, <2>2, <2>3, <2>4, <2>5 DEF RunInv
<1>8. MendInv'
  BY <1>1, <1>2 DEF MendInv
<1>9. SignedInv'
  BY <1>1, <1>3 DEF SignedInv
<1> QED
  BY <1>3, <1>4, <1>7, <1>8, <1>9

LEMMA SignKeeps == ASSUME RotationInv, NEW r \in Senders, Rotation!Sign(r) PROVE RotationInv'
<1> USE DEF RotationInv
<1>1. UNCHANGED <<day, outages, stages, created, activated, run, ran, torn, lastFault>>
  BY DEF Rotation!Sign, Rotation!store
<1>2. PICK v \in IF Rotation!Rows = {} THEN {0} ELSE Rotation!Current : signed' = [signed EXCEPT ![r] = v]
  BY DEF Rotation!Sign
<1>3. verdict' = [verdict EXCEPT ![r] = "sent"] /\ sentOn' = [sentOn EXCEPT ![r] = day]
  BY DEF Rotation!Sign
<1>4. /\ \A w \in Rotation!Versions : created[w] \in Nat /\ w \in Nat
      /\ day \in Nat /\ Cur \subseteq Rotation!Versions /\ Prev \subseteq Rotation!Versions
  BY StageSets
<1>5. v = 0 \/ (v \in Cur /\ \A w \in Cur : w <= v)
  BY <1>2 DEF Rotation!Current, Cur
<1>6. v \in Rotation!Versions
  BY <1>4, <1>5, RotationConstants
<1>7. StageTypes'
  <2>1. sentOn' \in [Senders -> 0 .. MaxDay] /\ \A q \in Senders : sentOn'[q] <= day'
    BY <1>1, <1>3, <1>4 DEF StageTypes, Rotation!TypeOK
  <2>2. signed' \in [Senders -> Rotation!Versions \cup {-1}]
    BY <1>2, <1>6 DEF StageTypes, Rotation!TypeOK
  <2>3. verdict' \in [Senders -> {"none", "sent", "accepted", "rejected", "stale", "unread"}]
    BY <1>3 DEF StageTypes, Rotation!TypeOK
  <2> QED
    BY <1>1, <2>1, <2>2, <2>3 DEF StageTypes, Rotation!TypeOK
<1>8. /\ Cur' = Cur /\ Pen' = Pen /\ Prev' = Prev /\ Rotation!Rows' = Rotation!Rows
      /\ OrderInv' /\ \A w : Newer(w)' = Newer(w)
  BY <1>1, <1>4, StoreStays
<1>9. RunInv' /\ MendInv'
  BY <1>1, <1>8 DEF RunInv, MendInv, One
<1>10. SignedInv'
  <2> SUFFICES ASSUME NEW q \in Senders, verdict'[q] = "sent", sentOn'[q] = day', signed'[q] # 0
               PROVE  /\ signed'[q] \in activated
                      /\ Newer(signed'[q]) = {} \/ (ran /\ (torn \/ One(Newer(signed'[q]))))
    BY <1>1, <1>8 DEF SignedInv, One, Newer
  <2>1. CASE q = r
    <3>1. signed'[q] = v
      BY <1>2, <2>1 DEF StageTypes, Rotation!TypeOK
    <3>2. v \in Cur /\ \A w \in activated : w <= v
      BY <1>4, <1>5, <3>1 DEF OrderInv
    <3>3. v \in activated /\ activated \subseteq Nat
      BY <1>4, <3>2 DEF OrderInv
    <3>4. Newer(v) = {}
      BY <3>2, <3>3 DEF Newer
    <3> QED
      BY <3>1, <3>3, <3>4
  <2>2. CASE q # r
    <3>1. verdict[q] = "sent" /\ sentOn[q] = day /\ signed[q] # 0 /\ signed'[q] = signed[q]
      BY <1>1, <1>2, <1>3, <2>2 DEF StageTypes, Rotation!TypeOK
    <3> QED
      BY <3>1 DEF SignedInv
  <2> QED
    BY <2>1, <2>2
<1> QED
  BY <1>7, <1>8, <1>9, <1>10

LEMMA VerifyKeeps == ASSUME RotationInv, NEW r \in Senders, Rotation!Verify(r) PROVE RotationInv'
<1> USE DEF RotationInv
<1>1. UNCHANGED <<day, stages, created, activated, run, ran, signed, sentOn, torn>>
  BY DEF Rotation!Verify, Rotation!store
<1>2. PICK answer \in {"stale", "accepted", "rejected", "unread"} : verdict' = [verdict EXCEPT ![r] = answer]
  BY DEF Rotation!Verify
<1>3. \/ UNCHANGED <<outages, lastFault>>
      \/ outages < MaxOutages /\ outages' = outages + 1 /\ lastFault' = day
  BY DEF Rotation!Verify, Rotation!Fault
<1>4. /\ \A w \in Rotation!Versions : created[w] \in Nat /\ w \in Nat
      /\ day \in Nat /\ lastFault \in Int
      /\ Rotation!Rows = Cur \cup Pen \cup Prev /\ Rotation!Rows \subseteq Rotation!Versions
  BY StageSets
<1>5. StageTypes'
  <2>1. outages' \in 0 .. MaxOutages /\ lastFault' \in -2 .. MaxDay /\ lastFault' <= day'
    BY <1>1, <1>3, <1>4, AuthorityAssumption DEF StageTypes, Rotation!TypeOK, Rotation!RotationAssumption
  <2>2. verdict' \in [Senders -> {"none", "sent", "accepted", "rejected", "stale", "unread"}]
    BY <1>2 DEF StageTypes, Rotation!TypeOK
  <2> QED
    BY <1>1, <2>1, <2>2 DEF StageTypes, Rotation!TypeOK
<1>6. /\ Cur' = Cur /\ Pen' = Pen /\ Prev' = Prev /\ Rotation!Rows' = Rotation!Rows
      /\ OrderInv' /\ \A w : Newer(w)' = Newer(w)
  BY <1>1, <1>4, StoreStays
<1>7. SignedInv'
  <2> SUFFICES ASSUME NEW q \in Senders, verdict'[q] = "sent", sentOn[q] = day, signed[q] # 0
               PROVE  /\ signed[q] \in activated
                      /\ Newer(signed[q]) = {} \/ (ran /\ (torn \/ One(Newer(signed[q]))))
    BY <1>1, <1>6 DEF SignedInv, One, Newer
  <2>1. q # r /\ verdict[q] = "sent"
    BY <1>2 DEF StageTypes, Rotation!TypeOK
  <2> QED
    BY <2>1 DEF SignedInv
<1>8. CASE lastFault' = lastFault
  <2>1. RunInv' /\ MendInv'
    BY <1>1, <1>6, <1>8 DEF RunInv, MendInv, One
  <2> QED
    BY <1>5, <1>6, <1>7, <2>1
<1>9. CASE lastFault' = day
  <2>1. \A w \in Pen : created[w] <= day
    BY <1>4 DEF OrderInv
  <2>2. RunInv'
    BY <1>1, <1>4, <1>6, <1>9, <2>1 DEF RunInv, One
  <2>3. MendInv'
    BY <1>1, <1>4, <1>9 DEF MendInv
  <2> QED
    BY <1>5, <1>6, <1>7, <2>2, <2>3
<1> QED
  BY <1>3, <1>8, <1>9

LEMMA RotationKeeps == RotationInv /\ Rotation!Next => RotationInv'
BY NextDayKeeps, BootstrapKeeps, CheckKeeps, StoreKeeps, DemoteKeeps, PromoteKeeps, CancelKeeps, DiesKeeps,
   SignKeeps, VerifyKeeps DEF Rotation!Next, Rotation!Run

\* What is ahead of a kept version among the candidates: the newer ones, as no
\* version is current beside a newer one that is previous.
Ahead(v) ==
  {w \in Cur \cup Prev : (w \in Cur /\ v \notin Cur) \/ ((w \in Cur <=> v \in Cur) /\ w > v)}

LEMMA AheadIsNewer ==
  ASSUME RotationInv
  PROVE  /\ \A v \in activated : Ahead(v) = Newer(v)
         /\ Rotation!Candidates = {0} \cup {v \in activated : Cardinality(Newer(v)) < 2}
<1> USE DEF RotationInv
<1>1. Cur \subseteq Nat /\ Prev \subseteq Nat /\ activated = Cur \cup Prev /\ \A v \in Prev, w \in Cur : v < w
  BY StageSets DEF OrderInv
<1>2. Cur \cap Prev = {}
  BY <1>1
<1>3. ASSUME NEW v \in activated PROVE Ahead(v) = Newer(v)
  <2>1. CASE v \in Cur
    <3>1. \A w \in Prev : ~(w > v)
      BY <1>1, <2>1
    <3> QED
      BY <1>1, <1>2, <2>1, <3>1 DEF Ahead, Newer
  <2>2. CASE v \in Prev
    <3>1. v \notin Cur /\ \A w \in Cur : w > v
      BY <1>1, <1>2, <2>2
    <3> QED
      BY <1>1, <1>2, <2>2, <3>1 DEF Ahead, Newer
  <2> QED
    BY <1>1, <1>3, <2>1, <2>2
<1>4. Rotation!Candidates = {0} \cup {v \in Cur \cup Prev : Rotation!Cardinality(Ahead(v)) < 2}
  BY Zenon DEF Rotation!Candidates, Ahead, Cur, Prev
<1> QED
  BY <1>1, <1>3, <1>4, SameCount

\* What the verifier reads, and how old what it reads is.
LEMMA SecretsAreFresh == RotationInv => Rotation!TypeOK /\ Rotation!OnlyTheLastTwo /\ Rotation!Fresh
<1> SUFFICES ASSUME RotationInv PROVE Rotation!TypeOK /\ Rotation!OnlyTheLastTwo /\ Rotation!Fresh
  OBVIOUS
<1> USE DEF RotationInv
<1>1. Rotation!OnlyTheLastTwo
  <2>1. \A v \in Rotation!Candidates \ {0} : v \in activated /\ Rotation!Cardinality(Newer(v)) < 2
    BY AheadIsNewer, SameCount
  <2> QED
    BY Zenon, <2>1 DEF Rotation!OnlyTheLastTwo, Newer
<1>2. day \in Nat /\ lastFault \in Int /\ torn \in BOOLEAN
  BY StageSets
<1>3. ASSUME ran, day >= lastFault + 3
      PROVE  /\ Cardinality(Cur) = 1 /\ Pen = {} /\ ~torn
             /\ \A v \in Cur : created[v] >= day - 1
  <2>1. run = "idle" /\ Rotation!Rows # {} /\ ~torn
    BY <1>2, <1>3 DEF RunInv, MendInv
  <2>2. One(Cur) /\ Pen = {}
    BY <2>1 DEF RunInv, Promoting
  <2>3. Cardinality(Cur) = 1
    BY <2>2, FS_Singleton DEF One
  <2> QED
    BY <1>2, <1>3, <2>1, <2>2, <2>3 DEF MendInv
<1>4. Rotation!Fresh
  BY <1>3, SameCount DEF Rotation!Fresh, Cur, Pen
<1> QED
  BY <1>1, <1>4 DEF StageTypes

\* The window of grace, of each step.
GraceStep == \A r \in Senders : verdict'[r] = "rejected" => verdict[r] = "rejected" \/ torn

LEMMA SecretsOverlap == RotationInv /\ Rotation!Next => GraceStep
<1> SUFFICES ASSUME RotationInv, Rotation!Next, NEW r \in Senders, verdict'[r] = "rejected", verdict[r] # "rejected"
             PROVE  torn
  BY DEF GraceStep
<1> USE DEF RotationInv
<1>1. PICK q \in Senders : Rotation!Sign(q) \/ Rotation!Verify(q)
  BY DEF Rotation!Next, Rotation!Run, Rotation!Tick, Rotation!Bootstrap, Rotation!Check, Rotation!Store,
         Rotation!Demote, Rotation!Promote, Rotation!Cancel, Rotation!Dies, Rotation!traffic
<1>2. verdict \in [Senders -> {"none", "sent", "accepted", "rejected", "stale", "unread"}]
  BY DEF StageTypes, Rotation!TypeOK
<1>3. q = r /\ Rotation!Verify(r)
  BY <1>1, <1>2 DEF Rotation!Sign, Rotation!Verify
<1>4. verdict[r] = "sent" /\ sentOn[r] = day /\ signed[r] \notin Rotation!Candidates
  BY <1>2, <1>3 DEF Rotation!Verify
<1>5. signed[r] # 0 /\ signed[r] \in activated /\ ~(Cardinality(Newer(signed[r])) < 2)
  BY <1>4, AheadIsNewer DEF SignedInv
<1>6. Newer(signed[r]) = {} \/ torn \/ One(Newer(signed[r]))
  BY <1>4, <1>5 DEF SignedInv
<1>7. Newer(signed[r]) # {}
  BY <1>5, FS_EmptySet
<1>8. ~One(Newer(signed[r]))
  BY <1>5, FS_Singleton DEF One
<1> QED
  BY <1>6, <1>7, <1>8

-----------------------------------------------------------------------------
(* The requests of the keys, with any mix T of attempts *)

Active == {"auth", "replay", "write", "save", "reply"}
Written == {"secret", "revoked"}

\* No secret that is told, stored or presented is younger than the last minted.
MintedInv(T) ==
  /\ \A k \in Keys : secret[k] <= minted /\ known[k] <= minted
  /\ \A t \in T : presented[t] <= minted /\ (result[t][1] = "secret" => result[t][2] <= minted)
  /\ \A o \in Ops : records[o][1] = "secret" => records[o][2] <= minted

\* A key that is no good stays no good: it is never made again, and no secret
\* comes back.
BannedInv(T) ==
  /\ \A o \in Ops : Principal[o] # User => status[Principal[o]] # "none"
  /\ \A t \in banned :
       \/ reached[t] = "auth" /\ ~Api(T)!Usable(t[1], presented[t])
       \/ reached[t] = "answered" /\ result[t][1] = "refused"

\* What is answered or stored was done.
DoneInv(T) ==
  /\ \A t \in T : /\ reached[t] = "save" => result[t][1] \in Written
                  /\ result[t][1] \in Written => effects[t[1]] >= 1
  /\ \A o \in Ops : records[o][1] # "none" => records[o][1] \in Written /\ effects[o] >= 1
  /\ \A k \in Keys : writer[k] # "nobody" => effects[writer[k]] >= 1

\* Of an operation whose attempts did not overlap, one is under way, and what
\* was done is stored or about to be.
OnceInv(T) ==
  \A o \in Keyed \ crossed :
    /\ \A t, u \in T : t[1] = o /\ u[1] = o /\ reached[t] \in Active /\ reached[u] \in Active => t = u
    /\ effects[o] <= 1
    /\ effects[o] = 1 => records[o][1] # "none" \/ \E t \in T : t[1] = o /\ reached[t] = "save"
    /\ \A t \in T : t[1] = o /\ reached[t] = "write" => effects[o] = 0

\* The secret it was told, or may be told, is the one it wrote.
ToldInv(T) ==
  \A o \in Keyed \ crossed : writer[Target[o]] = o =>
    /\ \A t \in T : t[1] = o /\ result[t][1] = "secret" => result[t][2] = secret[Target[o]]
    /\ records[o][1] = "secret" => records[o][2] = secret[Target[o]]

RequestInv(T) == Api(T)!TypeOK /\ MintedInv(T) /\ BannedInv(T) /\ DoneInv(T) /\ OnceInv(T) /\ ToldInv(T)

LEMMA MixFits ==
  ASSUME NEW T \in {Creations, Rotations}
  PROVE  /\ T \subseteq Ops \X (Nat \ {0}) /\ \A t \in T : t[1] \in Ops
         /\ User \notin Keys /\ "nobody" \notin Ops /\ Keyed \subseteq Ops
         /\ Principal \in [Ops -> Keys \cup {User}] /\ Target \in [Ops -> Keys]
         /\ Kind \in [Ops -> {"rotate", "revoke", "create"}]
         /\ MaxSecret \in Nat /\ MaxLost \in Nat
BY RequestsAssumption DEF Api!RequestsAssumption

LEMMA RequestTypes ==
  ASSUME NEW T \in {Creations, Rotations}, Api(T)!TypeOK
  PROVE  /\ \A r \in Api(T)!Results : /\ r[1] \in {"none", "refused", "revoked", "secret"}
                                      /\ r[1] = "secret" => r[2] \in 1 .. MaxSecret
                                      /\ r[1] = "none" <=> r = Api(T)!NoAnswer
         /\ minted \in Nat /\ \A o \in Ops : effects[o] \in Nat /\ records[o] \in Api(T)!Results
         /\ \A k \in Keys : secret[k] \in Nat /\ known[k] \in Nat
         /\ \A t \in T : presented[t] \in Nat /\ result[t] \in Api(T)!Results
<1>1. \A r \in Api(T)!Results : \/ r \in {<<"none", 0>>, <<"refused", 0>>, <<"revoked", 0>>}
                                \/ \E n \in 1 .. MaxSecret : r = <<"secret", n>>
  BY DEF Api!Results, Api!NoAnswer
<1>2. \A r \in Api(T)!Results : /\ r[1] \in {"none", "refused", "revoked", "secret"}
                                /\ r[1] = "secret" => r[2] \in 1 .. MaxSecret
                                /\ r[1] = "none" <=> r = Api(T)!NoAnswer
  BY <1>1 DEF Api!NoAnswer
<1> QED
  BY <1>2, MixFits DEF Api!TypeOK

LEMMA InitRequests == ASSUME NEW T \in {Creations, Rotations}, Api(T)!Init PROVE RequestInv(T)
<1>1. Api(T)!NoAnswer \in Api(T)!Results /\ Api(T)!NoAnswer[1] = "none"
  BY DEF Api!Results, Api!NoAnswer
<1>2. Api(T)!TypeOK
  BY <1>1, MixFits DEF Api!Init, Api!TypeOK
<1>3. MintedInv(T)
  BY <1>1, MixFits DEF Api!Init, MintedInv
<1>4. BannedInv(T)
  BY <1>1, MixFits DEF Api!Init, BannedInv
<1>5. DoneInv(T) /\ OnceInv(T) /\ ToldInv(T)
  BY <1>1, MixFits DEF Api!Init, DoneInv, OnceInv, ToldInv, Written, Active
<1> QED
  BY <1>2, <1>3, <1>4, <1>5 DEF RequestInv

\* An attempt is sent, with the secret that is known.
LEMMA SendKeeps ==
  ASSUME NEW T \in {Creations, Rotations}, RequestInv(T), NEW t \in T, Api(T)!Send(t) PROVE RequestInv(T)'
<1> USE DEF RequestInv
<1>1. /\ reached[t] = "unsent" /\ reached' = [reached EXCEPT ![t] = "auth"]
      /\ UNCHANGED <<status, secret, minted, writer, records, known, result, lost, effects>>
  BY DEF Api!Send, Api!Goes, Api!keyVars
<1>2. PICK token \in 0 .. MaxSecret :
        /\ token = IF Principal[t[1]] = User THEN 0 ELSE known[Principal[t[1]]]
        /\ presented' = [presented EXCEPT ![t] = token]
        /\ banned' = IF Api(T)!Usable(t[1], token) THEN banned ELSE banned \cup {t}
  BY DEF Api!Send
<1>3. crossed' = IF Api(T)!Running(t[1]) # {} THEN crossed \cup {t[1]} ELSE crossed
  BY DEF Api!Send
<1>4. /\ reached \in [T -> {"unsent", "auth", "replay", "write", "save", "reply", "answered", "lost"}]
      /\ presented \in [T -> 0 .. MaxSecret] /\ banned \subseteq T /\ crossed \subseteq Ops /\ t[1] \in Ops
  BY MixFits DEF Api!TypeOK
<1>5. Api(T)!TypeOK'
  <2>1. crossed' \subseteq Ops
    BY <1>3, <1>4
  <2>2. presented' \in [T -> 0 .. MaxSecret] /\ banned' \subseteq T
    BY <1>2, <1>4
  <2>3. reached' \in [T -> {"unsent", "auth", "replay", "write", "save", "reply", "answered", "lost"}]
    BY <1>1, <1>4
  <2> QED
    BY <1>1, <2>1, <2>2, <2>3 DEF Api!TypeOK, Api!Results, Api!NoAnswer
<1>6. MintedInv(T)'
  <2>1. token <= minted
    <3>1. Principal[t[1]] # User => Principal[t[1]] \in Keys
      BY <1>4, MixFits
    <3> QED
      BY <1>2, <3>1, RequestTypes DEF MintedInv
  <2> QED
    BY <1>1, <1>2, <1>4, <2>1 DEF MintedInv
<1>7. BannedInv(T)'
  <2> SUFFICES ASSUME NEW u \in banned'
               PROVE  \/ reached'[u] = "auth" /\ ~Api(T)!Usable(u[1], presented'[u])
                      \/ reached'[u] = "answered" /\ result[u][1] = "refused"
    BY <1>1 DEF BannedInv, Api!Usable
  <2>1. CASE u = t
    <3>1. u \notin banned
      BY <1>1, <2>1 DEF BannedInv
    <3> QED
      BY <1>1, <1>2, <1>4, <2>1, <3>1
  <2>2. CASE u # t
    <3>1. u \in banned
      BY <1>2, <2>2
    <3> QED
      BY <1>1, <1>2, <1>4, <2>2, <3>1 DEF BannedInv
  <2> QED
    BY <2>1, <2>2
<1>8. DoneInv(T)'
  BY <1>1, <1>4 DEF DoneInv
<1>9. ASSUME NEW o \in Keyed \ crossed' PROVE o \in Keyed \ crossed /\ (o = t[1] => Api(T)!Running(o) = {})
  BY <1>3, <1>9
<1>10. OnceInv(T)'
  <2> SUFFICES ASSUME NEW o \in Keyed \ crossed'
               PROVE  /\ \A a, b \in T : a[1] = o /\ b[1] = o /\ reached'[a] \in Active /\ reached'[b] \in Active => a = b
                      /\ effects[o] <= 1
                      /\ effects[o] = 1 => records[o][1] # "none" \/ \E a \in T : a[1] = o /\ reached'[a] = "save"
                      /\ \A a \in T : a[1] = o /\ reached'[a] = "write" => effects[o] = 0
    BY <1>1 DEF OnceInv
  <2>1. o = t[1] => \A a \in T : a[1] = o => reached[a] \notin Active
    BY <1>9 DEF Api!Running, Active
  <2>2. \A a \in T : a # t => reached'[a] = reached[a]
    BY <1>1, <1>4
  <2>3. o \in Keyed \ crossed
    BY <1>9
  <2>4. /\ \A a, b \in T : a[1] = o /\ b[1] = o /\ reached[a] \in Active /\ reached[b] \in Active => a = b
        /\ effects[o] <= 1
        /\ effects[o] = 1 => records[o][1] # "none" \/ \E a \in T : a[1] = o /\ reached[a] = "save"
        /\ \A a \in T : a[1] = o /\ reached[a] = "write" => effects[o] = 0
    BY <2>3 DEF OnceInv
  <2>5. reached'[t] = "auth"
    BY <1>1, <1>4
  <2> QED
    BY <1>1, <2>1, <2>2, <2>4, <2>5
<1>11. ToldInv(T)'
  BY <1>1, <1>9 DEF ToldInv
<1> QED
  BY <1>5, <1>6, <1>7, <1>8, <1>10, <1>11

\* An attempt goes on: it writes no row, and stores what it has done, if anything.
LEMMA GoesOn ==
  ASSUME NEW T \in {Creations, Rotations}, RequestInv(T), NEW t \in T,
         NEW point \in {"replay", "write", "reply", "answered", "lost"}, NEW value \in Api(T)!Results,
         UNCHANGED <<status, secret, minted, writer, effects, presented, banned>>,
         reached' = [reached EXCEPT ![t] = point], result' = [result EXCEPT ![t] = value],
         known' \in [Keys -> 0 .. MaxSecret], \A k \in Keys : known'[k] <= minted, lost' \in 0 .. MaxLost,
         crossed \subseteq crossed', crossed' \subseteq Ops,
         reached[t] \in Active, t \in banned => point = "answered" /\ value[1] = "refused",
         value[1] \in Written => value = result[t] \/ value = records[t[1]],
         \/ records' = records
         \/ records' = [records EXCEPT ![t[1]] = value] /\ value = result[t] /\ value[1] \in Written,
         t[1] \in Keyed \ crossed' => /\ point = "write" => reached[t] = "replay" /\ records[t[1]][1] = "none"
                                      /\ reached[t] = "save" => records'[t[1]][1] # "none"
  PROVE  RequestInv(T)'
<1> USE DEF RequestInv
<1>1. /\ reached \in [T -> {"unsent", "auth", "replay", "write", "save", "reply", "answered", "lost"}]
      /\ result \in [T -> Api(T)!Results] /\ records \in [Ops -> Api(T)!Results] /\ t[1] \in Ops /\ t[1] \in DOMAIN records
      /\ banned \subseteq T
  BY MixFits DEF Api!TypeOK
<1>2. /\ \A u \in T : u # t => reached'[u] = reached[u] /\ result'[u] = result[u]
      /\ reached'[t] = point /\ result'[t] = value
  BY <1>1
<1>3. \A o \in Ops : records'[o] = records[o] \/ (o = t[1] /\ records'[o] = result[t] /\ result[t] = value /\ value[1] \in Written)
  BY <1>1
<1>4. Api(T)!TypeOK'
  <2>1. records' \in [Ops -> Api(T)!Results]
    BY <1>1
  <2>2. result' \in [T -> Api(T)!Results]
    BY <1>1
  <2>3. reached' \in [T -> {"unsent", "auth", "replay", "write", "save", "reply", "answered", "lost"}]
    BY <1>1
  <2>4. Api(T)!Results' = Api(T)!Results
    BY DEF Api!Results, Api!NoAnswer
  <2> QED
    BY <2>1, <2>2, <2>3, <2>4 DEF Api!TypeOK
<1>5. MintedInv(T)'
  <2>1. \A u \in T : result'[u][1] = "secret" => result'[u][2] <= minted
    BY <1>1, <1>2 DEF MintedInv, Written
  <2>2. \A o \in Ops : records'[o][1] = "secret" => records'[o][2] <= minted
    BY <1>3 DEF MintedInv
  <2> QED
    BY <2>1, <2>2 DEF MintedInv
<1>6. BannedInv(T)'
  <2>1. \A u \in banned : \/ reached'[u] = "auth" /\ ~Api(T)!Usable(u[1], presented[u])
                          \/ reached'[u] = "answered" /\ result'[u][1] = "refused"
    BY <1>1, <1>2 DEF BannedInv
  <2> QED
    BY <2>1 DEF BannedInv, Api!Usable
<1>7. DoneInv(T)'
  <2>1. \A u \in T : /\ reached'[u] = "save" => result'[u][1] \in Written
                     /\ result'[u][1] \in Written => effects[u[1]] >= 1
    <3>1. value[1] \in Written => effects[t[1]] >= 1
      BY <1>1 DEF DoneInv, Written
    <3> QED
      BY <1>2, <3>1 DEF DoneInv
  <2>2. \A o \in Ops : records'[o][1] # "none" => records'[o][1] \in Written /\ effects[o] >= 1
    BY <1>3 DEF DoneInv
  <2> QED
    BY <2>1, <2>2 DEF DoneInv
<1>8. OnceInv(T)'
  <2> SUFFICES ASSUME NEW o \in Keyed \ crossed'
               PROVE  /\ \A a, b \in T : a[1] = o /\ b[1] = o /\ reached'[a] \in Active /\ reached'[b] \in Active => a = b
                      /\ effects[o] <= 1
                      /\ effects[o] = 1 => records'[o][1] # "none" \/ \E a \in T : a[1] = o /\ reached'[a] = "save"
                      /\ \A a \in T : a[1] = o /\ reached'[a] = "write" => effects[o] = 0
    BY DEF OnceInv
  <2>1. o \in Ops /\ o \in Keyed \ crossed
    BY MixFits
  <2>2. /\ \A a, b \in T : a[1] = o /\ b[1] = o /\ reached[a] \in Active /\ reached[b] \in Active => a = b
        /\ effects[o] <= 1
        /\ effects[o] = 1 => records[o][1] # "none" \/ \E a \in T : a[1] = o /\ reached[a] = "save"
        /\ \A a \in T : a[1] = o /\ reached[a] = "write" => effects[o] = 0
    BY <2>1 DEF OnceInv
  <2>3. \A a \in T : reached'[a] \in Active => reached[a] \in Active
    BY <1>2
  <2>4. records[o][1] # "none" => records'[o][1] # "none"
    BY <1>3, <2>1 DEF Written
  <2>5. effects[o] = 1 => records'[o][1] # "none" \/ \E a \in T : a[1] = o /\ reached'[a] = "save"
    <3> SUFFICES ASSUME effects[o] = 1, NEW a \in T, a[1] = o, reached[a] = "save"
                 PROVE  records'[o][1] # "none" \/ reached'[a] = "save"
      BY <2>2, <2>4
    <3>1. CASE a = t
      BY <3>1
    <3> QED
      BY <1>2, <3>1
  <2>6. \A a \in T : a[1] = o /\ reached'[a] = "write" => effects[o] = 0
    <3> SUFFICES ASSUME NEW a \in T, a[1] = o, reached'[a] = "write" PROVE effects[o] = 0
      OBVIOUS
    <3>1. CASE a # t
      BY <1>2, <2>2, <3>1
    <3>2. CASE a = t
      <4>1. reached[t] = "replay" /\ records[o][1] = "none"
        BY <1>2, <3>2
      <4>2. \A b \in T : b[1] = o /\ reached[b] = "save" => b = t
        BY <2>2, <3>2, <4>1 DEF Active
      <4>3. effects[o] # 1
        BY <2>2, <4>1, <4>2
      <4> QED
        BY <2>1, <2>2, <4>3, RequestTypes
    <3> QED
      BY <3>1, <3>2
  <2> QED
    BY <2>2, <2>3, <2>5, <2>6
<1>9. ToldInv(T)'
  <2> SUFFICES ASSUME NEW o \in Keyed \ crossed', writer[Target[o]] = o
               PROVE  /\ \A u \in T : u[1] = o /\ result'[u][1] = "secret" => result'[u][2] = secret[Target[o]]
                      /\ records'[o][1] = "secret" => records'[o][2] = secret[Target[o]]
    BY DEF ToldInv
  <2>1. o \in Ops /\ o \in Keyed \ crossed
    BY MixFits
  <2>2. /\ \A u \in T : u[1] = o /\ result[u][1] = "secret" => result[u][2] = secret[Target[o]]
        /\ records[o][1] = "secret" => records[o][2] = secret[Target[o]]
    BY <2>1 DEF ToldInv
  <2> QED
    BY <1>2, <1>3, <2>1, <2>2 DEF Written
<1> QED
  BY <1>4, <1>5, <1>6, <1>7, <1>8, <1>9

LEMMA AuthenticateKeeps ==
  ASSUME NEW T \in {Creations, Rotations}, RequestInv(T), NEW t \in T, Api(T)!Authenticate(t) PROVE RequestInv(T)'
<1>1. /\ reached[t] = "auth"
      /\ UNCHANGED <<status, secret, minted, writer, records, lost, crossed, effects, known, presented, banned>>
  BY DEF Api!Authenticate, Api!keyVars, Api!clientVars
<1>2. Api(T)!TypeOK /\ MintedInv(T) /\ BannedInv(T)
  BY DEF RequestInv
<1>3. /\ lost \in 0 .. MaxLost /\ crossed \subseteq Ops /\ known \in [Keys -> 0 .. MaxSecret]
      /\ result \in [T -> Api(T)!Results] /\ \A k \in Keys : known[k] <= minted
  BY <1>2 DEF Api!TypeOK, MintedInv
<1>4. CASE Api(T)!Usable(t[1], presented[t])
  <2>1. t \notin banned
    BY <1>1, <1>2, <1>4 DEF BannedInv
  <2>2. reached' = [reached EXCEPT ![t] = "replay"] /\ result' = [result EXCEPT ![t] = result[t]]
    BY <1>3, <1>4 DEF Api!Authenticate, Api!Goes
  <2>3. result[t] \in Api(T)!Results
    BY <1>3
  <2> QED
    BY <1>1, <1>3, <2>1, <2>2, <2>3, GoesOn DEF Active
<1>5. CASE ~Api(T)!Usable(t[1], presented[t])
  <2>1. reached' = [reached EXCEPT ![t] = "answered"] /\ result' = [result EXCEPT ![t] = <<"refused", 0>>]
    BY <1>5 DEF Api!Authenticate, Api!Refuse, Api!Goes
  <2>2. <<"refused", 0>> \in Api(T)!Results /\ <<"refused", 0>>[1] \notin Written /\ <<"refused", 0>>[1] = "refused"
    BY DEF Api!Results, Written
  <2> QED
    BY <1>1, <1>3, <2>1, <2>2, GoesOn DEF Active
<1> QED
  BY <1>4, <1>5

LEMMA ReplayKeeps ==
  ASSUME NEW T \in {Creations, Rotations}, RequestInv(T), NEW t \in T, Api(T)!Replay(t) PROVE RequestInv(T)'
<1>1. /\ reached[t] = "replay"
      /\ UNCHANGED <<status, secret, minted, writer, records, effects, known, presented, banned>>
  BY DEF Api!Replay, Api!keyVars, Api!clientVars
<1>2. Api(T)!TypeOK /\ MintedInv(T) /\ BannedInv(T)
  BY DEF RequestInv
<1>3. /\ lost \in 0 .. MaxLost /\ crossed \subseteq Ops /\ known \in [Keys -> 0 .. MaxSecret] /\ t[1] \in Ops
      /\ result \in [T -> Api(T)!Results] /\ records \in [Ops -> Api(T)!Results] /\ \A k \in Keys : known[k] <= minted
      /\ t \notin banned
  BY <1>1, <1>2, MixFits DEF Api!TypeOK, MintedInv, BannedInv
<1>4. CASE /\ reached' = [reached EXCEPT ![t] = "reply"] /\ result' = [result EXCEPT ![t] = records[t[1]]]
           /\ UNCHANGED <<lost, crossed>>
  <2>1. records[t[1]] \in Api(T)!Results
    BY <1>3
  <2> QED
    BY <1>1, <1>3, <1>4, <2>1, GoesOn DEF Active
<1>5. CASE /\ IF records[t[1]] = Api(T)!NoAnswer THEN UNCHANGED <<lost, crossed>>
              ELSE Api(T)!Fault /\ crossed' = crossed \cup {t[1]}
           /\ IF Api(T)!Found(t[1]) THEN Api(T)!Goes(t, "write") /\ UNCHANGED result ELSE Api(T)!Refuse(t)
  <2>1. lost' \in 0 .. MaxLost /\ crossed \subseteq crossed' /\ crossed' \subseteq Ops
    BY <1>3, <1>5, MixFits DEF Api!Fault
  <2>2. t[1] \notin crossed' => records[t[1]][1] = "none"
    BY <1>2, <1>3, <1>5, RequestTypes
  <2>3. CASE Api(T)!Found(t[1])
    <3>1. reached' = [reached EXCEPT ![t] = "write"] /\ result' = [result EXCEPT ![t] = result[t]]
      BY <1>3, <1>5, <2>3 DEF Api!Goes
    <3>2. result[t] \in Api(T)!Results
      BY <1>3
    <3> QED
      BY <1>1, <1>3, <2>1, <2>2, <3>1, <3>2, GoesOn DEF Active
  <2>4. CASE ~Api(T)!Found(t[1])
    <3>1. reached' = [reached EXCEPT ![t] = "answered"] /\ result' = [result EXCEPT ![t] = <<"refused", 0>>]
      BY <1>5, <2>4 DEF Api!Refuse, Api!Goes
    <3>2. <<"refused", 0>> \in Api(T)!Results /\ <<"refused", 0>>[1] \notin Written /\ <<"refused", 0>>[1] = "refused"
      BY DEF Api!Results, Written
    <3> QED
      BY <1>1, <1>3, <2>1, <3>1, <3>2, GoesOn DEF Active
  <2> QED
    BY <2>3, <2>4
<1> QED
  BY <1>4, <1>5 DEF Api!Replay, Api!Goes

LEMMA SaveKeeps ==
  ASSUME NEW T \in {Creations, Rotations}, RequestInv(T), NEW t \in T, Api(T)!Save(t) PROVE RequestInv(T)'
<1>1. /\ reached[t] = "save" /\ reached' = [reached EXCEPT ![t] = "reply"]
      /\ UNCHANGED <<status, secret, minted, writer, result, effects, known, presented, banned>>
  BY DEF Api!Save, Api!Goes, Api!keyVars, Api!clientVars
<1>2. Api(T)!TypeOK /\ MintedInv(T) /\ BannedInv(T) /\ DoneInv(T)
  BY DEF RequestInv
<1>3. /\ lost \in 0 .. MaxLost /\ crossed \subseteq Ops /\ known \in [Keys -> 0 .. MaxSecret] /\ t[1] \in Ops
      /\ result \in [T -> Api(T)!Results] /\ records \in [Ops -> Api(T)!Results] /\ \A k \in Keys : known[k] <= minted
      /\ t \notin banned
  BY <1>1, <1>2, MixFits DEF Api!TypeOK, MintedInv, BannedInv
<1>4. result[t] \in Api(T)!Results /\ result' = [result EXCEPT ![t] = result[t]] /\ result[t][1] \in Written
  BY <1>1, <1>2, <1>3 DEF DoneInv
<1>5. CASE /\ records' = IF t[1] \in Keyed THEN [records EXCEPT ![t[1]] = result[t]] ELSE records
           /\ UNCHANGED <<lost, crossed>>
  <2>1. t[1] \in Keyed => records'[t[1]][1] # "none"
    BY <1>3, <1>4, <1>5 DEF Written
  <2>2. \/ records' = records
        \/ records' = [records EXCEPT ![t[1]] = result[t]]
    BY <1>5
  <2> QED
    BY <1>1, <1>3, <1>4, <1>5, <2>1, <2>2, GoesOn DEF Active
<1>6. CASE Api(T)!Fault /\ crossed' = crossed \cup {t[1]} /\ UNCHANGED records
  <2>1. lost' \in 0 .. MaxLost /\ crossed \subseteq crossed' /\ crossed' \subseteq Ops /\ t[1] \in crossed'
    BY <1>3, <1>6, MixFits DEF Api!Fault
  <2> QED
    BY <1>1, <1>3, <1>4, <1>6, <2>1, GoesOn DEF Active
<1> QED
  BY <1>5, <1>6 DEF Api!Save

LEMMA ReplyKeeps ==
  ASSUME NEW T \in {Creations, Rotations}, RequestInv(T), NEW t \in T, Api(T)!Reply(t) \/ Api(T)!Dies(t)
  PROVE  RequestInv(T)'
<1>1. /\ reached[t] \in {"save", "reply"}
      /\ UNCHANGED <<status, secret, minted, writer, result, records, effects, presented, banned>>
  BY DEF Api!Reply, Api!Dies, Api!keyVars, Api!clientVars
<1>2. PICK point \in {"answered", "lost"} : reached' = [reached EXCEPT ![t] = point]
  BY DEF Api!Reply, Api!Dies, Api!Goes
<1>3. Api(T)!TypeOK /\ MintedInv(T) /\ BannedInv(T)
  BY DEF RequestInv
<1>4. /\ lost \in 0 .. MaxLost /\ crossed \subseteq Ops /\ known \in [Keys -> 0 .. MaxSecret] /\ t[1] \in Ops
      /\ result \in [T -> Api(T)!Results] /\ \A k \in Keys : known[k] <= minted
      /\ t \notin banned /\ result' = [result EXCEPT ![t] = result[t]] /\ result[t] \in Api(T)!Results
  BY <1>1, <1>3, MixFits DEF Api!TypeOK, MintedInv, BannedInv
<1>5. /\ lost' \in 0 .. MaxLost /\ crossed \subseteq crossed' /\ crossed' \subseteq Ops
      /\ reached[t] = "save" => t[1] \in crossed'
  BY <1>1, <1>4, MixFits DEF Api!Reply, Api!Dies, Api!Fault
<1>6. known' \in [Keys -> 0 .. MaxSecret] /\ \A k \in Keys : known'[k] <= minted
  <2>1. CASE known' = known
    BY <1>4, <2>1
  <2>2. CASE result[t][1] = "secret" /\ known' = [known EXCEPT ![Target[t[1]]] = result[t][2]]
    <3>1. result[t][2] \in 0 .. MaxSecret /\ result[t][2] <= minted
      BY <1>3, <1>4, <2>2, RequestTypes DEF MintedInv
    <3> QED
      BY <1>4, <2>2, <3>1
  <2> QED
    BY <2>1, <2>2 DEF Api!Reply, Api!Dies, Api!clientVars
<1> QED
  BY <1>1, <1>2, <1>4, <1>5, <1>6, GoesOn DEF Active

LEMMA ExpireKeeps ==
  ASSUME NEW T \in {Creations, Rotations}, RequestInv(T), NEW k \in Keys, Api(T)!Expire(k) PROVE RequestInv(T)'
<1> USE DEF RequestInv
<1>1. /\ status' = [status EXCEPT ![k] = "expired"]
      /\ UNCHANGED <<secret, minted, writer, records, reached, result, lost, crossed, effects, known, presented, banned>>
  BY DEF Api!Expire, Api!clientVars
<1>2. Api(T)!TypeOK'
  BY <1>1 DEF Api!TypeOK, Api!Results, Api!NoAnswer
<1>3. BannedInv(T)'
  <2>1. status \in [Keys -> {"none", "live", "revoked", "expired"}] /\ banned \subseteq T
    BY DEF Api!TypeOK
  <2> QED
    BY <1>1, <2>1, MixFits DEF BannedInv, Api!Usable
<1>4. MintedInv(T)' /\ DoneInv(T)' /\ OnceInv(T)' /\ ToldInv(T)'
  BY <1>1 DEF MintedInv, DoneInv, OnceInv, ToldInv
<1> QED
  BY <1>2, <1>3, <1>4

\* The handler writes: what it did was not done before, unless the attempts of
\* its operation overlapped.
LEMMA HandlerWrites ==
  ASSUME NEW T \in {Creations, Rotations}, RequestInv(T), NEW t \in T, NEW value \in Api(T)!Results,
         reached[t] = "write", reached' = [reached EXCEPT ![t] = "save"],
         effects' = [effects EXCEPT ![t[1]] = @ + 1], result' = [result EXCEPT ![t] = value],
         UNCHANGED <<records, lost, crossed, known, presented, banned>>,
         status' \in [Keys -> {"none", "live", "revoked", "expired"}],
         \A k \in Keys : status[k] # "none" => status'[k] # "none" /\ (status'[k] = "live" => status[k] = "live"),
         minted' \in 0 .. MaxSecret, minted <= minted', value[1] \in Written,
         value[1] = "secret" => value[2] = minted',
         \/ UNCHANGED <<secret, writer>>
         \/ /\ minted' = minted + 1 /\ value = <<"secret", minted'>>
            /\ secret' = [secret EXCEPT ![Target[t[1]]] = minted']
            /\ writer' = [writer EXCEPT ![Target[t[1]]] = t[1]]
  PROVE  RequestInv(T)'
<1> USE DEF RequestInv
<1>1. /\ reached \in [T -> {"unsent", "auth", "replay", "write", "save", "reply", "answered", "lost"}]
      /\ result \in [T -> Api(T)!Results] /\ t[1] \in Ops /\ effects \in [Ops -> Nat] /\ banned \subseteq T
      /\ secret \in [Keys -> 0 .. MaxSecret] /\ writer \in [Keys -> Ops \cup {"nobody"}] /\ Target[t[1]] \in Keys
  BY MixFits DEF Api!TypeOK
<1>2. /\ \A u \in T : u # t => reached'[u] = reached[u] /\ result'[u] = result[u]
      /\ reached'[t] = "save" /\ result'[t] = value
      /\ \A o \in Ops : effects'[o] = IF o = t[1] THEN effects[o] + 1 ELSE effects[o]
  BY <1>1
<1>3. \A k \in Keys : \/ secret'[k] = secret[k] /\ writer'[k] = writer[k]
                      \/ /\ k = Target[t[1]] /\ secret'[k] = minted' /\ writer'[k] = t[1] /\ minted' = minted + 1
                         /\ value = <<"secret", minted'>>
  BY <1>1
<1>4. Api(T)!TypeOK'
  <2>1. secret' \in [Keys -> 0 .. MaxSecret]
    BY <1>1
  <2>2. writer' \in [Keys -> Ops \cup {"nobody"}]
    BY <1>1
  <2>3. result' \in [T -> Api(T)!Results] /\ effects' \in [Ops -> Nat]
    BY <1>1
  <2>4. reached' \in [T -> {"unsent", "auth", "replay", "write", "save", "reply", "answered", "lost"}]
    BY <1>1
  <2>5. Api(T)!Results' = Api(T)!Results
    BY DEF Api!Results, Api!NoAnswer
  <2> QED
    BY <2>1, <2>2, <2>3, <2>4, <2>5 DEF Api!TypeOK
<1>5. minted \in Nat /\ minted' \in Nat /\ \A k \in Keys : secret[k] \in Nat /\ known[k] \in Nat
  BY RequestTypes, MixFits
<1>6. MintedInv(T)'
  <2>1. \A k \in Keys : secret'[k] <= minted' /\ known[k] <= minted'
    BY <1>3, <1>5 DEF MintedInv
  <2>2. \A u \in T : presented[u] <= minted' /\ (result'[u][1] = "secret" => result'[u][2] <= minted')
    BY <1>2, <1>5, RequestTypes DEF MintedInv
  <2>3. \A o \in Ops : records[o][1] = "secret" => records[o][2] <= minted'
    BY <1>5, RequestTypes DEF MintedInv
  <2> QED
    BY <2>1, <2>2, <2>3 DEF MintedInv
<1>7. BannedInv(T)'
  <2>1. t \notin banned
    BY DEF BannedInv
  <2>2. ASSUME NEW u \in banned, ~Api(T)!Usable(u[1], presented[u]) PROVE ~Api(T)!Usable(u[1], presented[u])'
    <3>1. u \in T /\ u[1] \in Ops /\ Principal[u[1]] # User /\ Principal[u[1]] \in Keys
      BY <1>1, <2>2, MixFits DEF Api!Usable
    <3> DEFINE k == Principal[u[1]]
    <3>2. status[k] # "none" /\ (status[k] # "live" \/ secret[k] # presented[u])
      BY <2>2, <3>1 DEF BannedInv, Api!Usable
    <3>3. presented[u] <= minted /\ presented[u] \in Nat
      BY <3>1, RequestTypes DEF MintedInv
    <3>4. status'[k] # "live" \/ secret'[k] # presented[u]
      BY <1>3, <1>5, <3>1, <3>2, <3>3
    <3> QED
      BY <3>1, <3>4 DEF Api!Usable
  <2>3. \A u \in banned : \/ reached'[u] = "auth" /\ ~Api(T)!Usable(u[1], presented[u])'
                          \/ reached'[u] = "answered" /\ result'[u][1] = "refused"
    BY <1>1, <1>2, <2>1, <2>2 DEF BannedInv
  <2>4. \A o \in Ops : Principal[o] # User => status'[Principal[o]] # "none"
    BY MixFits DEF BannedInv
  <2> QED
    BY <2>3, <2>4 DEF BannedInv, Api!Usable
<1>8. effects'[t[1]] >= 1 /\ \A o \in Ops : effects[o] \in Nat /\ effects'[o] >= effects[o]
  BY <1>1, <1>2
<1>9. DoneInv(T)'
  <2>1. \A u \in T : /\ reached'[u] = "save" => result'[u][1] \in Written
                     /\ result'[u][1] \in Written => effects'[u[1]] >= 1
    BY <1>2, <1>8, MixFits DEF DoneInv
  <2>2. \A o \in Ops : records[o][1] # "none" => records[o][1] \in Written /\ effects'[o] >= 1
    BY <1>8 DEF DoneInv
  <2>3. \A k \in Keys : writer'[k] # "nobody" => effects'[writer'[k]] >= 1
    <3> SUFFICES ASSUME NEW k \in Keys, writer'[k] # "nobody" PROVE effects'[writer'[k]] >= 1
      OBVIOUS
    <3>1. CASE writer'[k] = t[1]
      BY <1>8, <3>1
    <3>2. CASE writer'[k] = writer[k]
      <4>1. writer[k] \in Ops /\ effects[writer[k]] >= 1
        BY <1>1, <3>2 DEF DoneInv
      <4> QED
        BY <1>8, <3>2, <4>1
    <3> QED
      BY <1>3, <3>1, <3>2
  <2> QED
    BY <2>1, <2>2, <2>3 DEF DoneInv
<1>10. OnceInv(T)'
  <2> SUFFICES ASSUME NEW o \in Keyed \ crossed
               PROVE  /\ \A a, b \in T : a[1] = o /\ b[1] = o /\ reached'[a] \in Active /\ reached'[b] \in Active => a = b
                      /\ effects'[o] <= 1
                      /\ effects'[o] = 1 => records[o][1] # "none" \/ \E a \in T : a[1] = o /\ reached'[a] = "save"
                      /\ \A a \in T : a[1] = o /\ reached'[a] = "write" => effects'[o] = 0
    BY DEF OnceInv
  <2>1. o \in Ops
    BY MixFits
  <2>2. /\ \A a, b \in T : a[1] = o /\ b[1] = o /\ reached[a] \in Active /\ reached[b] \in Active => a = b
        /\ effects[o] <= 1
        /\ effects[o] = 1 => records[o][1] # "none" \/ \E a \in T : a[1] = o /\ reached[a] = "save"
        /\ \A a \in T : a[1] = o /\ reached[a] = "write" => effects[o] = 0
    BY DEF OnceInv
  <2>3. \A a, b \in T : a[1] = o /\ b[1] = o /\ reached'[a] \in Active /\ reached'[b] \in Active => a = b
    BY <1>2, <2>2 DEF Active
  <2>4. CASE o = t[1]
    <3>1. effects[o] = 0 /\ effects'[o] = 1
      BY <1>2, <2>1, <2>2, <2>4
    <3>2. \A a \in T : a[1] = o /\ reached'[a] = "write" => FALSE
      BY <1>2, <2>3, <2>4 DEF Active
    <3> QED
      BY <1>2, <2>3, <2>4, <3>1, <3>2
  <2>5. CASE o # t[1]
    <3>1. effects'[o] = effects[o] /\ \A a \in T : a[1] = o => reached'[a] = reached[a]
      BY <1>2, <2>1, <2>5
    <3> QED
      BY <2>2, <2>3, <3>1
  <2> QED
    BY <2>4, <2>5
<1>11. ToldInv(T)'
  <2> SUFFICES ASSUME NEW o \in Keyed \ crossed, writer'[Target[o]] = o
               PROVE  /\ \A u \in T : u[1] = o /\ result'[u][1] = "secret" => result'[u][2] = secret'[Target[o]]
                      /\ records[o][1] = "secret" => records[o][2] = secret'[Target[o]]
    BY DEF ToldInv
  <2>1. o \in Ops /\ o # "nobody" /\ Target[o] \in Keys
    BY MixFits
  <2>2. CASE o = t[1]
    <3>1. effects[o] = 0
      BY <2>2 DEF OnceInv
    <3>2. (\A u \in T : u[1] = o => result[u][1] \notin Written) /\ records[o][1] = "none"
      BY <2>1, <3>1 DEF DoneInv
    <3>3. writer[Target[o]] # o
      BY <2>1, <3>1 DEF DoneInv
    <3>4. secret'[Target[o]] = minted' /\ value = <<"secret", minted'>>
      BY <1>3, <2>1, <3>3
    <3> QED
      BY <1>2, <3>2, <3>4 DEF Written
  <2>3. CASE o # t[1]
    <3>1. secret'[Target[o]] = secret[Target[o]] /\ writer[Target[o]] = o
      BY <1>3, <2>1, <2>3
    <3>2. \A u \in T : u[1] = o => result'[u] = result[u]
      BY <1>2, <2>3
    <3> QED
      BY <3>1, <3>2 DEF ToldInv
  <2> QED
    BY <2>2, <2>3
<1> QED
  BY <1>4, <1>6, <1>7, <1>9, <1>10, <1>11

LEMMA CreateKeeps ==
  ASSUME NEW T \in {Creations, Rotations}, RequestInv(T), NEW t \in T, Api(T)!Create(t) PROVE RequestInv(T)'
<1>1. /\ reached[t] = "write" /\ reached' = [reached EXCEPT ![t] = "save"]
      /\ effects' = [effects EXCEPT ![t[1]] = @ + 1] /\ result' = [result EXCEPT ![t] = <<"secret", minted + 1>>]
      /\ UNCHANGED <<records, lost, crossed, known, presented, banned>>
      /\ minted < MaxSecret /\ minted' = minted + 1
  BY DEF Api!Create, Api!Done, Api!Goes, Api!clientVars
<1>2. Api(T)!TypeOK
  BY DEF RequestInv
<1>3. /\ minted \in Nat /\ minted' \in 0 .. MaxSecret /\ Target[t[1]] \in Keys
      /\ status \in [Keys -> {"none", "live", "revoked", "expired"}]
  BY <1>1, <1>2, MixFits DEF Api!TypeOK
<1>4. <<"secret", minted'>> \in Api(T)!Results
  BY <1>1, <1>3, MixFits DEF Api!Results
<1>5. PICK value \in Api(T)!Results : value = <<"secret", minted'>> /\ result' = [result EXCEPT ![t] = value]
  BY <1>1, <1>4
<1>6. value[1] \in Written /\ (value[1] = "secret" => value[2] = minted') /\ minted <= minted'
  BY <1>1, <1>3, <1>5 DEF Written
<1>7. CASE status[Target[t[1]]] = "none"
  <2>1. /\ status' = [status EXCEPT ![Target[t[1]]] = "live"]
        /\ secret' = [secret EXCEPT ![Target[t[1]]] = minted'] /\ writer' = [writer EXCEPT ![Target[t[1]]] = t[1]]
    BY <1>1, <1>7 DEF Api!Create
  <2>2. \A k \in Keys : status[k] # "none" => status'[k] = status[k]
    BY <1>3, <1>7, <2>1
  <2>3. status' \in [Keys -> {"none", "live", "revoked", "expired"}]
    BY <1>3, <2>1
  <2> QED
    BY <1>1, <1>3, <1>5, <1>6, <2>1, <2>2, <2>3, HandlerWrites
<1>8. CASE status[Target[t[1]]] # "none"
  <2>1. UNCHANGED <<status, secret, writer>>
    BY <1>8 DEF Api!Create
  <2> QED
    BY <1>1, <1>3, <1>5, <1>6, <2>1, HandlerWrites
<1> QED
  BY <1>7, <1>8

LEMMA RotateKeeps ==
  ASSUME NEW T \in {Creations, Rotations}, RequestInv(T), NEW t \in T, Api(T)!Rotate(t) PROVE RequestInv(T)'
<1>1. /\ reached[t] = "write" /\ reached' = [reached EXCEPT ![t] = "save"]
      /\ effects' = [effects EXCEPT ![t[1]] = @ + 1] /\ result' = [result EXCEPT ![t] = <<"secret", minted + 1>>]
      /\ UNCHANGED <<status, records, lost, crossed, known, presented, banned>>
      /\ minted < MaxSecret /\ minted' = minted + 1
      /\ secret' = [secret EXCEPT ![Target[t[1]]] = minted'] /\ writer' = [writer EXCEPT ![Target[t[1]]] = t[1]]
  BY DEF Api!Rotate, Api!Done, Api!Goes, Api!clientVars
<1>2. Api(T)!TypeOK
  BY DEF RequestInv
<1>3. /\ minted \in Nat /\ minted' \in 0 .. MaxSecret
      /\ status' \in [Keys -> {"none", "live", "revoked", "expired"}]
  BY <1>1, <1>2, MixFits DEF Api!TypeOK
<1>4. <<"secret", minted'>> \in Api(T)!Results
  BY <1>1, <1>3, MixFits DEF Api!Results
<1>5. PICK value \in Api(T)!Results : value = <<"secret", minted'>> /\ result' = [result EXCEPT ![t] = value]
  BY <1>1, <1>4
<1>6. value[1] \in Written /\ (value[1] = "secret" => value[2] = minted') /\ minted <= minted'
  BY <1>1, <1>3, <1>5 DEF Written
<1> QED
  BY <1>1, <1>3, <1>5, <1>6, HandlerWrites

LEMMA RevokeKeeps ==
  ASSUME NEW T \in {Creations, Rotations}, RequestInv(T), NEW t \in T, Api(T)!Revoke(t) PROVE RequestInv(T)'
<1>1. /\ reached[t] = "write"
      /\ UNCHANGED <<secret, minted, writer, records, lost, crossed, known, presented, banned>>
  BY DEF Api!Revoke, Api!clientVars
<1>2. Api(T)!TypeOK /\ MintedInv(T) /\ BannedInv(T)
  BY DEF RequestInv
<1>3. /\ minted \in 0 .. MaxSecret /\ Target[t[1]] \in Keys /\ status \in [Keys -> {"none", "live", "revoked", "expired"}]
      /\ lost \in 0 .. MaxLost /\ crossed \subseteq Ops /\ known \in [Keys -> 0 .. MaxSecret]
      /\ \A k \in Keys : known[k] <= minted
  BY <1>2, MixFits DEF Api!TypeOK, MintedInv
<1>4. <<"revoked", 0>> \in Api(T)!Results /\ <<"refused", 0>> \in Api(T)!Results
  BY DEF Api!Results
<1>5. CASE status[Target[t[1]]] \in {"live", "expired"}
  <2>1. /\ status' = [status EXCEPT ![Target[t[1]]] = "revoked"] /\ reached' = [reached EXCEPT ![t] = "save"]
        /\ effects' = [effects EXCEPT ![t[1]] = @ + 1] /\ result' = [result EXCEPT ![t] = <<"revoked", 0>>]
    BY <1>5 DEF Api!Revoke, Api!Done, Api!Goes
  <2>2. \A k \in Keys : status[k] # "none" => status'[k] # "none" /\ (status'[k] = "live" => status[k] = "live")
    BY <1>3, <2>1
  <2>3. status' \in [Keys -> {"none", "live", "revoked", "expired"}] /\ minted <= minted' /\ minted' \in 0 .. MaxSecret
    BY <1>1, <1>3, <2>1, MixFits
  <2> QED
    BY <1>1, <1>4, <2>1, <2>2, <2>3, HandlerWrites DEF Written
<1>6. CASE status[Target[t[1]]] \notin {"live", "expired"}
  <2>1. /\ reached' = [reached EXCEPT ![t] = "answered"] /\ result' = [result EXCEPT ![t] = <<"refused", 0>>]
        /\ UNCHANGED <<status, effects>>
    BY <1>6 DEF Api!Revoke, Api!Refuse, Api!Goes
  <2>2. <<"refused", 0>>[1] \notin Written /\ <<"refused", 0>>[1] = "refused"
    BY DEF Written
  <2> QED
    BY <1>1, <1>3, <1>4, <2>1, <2>2, GoesOn DEF Active
<1> QED
  BY <1>5, <1>6

LEMMA RequestsKeep ==
  ASSUME NEW T \in {Creations, Rotations}, RequestInv(T), Api(T)!Next PROVE RequestInv(T)'
BY SendKeeps, AuthenticateKeeps, ReplayKeeps, CreateKeeps, RotateKeeps, RevokeKeeps, SaveKeeps, ReplyKeeps, ExpireKeeps
   DEF Api!Next, Api!Serve

LEMMA RequestsAreSound ==
  ASSUME NEW T \in {Creations, Rotations}, RequestInv(T)
  PROVE  Api(T)!TypeOK /\ Api(T)!RetryRunsOnce /\ Api(T)!AnswerIsCurrent /\ Api(T)!RevokedStaysOut
<1> USE DEF RequestInv
<1>1. Api(T)!RetryRunsOnce
  BY DEF OnceInv, Api!RetryRunsOnce
<1>2. Api(T)!AnswerIsCurrent
  BY DEF ToldInv, Api!AnswerIsCurrent
<1>3. Api(T)!RevokedStaysOut
  BY DEF BannedInv, Api!RevokedStaysOut
<1> QED
  BY <1>1, <1>2, <1>3

-----------------------------------------------------------------------------
(* The checkouts of a person *)

Writing == {"link", "bucket", "capacity", "commit"}

\* A subscription is ended only when it was provisioned; an event that is sent
\* has not been sent too often.
PayInv ==
  /\ Checkouts!TypeOK
  /\ \A s \in Subs : /\ stage[s] = "unpaid" <=> stripe[s] = "none"
                     /\ stage[s] = "unpaid" => tries[s] = 0
                     /\ stage[s] = "sent" => tries[s] < MaxTries
                     /\ stripe[s] = "ending" => stage[s] = "acked"

\* From the link on a transaction is alone, until it ends.
LockInv ==
  /\ \A s \in Subs : stage[s] \in {"bucket", "capacity", "commit"} => linkLock = s
  /\ \A s \in Subs : stage[s] = "commit" => found[s].key \/ keys = 0
  /\ keys <= 1

\* What a transaction found or made is there when it commits.
BackInv ==
  /\ bucket = "live" => provided
  /\ \A s \in Subs : stage[s] \in {"capacity", "commit"} => provided \/ bucket = "deleted"
  /\ bucket = "none" <=> link = None
  /\ link = None => allocated = 0

\* What a transaction has read of the link is still linked, unless it
\* overlapped the one that changed it; what it has read, it has ended.
PreviousInv ==
  /\ \A s, t \in Subs : s # t /\ Checkouts!InTransaction(s) /\ Checkouts!InTransaction(t) => s \in overlap
  /\ \A s \in Subs : stage[s] \in Writing \cup {"replace"} => previous[s] = link \/ link \in overlap
  /\ \A s \in Subs : stage[s] = "replace" => previous[s] # None
  /\ \A s \in Subs : stage[s] \in Writing /\ previous[s] # None =>
       stripe[previous[s]] = "ending" \/ previous[s] \in unheard
  /\ \A s \in Subs : previous[s] # None => stage[previous[s]] = "acked"

\* The linked subscription is paid for, or an event that is to replace it is
\* not through.
PaidInv ==
  /\ Checkouts!NoneOrphaned
  /\ link # None => stage[link] = "acked"
  /\ link # None => \/ stripe[link] = "paying"
                    \/ \E t \in Subs : previous[t] = link /\ stage[t] \notin {"unpaid", "acked"}

CheckoutInv == PayInv /\ LockInv /\ BackInv /\ PreviousInv /\ PaidInv

LEMMA CheckoutConstants ==
  /\ None \notin Subs /\ MaxTries \in Nat \ {0} /\ MaxMishaps \in Nat /\ Usages \subseteq Nat
  /\ \A s \in Subs : Checkouts!JoinedGb(s) \in Nat
<1>1. /\ None \notin Subs /\ MaxTries \in Nat \ {0} /\ MaxMishaps \in Nat /\ Usages \subseteq Nat
      /\ PlanGb \in [Subs -> Nat] /\ AddonGb \in Nat
  BY TenancyAssumption DEF Checkouts!ProvisioningAssumption
<1>2. ASSUME NEW s \in Subs PROVE Checkouts!JoinedGb(s) \in Nat
  <2>1. PlanGb[s] \in Nat
    BY <1>1
  <2>2. 10 * PlanGb[s] + AddonGb \in Nat /\ 100 * PlanGb[s] + AddonGb \in Nat /\ 1000 * PlanGb[s] + AddonGb \in Nat
    BY <1>1, <2>1
  <2> QED
    BY <2>2 DEF Checkouts!JoinedGb
<1> QED
  BY <1>1, <1>2

LEMMA InitCheckouts == Checkouts!Init => CheckoutInv
<1> SUFFICES ASSUME Checkouts!Init PROVE CheckoutInv
  OBVIOUS
<1>1. PayInv
  <2>1. Checkouts!Nothing \in [bucket : BOOLEAN, key : BOOLEAN]
    BY DEF Checkouts!Nothing
  <2>2. found \in [Subs -> [bucket : BOOLEAN, key : BOOLEAN]]
    BY <2>1 DEF Checkouts!Init
  <2>3. tries \in [Subs -> 0 .. MaxTries] /\ mishaps \in 0 .. MaxMishaps
    BY CheckoutConstants DEF Checkouts!Init
  <2>4. /\ stripe \in [Subs -> {"none", "paying", "ending"}] /\ previous \in [Subs -> Subs \cup {None}]
        /\ stage \in [Subs -> {"unpaid", "sent", "user", "previous", "replace", "link", "bucket",
                               "capacity", "commit", "rollback", "acked", "gaveUp", "stuck"}]
    BY DEF Checkouts!Init
  <2>5. {userLock, linkLock, link} \subseteq Subs \cup {None} /\ {allocated, used, keys} \subseteq Nat
    BY DEF Checkouts!Init
  <2>6. bucket = "none" /\ provided = FALSE /\ overlap = {} /\ unheard = {}
    BY DEF Checkouts!Init
  <2>7. Checkouts!TypeOK
    BY <2>2, <2>3, <2>4, <2>5, <2>6 DEF Checkouts!TypeOK
  <2> QED
    BY <2>7, CheckoutConstants DEF Checkouts!Init, PayInv
<1>2. LockInv /\ BackInv /\ PreviousInv /\ PaidInv
  BY DEF Checkouts!Init, LockInv, BackInv, PreviousInv, PaidInv, Checkouts!InTransaction, Checkouts!NoneOrphaned, Writing
<1> QED
  BY <1>1, <1>2 DEF CheckoutInv

LEMMA PayKeeps == ASSUME CheckoutInv, NEW s \in Subs, Checkouts!Pay(s) PROVE CheckoutInv'
<1> USE DEF CheckoutInv
<1>1. /\ stage[s] = "unpaid" /\ stage' = [stage EXCEPT ![s] = "sent"] /\ stripe' = [stripe EXCEPT ![s] = "paying"]
      /\ UNCHANGED <<tries, previous, found, userLock, linkLock, link, allocated, used, bucket, keys, provided,
                     mishaps, overlap, unheard>>
  BY DEF Checkouts!Pay, Checkouts!Goes, Checkouts!lockVars, Checkouts!orgVars
<1>2. Checkouts!TypeOK
  BY DEF PayInv
<1>3. /\ \A t \in Subs : t # s => stage'[t] = stage[t] /\ stripe'[t] = stripe[t]
      /\ stage'[s] = "sent" /\ stripe'[s] = "paying"
      /\ previous \in [Subs -> Subs \cup {None}] /\ link \in Subs \cup {None}
  BY <1>1, <1>2 DEF Checkouts!TypeOK
<1>4. PayInv'
  <2>1. Checkouts!TypeOK'
    BY <1>1, <1>2 DEF Checkouts!TypeOK
  <2>2. tries[s] < MaxTries
    BY <1>1, CheckoutConstants DEF PayInv
  <2> QED
    BY <1>1, <1>3, <2>1, <2>2 DEF PayInv
<1>5. LockInv' /\ BackInv'
  BY <1>1, <1>3 DEF LockInv, BackInv
<1>6. PreviousInv'
  BY <1>1, <1>3, CheckoutConstants DEF PreviousInv, Checkouts!InTransaction, Writing
<1>7. PaidInv'
  BY <1>1, <1>3, CheckoutConstants DEF PaidInv, Checkouts!NoneOrphaned
<1> QED
  BY <1>4, <1>5, <1>6, <1>7

LEMMA DeliverKeeps == ASSUME CheckoutInv, NEW s \in Subs, Checkouts!Deliver(s) PROVE CheckoutInv'
<1> USE DEF CheckoutInv
<1>1. /\ stage[s] = "sent" /\ stage' = [stage EXCEPT ![s] = "user"] /\ tries' = [tries EXCEPT ![s] = @ + 1]
      /\ UNCHANGED <<stripe, previous, found, userLock, linkLock, link, allocated, used, bucket, keys, provided,
                     mishaps, unheard>>
  BY DEF Checkouts!Deliver, Checkouts!Goes, Checkouts!lockVars, Checkouts!orgVars
<1> DEFINE others == {t \in Subs \ {s} : Checkouts!InTransaction(t)}
<1>2. overlap' = IF others = {} THEN overlap ELSE overlap \cup others \cup {s}
  BY DEF Checkouts!Deliver
<1>3. Checkouts!TypeOK
  BY DEF PayInv
<1>4. /\ \A t \in Subs : t # s => stage'[t] = stage[t] /\ tries'[t] = tries[t]
      /\ stage'[s] = "user" /\ tries'[s] = tries[s] + 1
      /\ previous \in [Subs -> Subs \cup {None}] /\ link \in Subs \cup {None} /\ tries[s] \in 0 .. MaxTries
      /\ overlap \subseteq overlap'
  BY <1>1, <1>2, <1>3 DEF Checkouts!TypeOK
<1>5. PayInv'
  <2>1. tries[s] + 1 \in 0 .. MaxTries
    BY <1>1, <1>4, CheckoutConstants DEF PayInv
  <2>2. tries' \in [Subs -> 0 .. MaxTries] /\ overlap' \subseteq Subs
    BY <1>1, <1>2, <1>3, <2>1 DEF Checkouts!TypeOK
  <2>3. Checkouts!TypeOK'
    BY <1>1, <1>3, <2>2 DEF Checkouts!TypeOK
  <2> QED
    BY <1>1, <1>4, <2>3 DEF PayInv
<1>6. LockInv' /\ BackInv'
  BY <1>1, <1>4 DEF LockInv, BackInv
<1>7. PreviousInv'
  <2>1. ASSUME NEW a \in Subs, NEW b \in Subs, a # b, Checkouts!InTransaction(a)', Checkouts!InTransaction(b)'
        PROVE  a \in overlap'
    <3>1. CASE a # s /\ b # s
      BY <1>4, <2>1, <3>1 DEF PreviousInv, Checkouts!InTransaction
    <3>2. CASE a = s
      <4>1. b \in others
        BY <1>4, <2>1, <3>2 DEF Checkouts!InTransaction
      <4> QED
        BY <1>2, <3>2, <4>1
    <3>3. CASE b = s
      <4>1. a \in others
        BY <1>4, <2>1, <3>3 DEF Checkouts!InTransaction
      <4> QED
        BY <1>2, <4>1
    <3> QED
      BY <3>1, <3>2, <3>3
  <2> HIDE DEF others
  <2> QED
    BY <1>1, <1>4, <2>1, CheckoutConstants DEF PreviousInv, Writing
<1>8. PaidInv'
  BY <1>1, <1>4, CheckoutConstants DEF PaidInv, Checkouts!NoneOrphaned
<1> QED
  BY <1>5, <1>6, <1>7, <1>8

\* A transaction goes on, or ends without effect; what the org has stays.
LEMMA StageMoves ==
  ASSUME CheckoutInv, NEW s \in Subs,
         NEW p \in {"previous", "bucket", "commit", "rollback", "sent", "gaveUp", "stuck"},
         Checkouts!InTransaction(s), stage' = [stage EXCEPT ![s] = p],
         UNCHANGED <<stripe, tries, previous, link, allocated, used, bucket, keys, provided, overlap, unheard>>,
         {userLock', linkLock'} \subseteq Subs \cup {None}, mishaps' \in 0 .. MaxMishaps,
         found' \in [Subs -> [bucket : BOOLEAN, key : BOOLEAN]], \A t \in Subs \ {s} : found'[t] = found[t],
         p = "sent" => tries[s] < MaxTries,
         p = "bucket" => stage[s] = "link",
         p = "commit" => stage[s] = "capacity" /\ (found'[s].key \/ keys = 0),
         p \in {"bucket", "commit"} => linkLock' = s,
         linkLock' # linkLock => linkLock' = s \/ linkLock = s, linkLock' = s => p \in {"bucket", "commit", "rollback", "previous"},
         linkLock' = s /\ linkLock # s => linkLock = None
  PROVE  CheckoutInv'
<1> USE DEF CheckoutInv
<1>1. Checkouts!TypeOK
  BY DEF PayInv
<1>2. /\ \A t \in Subs : t # s => stage'[t] = stage[t]
      /\ stage'[s] = p /\ stage[s] \notin {"unpaid", "acked", "sent"}
      /\ previous \in [Subs -> Subs \cup {None}] /\ link \in Subs \cup {None}
  BY <1>1 DEF Checkouts!TypeOK, Checkouts!InTransaction
<1>3. PayInv'
  <2>1. Checkouts!TypeOK'
    BY <1>1 DEF Checkouts!TypeOK
  <2> QED
    BY <1>2, <2>1 DEF PayInv
<1>4. LockInv'
  <2>1. \A t \in Subs : stage'[t] \in {"bucket", "capacity", "commit"} => linkLock' = t
    BY <1>2, CheckoutConstants DEF LockInv
  <2>2. \A t \in Subs : stage'[t] = "commit" => found'[t].key \/ keys = 0
    BY <1>2 DEF LockInv
  <2> QED
    BY <2>1, <2>2 DEF LockInv
<1>5. BackInv'
  BY <1>2 DEF BackInv
<1>6. PreviousInv'
  BY <1>2, CheckoutConstants DEF PreviousInv, Checkouts!InTransaction, Writing
<1>7. PaidInv'
  BY <1>2, CheckoutConstants DEF PaidInv, Checkouts!NoneOrphaned
<1> QED
  BY <1>3, <1>4, <1>5, <1>6, <1>7

LEMMA FindUserKeeps == ASSUME CheckoutInv, NEW s \in Subs, Checkouts!FindUser(s) PROVE CheckoutInv'
<1>1. /\ stage[s] = "user" /\ stage' = [stage EXCEPT ![s] = "previous"]
      /\ UNCHANGED <<stripe, tries, previous, found, linkLock, link, allocated, used, bucket, keys, provided,
                     mishaps, overlap, unheard>>
      /\ userLock' \in {s, None}
  BY DEF Checkouts!FindUser, Checkouts!Goes, Checkouts!orgVars
<1>2. /\ {userLock', linkLock'} \subseteq Subs \cup {None} /\ mishaps \in 0 .. MaxMishaps
      /\ found \in [Subs -> [bucket : BOOLEAN, key : BOOLEAN]]
  BY <1>1 DEF CheckoutInv, PayInv, Checkouts!TypeOK
<1> QED
  BY <1>1, <1>2, StageMoves DEF Checkouts!InTransaction

\* The link is read, and not locked.
LEMMA PreviousKeeps == ASSUME CheckoutInv, NEW s \in Subs, Checkouts!Previous(s) PROVE CheckoutInv'
<1> USE DEF CheckoutInv
<1>1. /\ stage[s] = "previous" /\ previous' = [previous EXCEPT ![s] = link]
      /\ UNCHANGED <<stripe, tries, found, userLock, linkLock, link, allocated, used, bucket, keys, provided,
                     mishaps, overlap, unheard>>
  BY DEF Checkouts!Previous, Checkouts!lockVars, Checkouts!orgVars
<1>2. PICK p \in {"link", "replace"} :
        stage' = [stage EXCEPT ![s] = p] /\ (p = "link" <=> link \in {None, s})
  BY DEF Checkouts!Previous, Checkouts!Goes
<1>3. Checkouts!TypeOK
  BY DEF PayInv
<1>4. /\ \A t \in Subs : t # s => stage'[t] = stage[t] /\ previous'[t] = previous[t]
      /\ stage'[s] = p /\ previous'[s] = link
      /\ previous \in [Subs -> Subs \cup {None}] /\ link \in Subs \cup {None}
  BY <1>1, <1>2, <1>3 DEF Checkouts!TypeOK
<1>5. link # None => stage[link] = "acked" /\ link # s
  BY <1>1 DEF PaidInv
<1>6. PayInv'
  <2>1. Checkouts!TypeOK'
    BY <1>1, <1>2, <1>3, <1>4 DEF Checkouts!TypeOK
  <2> QED
    BY <1>1, <1>4, <2>1 DEF PayInv
<1>7. LockInv' /\ BackInv'
  BY <1>1, <1>4 DEF LockInv, BackInv
<1>8. PreviousInv'
  <2>1. \A t \in Subs : stage'[t] \in Writing \cup {"replace"} => previous'[t] = link \/ link \in overlap
    BY <1>4 DEF PreviousInv
  <2>2. \A t \in Subs : stage'[t] = "replace" => previous'[t] # None
    BY <1>2, <1>4 DEF PreviousInv
  <2>3. \A t \in Subs : stage'[t] \in Writing /\ previous'[t] # None =>
                          stripe[previous'[t]] = "ending" \/ previous'[t] \in unheard
    BY <1>2, <1>4, <1>5 DEF PreviousInv, Writing
  <2>4. \A t \in Subs : previous'[t] # None => stage'[previous'[t]] = "acked"
    BY <1>1, <1>4, <1>5 DEF PreviousInv
  <2>5. \A a, b \in Subs : a # b /\ Checkouts!InTransaction(a)' /\ Checkouts!InTransaction(b)' => a \in overlap
    BY <1>1, <1>4 DEF PreviousInv, Checkouts!InTransaction
  <2> QED
    BY <1>1, <2>1, <2>2, <2>3, <2>4, <2>5 DEF PreviousInv
<1>9. PaidInv'
  <2>1. link # None => \/ stripe[link] = "paying"
                       \/ \E t \in Subs : previous'[t] = link /\ stage'[t] \notin {"unpaid", "acked"}
    BY <1>4 DEF PaidInv
  <2> QED
    BY <1>1, <1>4, <1>5, <2>1 DEF PaidInv, Checkouts!NoneOrphaned
<1> QED
  BY <1>6, <1>7, <1>8, <1>9

\* The old subscription ends, or Stripe does not hear of it.
LEMMA ReplaceKeeps == ASSUME CheckoutInv, NEW s \in Subs, Checkouts!Replace(s) PROVE CheckoutInv'
<1> USE DEF CheckoutInv
<1>1. /\ stage[s] = "replace" /\ stage' = [stage EXCEPT ![s] = "link"]
      /\ UNCHANGED <<tries, previous, found, userLock, linkLock, link, allocated, used, bucket, keys, provided, overlap>>
      /\ \/ stripe' = [stripe EXCEPT ![previous[s]] = "ending"] /\ UNCHANGED <<mishaps, unheard>>
         \/ /\ mishaps < MaxMishaps /\ mishaps' = mishaps + 1 /\ unheard' = unheard \cup {previous[s]}
            /\ UNCHANGED stripe
  BY DEF Checkouts!Replace, Checkouts!Goes, Checkouts!Fault, Checkouts!lockVars, Checkouts!orgVars
<1>2. Checkouts!TypeOK
  BY DEF PayInv
<1>3. /\ previous[s] \in Subs /\ stage[previous[s]] = "acked" /\ previous[s] # s
  BY <1>1, <1>2 DEF PreviousInv, Checkouts!TypeOK
<1>4. /\ \A t \in Subs : t # s => stage'[t] = stage[t]
      /\ \A t \in Subs : t # previous[s] => stripe'[t] = stripe[t]
      /\ \A t \in Subs : stripe'[t] = "paying" => stripe[t] = "paying"
      /\ \A t \in Subs : stripe[t] = "ending" => stripe'[t] = "ending"
      /\ stripe'[previous[s]] \in {"ending", stripe[previous[s]]} /\ unheard \subseteq unheard'
      /\ stripe'[previous[s]] = "ending" \/ previous[s] \in unheard'
      /\ stage'[s] = "link"
      /\ previous \in [Subs -> Subs \cup {None}] /\ link \in Subs \cup {None}
  BY <1>1, <1>2, <1>3 DEF Checkouts!TypeOK
<1>5. PayInv'
  <2>1. mishaps' \in 0 .. MaxMishaps /\ unheard' \subseteq Subs /\ stripe' \in [Subs -> {"none", "paying", "ending"}]
    BY <1>1, <1>2, <1>3, CheckoutConstants DEF Checkouts!TypeOK
  <2>2. Checkouts!TypeOK'
    BY <1>1, <1>2, <2>1 DEF Checkouts!TypeOK
  <2> QED
    BY <1>1, <1>3, <1>4, <2>2 DEF PayInv
<1>6. LockInv' /\ BackInv'
  BY <1>1, <1>4 DEF LockInv, BackInv
<1>7. PreviousInv'
  <2>1. \A a, b \in Subs : a # b /\ Checkouts!InTransaction(a)' /\ Checkouts!InTransaction(b)' => a \in overlap
    BY <1>1, <1>4 DEF PreviousInv, Checkouts!InTransaction
  <2>2. \A t \in Subs : previous[t] # None => stage'[previous[t]] = "acked"
    BY <1>1, <1>4 DEF PreviousInv
  <2>3. \A t \in Subs : stage'[t] \in Writing /\ previous[t] # None =>
                          stripe'[previous[t]] = "ending" \/ previous[t] \in unheard'
    BY <1>4 DEF PreviousInv
  <2>4. \A t \in Subs : stage'[t] \in Writing \cup {"replace"} => previous[t] = link \/ link \in overlap
    BY <1>1, <1>4 DEF PreviousInv
  <2> QED
    BY <1>1, <1>4, <2>1, <2>2, <2>3, <2>4 DEF PreviousInv
<1>8. PaidInv'
  <2>1. link # None => \/ stripe'[link] = "paying"
                       \/ \E t \in Subs : previous[t] = link /\ stage'[t] \notin {"unpaid", "acked"}
    BY <1>1, <1>3, <1>4 DEF PaidInv
  <2>2. link # None => stage'[link] = "acked"
    BY <1>1, <1>4 DEF PaidInv
  <2>3. Checkouts!NoneOrphaned'
    BY <1>1, <1>4 DEF PaidInv, Checkouts!NoneOrphaned
  <2> QED
    BY <1>1, <2>1, <2>2, <2>3 DEF PaidInv
<1> QED
  BY <1>5, <1>6, <1>7, <1>8

LEMMA LinkKeeps == ASSUME CheckoutInv, NEW s \in Subs, Checkouts!Link(s) PROVE CheckoutInv'
<1>1. /\ stage[s] = "link" /\ stage' = [stage EXCEPT ![s] = "bucket"] /\ linkLock = None /\ linkLock' = s
      /\ UNCHANGED <<stripe, tries, previous, found, userLock, link, allocated, used, bucket, keys, provided,
                     mishaps, overlap, unheard>>
  BY DEF Checkouts!Link, Checkouts!Goes, Checkouts!orgVars
<1>2. /\ {userLock', linkLock'} \subseteq Subs \cup {None} /\ mishaps \in 0 .. MaxMishaps
      /\ found \in [Subs -> [bucket : BOOLEAN, key : BOOLEAN]]
  BY <1>1 DEF CheckoutInv, PayInv, Checkouts!TypeOK
<1> QED
  BY <1>1, <1>2, StageMoves DEF Checkouts!InTransaction

\* The storage has the bucket before the row says so.
LEMMA BucketKeeps == ASSUME CheckoutInv, NEW s \in Subs, Checkouts!Bucket(s) PROVE CheckoutInv'
<1> USE DEF CheckoutInv
<1>1. /\ stage[s] = "bucket" /\ stage' = [stage EXCEPT ![s] = "capacity"]
      /\ found' = [found EXCEPT ![s].bucket = (bucket = "live")]
      /\ \/ bucket = "live" /\ provided' = provided
         \/ bucket # "live" /\ provided' = TRUE
      /\ UNCHANGED <<stripe, tries, previous, userLock, linkLock, link, allocated, used, bucket, keys,
                     mishaps, overlap, unheard>>
  BY DEF Checkouts!Bucket, Checkouts!Goes, Checkouts!lockVars, Checkouts!orgVars
<1>2. Checkouts!TypeOK
  BY DEF PayInv
<1>3. /\ \A t \in Subs : t # s => stage'[t] = stage[t] /\ found'[t] = found[t]
      /\ stage'[s] = "capacity" /\ previous \in [Subs -> Subs \cup {None}] /\ link \in Subs \cup {None}
  BY <1>1, <1>2 DEF Checkouts!TypeOK
<1>4. provided'
  BY <1>1 DEF BackInv
<1>5. PayInv'
  <2>1. found' \in [Subs -> [bucket : BOOLEAN, key : BOOLEAN]]
    <3>1. PICK k \in BOOLEAN : found' = [found EXCEPT ![s].bucket = k]
      BY <1>1
    <3> QED
      BY <1>2, <3>1 DEF Checkouts!TypeOK
  <2>2. provided' \in BOOLEAN
    BY <1>1, <1>2 DEF Checkouts!TypeOK
  <2>3. Checkouts!TypeOK'
    BY <1>1, <1>2, <2>1, <2>2 DEF Checkouts!TypeOK
  <2> QED
    BY <1>1, <1>3, <2>3 DEF PayInv
<1>6. LockInv'
  BY <1>1, <1>3 DEF LockInv
<1>7. BackInv'
  BY <1>1, <1>3, <1>4 DEF BackInv
<1>8. PreviousInv'
  BY <1>1, <1>3, CheckoutConstants DEF PreviousInv, Checkouts!InTransaction, Writing
<1>9. PaidInv'
  BY <1>1, <1>3, CheckoutConstants DEF PaidInv, Checkouts!NoneOrphaned
<1> QED
  BY <1>5, <1>6, <1>7, <1>8, <1>9

LEMMA CapacityKeeps == ASSUME CheckoutInv, NEW s \in Subs, Checkouts!Capacity(s) PROVE CheckoutInv'
<1>1. PICK p \in {"commit", "rollback"} : stage' = [stage EXCEPT ![s] = p]
  BY DEF Checkouts!Capacity, Checkouts!Goes
<1>2. /\ stage[s] = "capacity" /\ found' = [found EXCEPT ![s].key = keys > 0]
      /\ UNCHANGED <<stripe, tries, previous, userLock, linkLock, link, allocated, used, bucket, keys, provided,
                     mishaps, overlap, unheard>>
  BY DEF Checkouts!Capacity, Checkouts!lockVars, Checkouts!orgVars
<1>3. /\ {userLock, linkLock} \subseteq Subs \cup {None} /\ mishaps \in 0 .. MaxMishaps /\ keys \in Nat
      /\ found \in [Subs -> [bucket : BOOLEAN, key : BOOLEAN]] /\ linkLock = s
  BY <1>2 DEF CheckoutInv, PayInv, LockInv, Checkouts!TypeOK
<1>4. /\ found' \in [Subs -> [bucket : BOOLEAN, key : BOOLEAN]] /\ \A t \in Subs \ {s} : found'[t] = found[t]
      /\ found'[s].key = (keys > 0)
  <2>1. CASE keys > 0
    <3>1. found' = [found EXCEPT ![s].key = TRUE]
      BY <1>2, <2>1
    <3> QED
      BY <1>3, <2>1, <3>1
  <2>2. CASE keys = 0
    <3>1. (keys > 0) = FALSE
      BY <2>2
    <3>2. found' = [found EXCEPT ![s].key = FALSE]
      BY <1>2, <3>1, Zenon
    <3>3. /\ found' \in [Subs -> [bucket : BOOLEAN, key : BOOLEAN]] /\ \A t \in Subs \ {s} : found'[t] = found[t]
          /\ found'[s].key = FALSE
      BY <1>3, <3>2
    <3> QED
      BY <3>1, <3>3, Zenon
  <2> QED
    BY <1>3, <2>1, <2>2
<1>5. found'[s].key \/ keys = 0
  BY <1>3, <1>4
<1> QED
  BY <1>1, <1>2, <1>3, <1>4, <1>5, StageMoves DEF Checkouts!InTransaction

LEMMA EndsKeep ==
  ASSUME CheckoutInv, NEW s \in Subs, Checkouts!Rollback(s) \/ Checkouts!Throws(s) \/ Checkouts!Dies(s)
  PROVE  CheckoutInv'
<1>1. Checkouts!InTransaction(s)
  BY DEF Checkouts!Rollback, Checkouts!Throws, Checkouts!Dies, Checkouts!InTransaction
<1>2. UNCHANGED <<stripe, tries, previous, link, allocated, used, bucket, keys, provided, overlap, unheard>>
  BY DEF Checkouts!Rollback, Checkouts!Throws, Checkouts!Dies, Checkouts!orgVars
<1>3. /\ {userLock, linkLock} \subseteq Subs \cup {None} /\ mishaps \in 0 .. MaxMishaps
      /\ found \in [Subs -> [bucket : BOOLEAN, key : BOOLEAN]]
  BY DEF CheckoutInv, PayInv, Checkouts!TypeOK
<1>4. mishaps' \in 0 .. MaxMishaps
  BY <1>3, CheckoutConstants DEF Checkouts!Rollback, Checkouts!Throws, Checkouts!Dies, Checkouts!Fault
<1>5. CASE Checkouts!Throws(s)
  <2>1. stage' = [stage EXCEPT ![s] = "rollback"] /\ UNCHANGED <<found, userLock, linkLock>>
    BY <1>5 DEF Checkouts!Throws, Checkouts!Goes, Checkouts!lockVars
  <2> QED
    BY <1>1, <1>2, <1>3, <1>4, <2>1, StageMoves
<1>6. CASE Checkouts!Rollback(s) \/ Checkouts!Dies(s)
  <2>1. PICK p \in {"sent", "gaveUp", "stuck"} :
          stage' = [stage EXCEPT ![s] = p] /\ (p = "sent" => tries[s] < MaxTries)
    BY <1>6 DEF Checkouts!Rollback, Checkouts!Dies, Checkouts!Goes
  <2>2. /\ userLock' = (IF userLock = s THEN None ELSE userLock)
        /\ linkLock' = (IF linkLock = s THEN None ELSE linkLock)
        /\ found' = [found EXCEPT ![s] = Checkouts!Nothing]
    BY <1>6 DEF Checkouts!Rollback, Checkouts!Dies, Checkouts!Release
  <2>3. Checkouts!Nothing \in [bucket : BOOLEAN, key : BOOLEAN]
    BY DEF Checkouts!Nothing
  <2>4. /\ found' \in [Subs -> [bucket : BOOLEAN, key : BOOLEAN]] /\ \A t \in Subs \ {s} : found'[t] = found[t]
    BY <1>3, <2>2, <2>3
  <2>5. /\ {userLock', linkLock'} \subseteq Subs \cup {None} /\ linkLock' # s
        /\ linkLock' # linkLock => linkLock = s
    BY <1>3, <2>2, CheckoutConstants
  <2> QED
    BY <1>1, <1>2, <1>4, <2>1, <2>4, <2>5, StageMoves
<1> QED
  BY <1>5, <1>6

\* The commit links the subscription; the one it replaces has ended, unless
\* Stripe did not hear of it or another checkout linked it meanwhile.
LEMMA CommitKeeps == ASSUME CheckoutInv, NEW s \in Subs, Checkouts!Commit(s) PROVE CheckoutInv'
<1> USE DEF CheckoutInv
<1>1. /\ stage[s] = "commit" /\ stage' = [stage EXCEPT ![s] = "acked"] /\ link' = s /\ allocated' = Checkouts!JoinedGb(s)
      /\ bucket' = (IF bucket = "none" THEN "live" ELSE bucket)
      /\ keys' = (IF found[s].key THEN keys ELSE keys + 1)
      /\ userLock' = (IF userLock = s THEN None ELSE userLock) /\ linkLock' = (IF linkLock = s THEN None ELSE linkLock)
      /\ found' = [found EXCEPT ![s] = Checkouts!Nothing]
      /\ UNCHANGED <<stripe, tries, previous, used, provided, mishaps, overlap, unheard>>
  BY DEF Checkouts!Commit, Checkouts!Goes, Checkouts!Release
<1>2. Checkouts!TypeOK
  BY DEF PayInv
<1>3. /\ \A t \in Subs : t # s => stage'[t] = stage[t]
      /\ stage'[s] = "acked" /\ stripe[s] = "paying"
      /\ previous \in [Subs -> Subs \cup {None}] /\ link \in Subs \cup {None} /\ keys \in Nat
  BY <1>1, <1>2 DEF PayInv, Checkouts!TypeOK
<1>4. \A t \in Subs : t # s => stage[t] \notin {"bucket", "capacity", "commit"}
  BY <1>1 DEF LockInv
<1>5. keys' \in Nat /\ keys' <= 1
  BY <1>1, <1>3 DEF LockInv
<1>6. PayInv'
  <2>1. Checkouts!Nothing \in [bucket : BOOLEAN, key : BOOLEAN]
    BY DEF Checkouts!Nothing
  <2>2. found' \in [Subs -> [bucket : BOOLEAN, key : BOOLEAN]]
    BY <1>1, <1>2, <2>1 DEF Checkouts!TypeOK
  <2>3. {userLock', linkLock', link'} \subseteq Subs \cup {None} /\ bucket' \in {"none", "live", "deleted"}
    BY <1>1, <1>2 DEF Checkouts!TypeOK
  <2>4. {allocated', used', keys'} \subseteq Nat
    BY <1>1, <1>2, <1>5, CheckoutConstants DEF Checkouts!TypeOK
  <2>5. Checkouts!TypeOK'
    BY <1>1, <1>2, <2>2, <2>3, <2>4 DEF Checkouts!TypeOK
  <2> QED
    BY <1>1, <1>3, <2>5 DEF PayInv
<1>7. LockInv'
  BY <1>1, <1>3, <1>4, <1>5 DEF LockInv
<1>8. BackInv'
  <2>1. bucket' = "live" => provided'
    BY <1>1 DEF BackInv
  <2>2. \A t \in Subs : stage'[t] \in {"capacity", "commit"} => provided' \/ bucket' = "deleted"
    BY <1>3, <1>4
  <2>3. bucket' = "none" <=> link' = None
    BY <1>1, CheckoutConstants
  <2>4. link' # None
    BY <1>1, CheckoutConstants
  <2> QED
    BY <2>1, <2>2, <2>3, <2>4 DEF BackInv
<1>9. PreviousInv'
  <2>1. \A a, b \in Subs : a # b /\ Checkouts!InTransaction(a)' /\ Checkouts!InTransaction(b)' => a \in overlap'
    BY <1>1, <1>3 DEF PreviousInv, Checkouts!InTransaction
  <2>2. \A t \in Subs : stage'[t] \in Writing \cup {"replace"} => previous'[t] = link' \/ link' \in overlap'
    <3> SUFFICES ASSUME NEW t \in Subs, stage'[t] \in Writing \cup {"replace"} PROVE s \in overlap
      BY <1>1
    <3>1. t # s
      BY <1>3 DEF Writing
    <3>2. Checkouts!InTransaction(t) /\ Checkouts!InTransaction(s)
      BY <1>1, <1>3, <3>1 DEF Checkouts!InTransaction, Writing
    <3> QED
      BY <3>1, <3>2 DEF PreviousInv
  <2>3. \A t \in Subs : stage'[t] = "replace" => previous'[t] # None
    BY <1>1, <1>3 DEF PreviousInv
  <2>4. \A t \in Subs : stage'[t] \in Writing /\ previous'[t] # None =>
                          stripe'[previous'[t]] = "ending" \/ previous'[t] \in unheard'
    BY <1>1, <1>3 DEF PreviousInv, Writing
  <2>5. \A t \in Subs : previous'[t] # None => stage'[previous'[t]] = "acked"
    BY <1>1, <1>3 DEF PreviousInv
  <2> QED
    BY <2>1, <2>2, <2>3, <2>4, <2>5 DEF PreviousInv
<1>10. PaidInv'
  <2>1. ASSUME NEW t \in Subs, stage'[t] = "acked", stripe'[t] = "paying", t # s PROVE t \in overlap \cup unheard
    <3>1. CASE t # link
      BY <1>1, <1>3, <2>1, <3>1 DEF PaidInv, Checkouts!NoneOrphaned
    <3>2. CASE t = link
      <4>1. previous[s] = t \/ t \in overlap
        BY <1>1, <3>2 DEF PreviousInv, Writing
      <4>2. previous[s] = t => stripe[t] = "ending" \/ t \in unheard
        BY <1>1, CheckoutConstants DEF PreviousInv, Writing
      <4> QED
        BY <1>1, <2>1, <4>1, <4>2
    <3> QED
      BY <3>1, <3>2
  <2>2. Checkouts!NoneOrphaned'
    BY <1>1, <2>1 DEF Checkouts!NoneOrphaned
  <2> QED
    BY <1>1, <1>3, <2>2 DEF PaidInv
<1> QED
  BY <1>6, <1>7, <1>8, <1>9, <1>10

\* What the org does meanwhile.
LEMMA OrgKeeps ==
  ASSUME CheckoutInv,
         (\E n \in Usages : Checkouts!Store(n)) \/ Checkouts!DeleteBucket \/ Checkouts!DropStorage \/ Checkouts!RevokeKey
  PROVE  CheckoutInv'
<1> USE DEF CheckoutInv
<1>1. /\ UNCHANGED <<stripe, stage, tries, previous, found, userLock, linkLock, link, allocated, mishaps, overlap, unheard>>
      /\ used' \in Usages \cup {used}
      /\ \/ bucket' = bucket
         \/ bucket = "live" /\ bucket' = "deleted"
      /\ \/ provided' = provided
         \/ bucket = "deleted" /\ bucket' = "deleted" /\ provided' = FALSE
      /\ \/ keys' = keys
         \/ keys > 0 /\ keys' = keys - 1
  BY DEF Checkouts!Store, Checkouts!DeleteBucket, Checkouts!DropStorage, Checkouts!RevokeKey, Checkouts!eventVars,
         Checkouts!lockVars, Checkouts!orgVars
<1>2. Checkouts!TypeOK
  BY DEF PayInv
<1>3. used' \in Nat /\ keys' \in Nat /\ keys' <= keys /\ keys \in Nat
  BY <1>1, <1>2, CheckoutConstants DEF Checkouts!TypeOK
<1>4. Checkouts!TypeOK'
  <2>1. {userLock', linkLock', link'} \subseteq Subs \cup {None} /\ {allocated', used', keys'} \subseteq Nat
    BY <1>1, <1>2, <1>3 DEF Checkouts!TypeOK
  <2>2. bucket' \in {"none", "live", "deleted"} /\ provided' \in BOOLEAN
    BY <1>1, <1>2 DEF Checkouts!TypeOK
  <2> QED
    BY <1>1, <1>2, <2>1, <2>2 DEF Checkouts!TypeOK
<1>5. PayInv'
  BY <1>1, <1>4 DEF PayInv
<1>6. LockInv'
  BY <1>1, <1>3 DEF LockInv
<1>7. BackInv'
  BY <1>1 DEF BackInv
<1>8. PreviousInv' /\ PaidInv'
  BY <1>1 DEF PreviousInv, PaidInv, Checkouts!InTransaction, Checkouts!NoneOrphaned
<1> QED
  BY <1>5, <1>6, <1>7, <1>8

LEMMA CheckoutsKeep == ASSUME CheckoutInv, Checkouts!Next PROVE CheckoutInv'
BY PayKeeps, DeliverKeeps, FindUserKeeps, PreviousKeeps, ReplaceKeeps, LinkKeeps, BucketKeeps, CapacityKeeps, CommitKeeps,
   EndsKeep, OrgKeeps DEF Checkouts!Next, Checkouts!Handle

LEMMA CheckoutsAreSound ==
  CheckoutInv => /\ Checkouts!TypeOK /\ Checkouts!NoneOrphaned /\ Checkouts!LinkedIsPaid
                 /\ Checkouts!CapacityIsBacked /\ Checkouts!OneDefaultKey
<1> SUFFICES ASSUME CheckoutInv
             PROVE  /\ Checkouts!TypeOK /\ Checkouts!NoneOrphaned /\ Checkouts!LinkedIsPaid
                    /\ Checkouts!CapacityIsBacked /\ Checkouts!OneDefaultKey
  OBVIOUS
<1> USE DEF CheckoutInv
<1>1. Checkouts!LinkedIsPaid
  BY DEF PaidInv, Checkouts!LinkedIsPaid
<1>2. Checkouts!CapacityIsBacked
  BY DEF PayInv, BackInv, Checkouts!TypeOK, Checkouts!CapacityIsBacked
<1> QED
  BY <1>1, <1>2 DEF PayInv, LockInv, BackInv, PaidInv, Checkouts!OneDefaultKey

LEMMA CheckoutRests == CheckoutInv /\ UNCHANGED checkoutVars => CheckoutInv'
BY DEF checkoutVars, CheckoutInv, PayInv, LockInv, BackInv, PreviousInv, PaidInv, Checkouts!TypeOK,
       Checkouts!InTransaction, Checkouts!NoneOrphaned

-----------------------------------------------------------------------------
(* The buckets of an org *)

Steps == {"unsent", "name", "insert", "make", "undo", "made", "kept", "refused", "counted", "drain", "drop", "answered",
          "put", "stored", "head", "confirmed", "failed"}


\* A bucket of this name was used before its create was answered.
UsedUp(c) == \E d \in early : NameOf[d] = NameOf[c]

\* The rows are those of the requests that inserted one and did not undo it;
\* no two share a place on the storage.
RowInv ==
  /\ step \in [Creates \cup Deletes \cup Uploads -> Steps]
  /\ \A c \in Creates : /\ row[c] # "none" <=> step[c] = "made" \/ (Door[c] = "api" /\ step[c] \in {"make", "undo", "kept"})
                        /\ Door[c] = "mcp" => step[c] \notin {"name", "undo", "kept"}
                        /\ place[c][1] = NameOf[c]
  /\ \A b, c \in Creates : b # c /\ row[b] # "none" /\ row[c] # "none" => place[b] # place[c]

\* What is deleted or uploaded to is there for good, or was used too early.
UsedInv ==
  /\ \A d \in Deletes : step[d] \in {"drain", "drop"} =>
       (row[target[d]] = "deleted" /\ step[target[d]] = "made") \/ target[d] \in early
  /\ \A u \in Uploads : step[u] # "unsent" =>
       /\ step[target[u]] = "made" \/ target[u] \in early
       /\ step[target[u]] \in {"make", "undo", "made", "kept", "refused"}
       /\ step[target[u]] = "make" => Door[target[u]] = "api"

\* A bucket that is made has its storage; one the MCP door is about to insert
\* has it too, or its insert will be refused.
KeptInv ==
  \A c \in Creates :
    /\ step[c] = "made" /\ row[c] = "live" => place[c] \in storage \/ UsedUp(c)
    /\ Door[c] = "mcp" /\ step[c] = "insert" =>
         \/ place[c] \in storage \/ UsedUp(c)
         \/ \E b \in Creates : row[b] = "deleted" /\ step[b] = "made" /\ place[b] = place[c]

\* Bytes and objects are where their upload was sent; a bucket with objects is
\* live, or they were confirmed during its deletion.
FilledInv ==
  /\ \A o \in bytes : step[o[2]] # "unsent" /\ o[1] = place[target[o[2]]]
  /\ \A o \in objects : o[1] = target[o[2]] /\ (row[o[1]] = "live" \/ o[2] \in raced)
  /\ \A u \in Uploads : step[u] = "head" => row[target[u]] \in {"live", "none"} \/ u \in raced

StoresInv == Stores!TypeOK /\ RowInv /\ UsedInv /\ KeptInv /\ FilledInv

LEMMA BucketConstants ==
  /\ \A c \in Creates : Door[c] \in {"api", "mcp"} /\ NameOf[c] \in Stores!Names
  /\ IsFiniteSet(Creates) /\ MaxFaults \in Nat
  /\ Creates \cap Deletes = {} /\ Creates \cap Uploads = {} /\ Deletes \cap Uploads = {}
<1>1. \A S : Stores!IsFiniteSet(S) = IsFiniteSet(S)
  BY DEF Stores!IsFiniteSet, IsFiniteSet
<1> QED
  BY <1>1, TenancyAssumption DEF Stores!BucketsAssumption, Stores!Names

LEMMA InitStores == Stores!Init => StoresInv
<1> SUFFICES ASSUME Stores!Init PROVE StoresInv
  OBVIOUS
<1>1. \A c \in Creates : place[c] = <<NameOf[c], 0>>
  BY DEF Stores!Init, Stores!Base
<1>2. place \in [Creates -> Stores!Names \X Nat]
  BY BucketConstants DEF Stores!Init, Stores!Base
<1>3. Stores!TypeOK
  BY <1>2, BucketConstants DEF Stores!Init, Stores!TypeOK
<1>4. RowInv
  BY <1>1, BucketConstants DEF Stores!Init, RowInv, Steps
<1>5. UsedInv /\ KeptInv /\ FilledInv
  BY BucketConstants DEF Stores!Init, UsedInv, KeptInv, FilledInv
<1> QED
  BY <1>3, <1>4, <1>5 DEF StoresInv

\* A create takes a step that changes no row.
LEMMA LookKeeps == ASSUME StoresInv, NEW c \in Creates, Stores!Look(c) PROVE StoresInv'
<1> USE DEF StoresInv
<1>1. PICK p \in {"refused", "name", "make"} :
        /\ step' = [step EXCEPT ![c] = p]
        /\ p = "name" => Door[c] = "api"
        /\ p = "make" => Door[c] = "mcp"
  BY BucketConstants DEF Stores!Look, Stores!Goes
<1>2. step[c] = "unsent" /\ UNCHANGED <<row, place, target, storage, bytes, objects, faults, raced, early>>
  BY DEF Stores!Look
<1>3. /\ step' \in [Creates \cup Deletes \cup Uploads -> Steps] /\ step'[c] = p
      /\ \A r \in Creates \cup Deletes \cup Uploads : r # c => step'[r] = step[r]
  BY <1>1 DEF RowInv, Steps
<1>4. Stores!TypeOK'
  BY <1>2, <1>3, BucketConstants DEF Stores!TypeOK
<1>5. RowInv'
  BY <1>1, <1>2, <1>3, BucketConstants DEF RowInv
<1>6. UsedInv'
  BY <1>2, <1>3, BucketConstants DEF UsedInv, Stores!TypeOK
<1>7. KeptInv'
  BY <1>1, <1>2, <1>3, BucketConstants DEF KeptInv, UsedUp
<1>8. FilledInv'
  BY <1>2, <1>3, BucketConstants DEF FilledInv, Stores!TypeOK
<1> QED
  BY <1>4, <1>5, <1>6, <1>7, <1>8

\* The API chooses a place before there is a row.
LEMMA NameKeeps == ASSUME StoresInv, NEW c \in Creates, Stores!Name(c) PROVE StoresInv'
<1> USE DEF StoresInv
<1>1. /\ step[c] = "name" /\ step' = [step EXCEPT ![c] = "insert"]
      /\ UNCHANGED <<row, target, storage, bytes, objects, faults, raced, early>>
  BY DEF Stores!Name, Stores!Goes
<1> DEFINE nonces == {d \in Creates : place[d][1] = NameOf[c] /\ place[d][2] > 0}
<1>2. Stores!Cardinality(nonces) \in Nat
  <2>1. Stores!Cardinality(nonces) = Cardinality(nonces)
    BY DEF Stores!Cardinality, Cardinality
  <2>2. nonces \subseteq Creates
    OBVIOUS
  <2>3. IsFiniteSet(nonces)
    BY <2>2, BucketConstants, FS_Subset
  <2> HIDE DEF nonces
  <2> QED
    BY <2>1, <2>3, FS_CardinalityType
<1>3. PICK n \in Nat : place' = [place EXCEPT ![c] = <<NameOf[c], n>>]
  <2>1. 1 + Stores!Cardinality(nonces) \in Nat
    BY <1>2
  <2>2. \/ place' = [place EXCEPT ![c] = <<NameOf[c], 0>>]
        \/ place' = [place EXCEPT ![c] = <<NameOf[c], 1 + Stores!Cardinality(nonces)>>]
    BY DEF Stores!Name, Stores!Base
  <2> HIDE DEF nonces
  <2> QED
    BY <2>1, <2>2
<1>4. /\ step' \in [Creates \cup Deletes \cup Uploads -> Steps] /\ step'[c] = "insert"
      /\ \A r \in Creates \cup Deletes \cup Uploads : r # c => step'[r] = step[r]
  BY <1>1 DEF RowInv, Steps
<1>5. /\ place' \in [Creates -> Stores!Names \X Nat] /\ place'[c][1] = NameOf[c]
      /\ \A b \in Creates : b # c => place'[b] = place[b]
  BY <1>3, BucketConstants DEF Stores!TypeOK
<1>6. Door[c] = "api" /\ row[c] = "none"
  BY <1>1, BucketConstants DEF RowInv
<1>7. Stores!TypeOK'
  BY <1>1, <1>4, <1>5, BucketConstants DEF Stores!TypeOK
<1>8. RowInv'
  BY <1>1, <1>4, <1>5, <1>6 DEF RowInv
<1>9. UsedInv'
  BY <1>1, <1>4, BucketConstants DEF UsedInv, Stores!TypeOK
<1>10. KeptInv'
  <2> SUFFICES ASSUME NEW b \in Creates
               PROVE  /\ step'[b] = "made" /\ row'[b] = "live" => place'[b] \in storage' \/ UsedUp(b)'
                      /\ Door[b] = "mcp" /\ step'[b] = "insert" =>
                           \/ place'[b] \in storage' \/ UsedUp(b)'
                           \/ \E d \in Creates : row'[d] = "deleted" /\ step'[d] = "made" /\ place'[d] = place'[b]
    BY DEF KeptInv
  <2>1. UsedUp(b)' <=> UsedUp(b)
    BY <1>1 DEF UsedUp
  <2>2. CASE b = c
    BY <1>4, <1>6, <2>2
  <2>3. CASE b # c
    BY <1>1, <1>4, <1>5, <1>6, <2>1, <2>3 DEF KeptInv
  <2> QED
    BY <2>2, <2>3
<1>11. FilledInv'
  <2>1. \A o \in bytes : step[o[2]] # "unsent" => o[2] \in Uploads /\ target[o[2]] # c /\ target[o[2]] \in Creates
    BY <1>1 DEF UsedInv, Stores!TypeOK
  <2> QED
    BY <1>1, <1>4, <1>5, <2>1, BucketConstants DEF FilledInv, Stores!TypeOK
<1> QED
  BY <1>7, <1>8, <1>9, <1>10, <1>11

LEMMA InsertKeeps == ASSUME StoresInv, NEW c \in Creates, Stores!Insert(c) PROVE StoresInv'
<1> USE DEF StoresInv
<1>1. step[c] = "insert" /\ UNCHANGED <<place, target, storage, bytes, objects, faults, raced, early>>
  BY DEF Stores!Insert
<1>2. \/ Stores!Clash(c) /\ step' = [step EXCEPT ![c] = "refused"] /\ row' = row
      \/ /\ ~Stores!Clash(c) /\ row' = [row EXCEPT ![c] = "live"]
         /\ step' = [step EXCEPT ![c] = IF Door[c] = "api" THEN "make" ELSE "made"]
  BY DEF Stores!Insert, Stores!Goes
<1>3. row[c] = "none" /\ row \in [Creates -> {"none", "live", "deleted"}]
  BY <1>1, BucketConstants DEF RowInv, Stores!TypeOK
<1>4. PICK p \in {"refused", "make", "made"} :
        /\ step' = [step EXCEPT ![c] = p]
        /\ p = "refused" => row' = row
        /\ p # "refused" => ~Stores!Clash(c) /\ row' = [row EXCEPT ![c] = "live"]
        /\ p = "make" <=> (p # "refused" /\ Door[c] = "api")
  BY <1>2, BucketConstants
<1>5. /\ step' \in [Creates \cup Deletes \cup Uploads -> Steps] /\ step'[c] = p
      /\ \A r \in Creates \cup Deletes \cup Uploads : r # c => step'[r] = step[r]
  BY <1>4 DEF RowInv, Steps
<1>6. /\ row' \in [Creates -> {"none", "live", "deleted"}]
      /\ \A b \in Creates : b # c => row'[b] = row[b]
      /\ row'[c] = IF p = "refused" THEN "none" ELSE "live"
  BY <1>3, <1>4
<1>7. p # "refused" => \A b \in Creates : row[b] # "none" => place[b] # place[c]
  BY <1>3, <1>4 DEF Stores!Clash, Stores!Rows
<1>8. Stores!TypeOK'
  BY <1>1, <1>5, <1>6, BucketConstants DEF Stores!TypeOK
<1>9. RowInv'
  <2>1. \A a, b \in Creates : a # b /\ row'[a] # "none" /\ row'[b] # "none" => place[a] # place[b]
    BY <1>6, <1>7 DEF RowInv
  <2>2. \A b \in Creates : /\ row'[b] # "none" <=> step'[b] = "made" \/ (Door[b] = "api" /\ step'[b] \in {"make", "undo", "kept"})
                           /\ Door[b] = "mcp" => step'[b] \notin {"name", "undo", "kept"}
    BY <1>4, <1>5, <1>6, BucketConstants DEF RowInv
  <2> QED
    BY <1>1, <1>5, <2>1, <2>2 DEF RowInv
<1>10. UsedInv'
  BY <1>1, <1>3, <1>5, <1>6, BucketConstants DEF UsedInv, Stores!TypeOK
<1>11. KeptInv'
  <2> SUFFICES ASSUME NEW b \in Creates
               PROVE  /\ step'[b] = "made" /\ row'[b] = "live" => place[b] \in storage \/ UsedUp(b)
                      /\ Door[b] = "mcp" /\ step'[b] = "insert" =>
                           \/ place[b] \in storage \/ UsedUp(b)
                           \/ \E d \in Creates : row'[d] = "deleted" /\ step'[d] = "made" /\ place[d] = place[b]
    BY <1>1 DEF KeptInv, UsedUp
  <2>1. CASE b = c
    <3>1. step'[b] # "insert"
      BY <1>5, <2>1
    <3>2. step'[b] = "made" => Door[c] = "mcp" /\ p = "made"
      BY <1>4, <1>5, <2>1, BucketConstants
    <3> QED
      BY <1>1, <1>7, <2>1, <3>1, <3>2 DEF KeptInv
  <2>2. CASE b # c
    BY <1>1, <1>3, <1>5, <1>6, <2>2 DEF KeptInv
  <2> QED
    BY <2>1, <2>2
<1>12. FilledInv'
  BY <1>1, <1>3, <1>5, <1>6, BucketConstants DEF FilledInv, UsedInv, Stores!TypeOK
<1> QED
  BY <1>8, <1>9, <1>10, <1>11, <1>12

LEMMA MakeKeeps == ASSUME StoresInv, NEW c \in Creates, Stores!Make(c) PROVE StoresInv'
<1> USE DEF StoresInv
<1>1. step[c] = "make" /\ UNCHANGED <<row, place, target, bytes, objects, raced, early>>
  BY DEF Stores!Make
<1>2. PICK p \in {"made", "insert", "undo", "refused"} :
        /\ step' = [step EXCEPT ![c] = p]
        /\ p \in {"made", "undo"} <=> Door[c] = "api"
        /\ p \in {"made", "insert"} => storage' = storage \cup {place[c]} /\ faults' = faults
        /\ p \notin {"made", "insert"} => storage' = storage /\ faults < MaxFaults /\ faults' = faults + 1
  BY BucketConstants DEF Stores!Make, Stores!Goes, Stores!Fault
<1>3. /\ step' \in [Creates \cup Deletes \cup Uploads -> Steps] /\ step'[c] = p
      /\ \A r \in Creates \cup Deletes \cup Uploads : r # c => step'[r] = step[r]
  BY <1>2 DEF RowInv, Steps
<1>4. storage \subseteq storage' /\ (p \in {"made", "insert"} => place[c] \in storage')
  BY <1>2
<1>5. Stores!TypeOK'
  <2>1. storage' \subseteq Stores!Names \X Nat /\ bytes' \subseteq storage' \X Uploads
    BY <1>1, <1>2 DEF Stores!TypeOK
  <2>2. faults' \in 0 .. MaxFaults
    BY <1>2, BucketConstants DEF Stores!TypeOK
  <2> QED
    BY <1>1, <1>3, <2>1, <2>2, BucketConstants DEF Stores!TypeOK
<1>6. RowInv'
  <2>1. \A b \in Creates : /\ row[b] # "none" <=> step'[b] = "made" \/ (Door[b] = "api" /\ step'[b] \in {"make", "undo", "kept"})
                           /\ Door[b] = "mcp" => step'[b] \notin {"name", "undo", "kept"}
    BY <1>1, <1>2, <1>3, BucketConstants DEF RowInv
  <2> QED
    BY <1>1, <1>3, <2>1 DEF RowInv
<1>7. UsedInv'
  BY <1>1, <1>2, <1>3, BucketConstants DEF UsedInv, Stores!TypeOK
<1>8. KeptInv'
  <2> SUFFICES ASSUME NEW b \in Creates
               PROVE  /\ step'[b] = "made" /\ row[b] = "live" => place[b] \in storage' \/ UsedUp(b)
                      /\ Door[b] = "mcp" /\ step'[b] = "insert" =>
                           \/ place[b] \in storage' \/ UsedUp(b)
                           \/ \E d \in Creates : row[d] = "deleted" /\ step'[d] = "made" /\ place[d] = place[b]
    BY <1>1 DEF KeptInv, UsedUp
  <2>1. CASE b = c
    BY <1>3, <1>4, <2>1
  <2>2. CASE b # c
    BY <1>1, <1>3, <1>4, <2>2 DEF KeptInv
  <2> QED
    BY <2>1, <2>2
<1>9. FilledInv'
  BY <1>1, <1>3, BucketConstants DEF FilledInv, Stores!TypeOK
<1> QED
  BY <1>5, <1>6, <1>7, <1>8, <1>9

\* The row goes with the objects that were recorded in it, not with its
\* storage; or the DELETE fails and both are kept.
LEMMA UndoKeeps == ASSUME StoresInv, NEW c \in Creates, Stores!Undo(c) PROVE StoresInv'
<1> USE DEF StoresInv
<1>1. PICK p \in {"refused", "kept"} :
        /\ step' = [step EXCEPT ![c] = p]
        /\ p = "refused" => row' = [row EXCEPT ![c] = "none"] /\ objects' = {o \in objects : o[1] # c}
        /\ p = "kept" => UNCHANGED <<row, objects>>
  BY DEF Stores!Undo, Stores!Goes
<1>2. step[c] = "undo" /\ UNCHANGED <<place, target, storage, bytes, faults, raced, early>>
  BY DEF Stores!Undo
<1>3. /\ step' \in [Creates \cup Deletes \cup Uploads -> Steps] /\ step'[c] = p
      /\ \A r \in Creates \cup Deletes \cup Uploads : r # c => step'[r] = step[r]
  BY <1>1 DEF RowInv, Steps
<1>4. /\ row' \in [Creates -> {"none", "live", "deleted"}]
      /\ row'[c] = IF p = "refused" THEN "none" ELSE row[c]
      /\ \A b \in Creates : b # c => row'[b] = row[b]
      /\ objects' \subseteq objects /\ (p = "refused" => \A o \in objects' : o[1] # c)
  BY <1>1 DEF Stores!TypeOK
<1>5. Stores!TypeOK'
  BY <1>1, <1>2, <1>3, <1>4, BucketConstants DEF Stores!TypeOK
<1>6. RowInv'
  BY <1>1, <1>2, <1>3, <1>4, BucketConstants DEF RowInv
<1>7. UsedInv'
  BY <1>1, <1>2, <1>3, <1>4, BucketConstants DEF UsedInv, Stores!TypeOK
<1>8. KeptInv'
  <2> SUFFICES ASSUME NEW b \in Creates
               PROVE  /\ step'[b] = "made" /\ row'[b] = "live" => place[b] \in storage \/ UsedUp(b)
                      /\ Door[b] = "mcp" /\ step'[b] = "insert" =>
                           \/ place[b] \in storage \/ UsedUp(b)
                           \/ \E d \in Creates : row'[d] = "deleted" /\ step'[d] = "made" /\ place[d] = place[b]
    BY <1>2 DEF KeptInv, UsedUp
  <2>1. b = c => step'[b] \notin {"made", "insert"}
    BY <1>3
  <2> QED
    BY <1>1, <1>2, <1>3, <1>4, <2>1 DEF KeptInv
<1>9. FilledInv'
  BY <1>1, <1>2, <1>3, <1>4, BucketConstants DEF FilledInv, Stores!TypeOK
<1> QED
  BY <1>5, <1>6, <1>7, <1>8, <1>9

\* The row is deleted; the bucket was counted empty, but not since.
LEMMA CountKeeps == ASSUME StoresInv, NEW d \in Deletes, Stores!Count(d) PROVE StoresInv'
<1> USE DEF StoresInv
<1>1. PICK p \in {"refused", "counted"} : step' = [step EXCEPT ![d] = p]
  BY DEF Stores!Count, Stores!Goes
<1>2. UNCHANGED <<row, place, target, storage, bytes, objects, faults, raced, early>>
  BY DEF Stores!Count
<1>3. /\ step' \in [Creates \cup Deletes \cup Uploads -> Steps] /\ step'[d] = p
      /\ \A r \in Creates \cup Deletes \cup Uploads : r # d => step'[r] = step[r]
  BY <1>1 DEF RowInv, Steps
<1>4. \A c \in Creates \cup Uploads : step'[c] = step[c]
  BY <1>3, BucketConstants
<1>5. Stores!TypeOK'
  BY <1>2, <1>3, <1>4, BucketConstants DEF Stores!TypeOK
<1>6. RowInv' /\ FilledInv'
  BY <1>2, <1>3, <1>4 DEF RowInv, FilledInv, Stores!TypeOK
<1>7. UsedInv'
  <2>1. \A e \in Deletes : step'[e] \in {"drain", "drop"} => step[e] \in {"drain", "drop"}
    BY <1>3
  <2> QED
    BY <1>2, <1>4, <2>1 DEF UsedInv, Stores!TypeOK
<1>8. KeptInv'
  BY <1>2, <1>4 DEF KeptInv, UsedUp
<1> QED
  BY <1>5, <1>6, <1>7, <1>8

LEMMA SoftDeleteKeeps == ASSUME StoresInv, NEW d \in Deletes, Stores!SoftDelete(d) PROVE StoresInv'
<1> USE DEF StoresInv
<1>1. PICK b \in Creates : b = target[d]
  BY DEF Stores!TypeOK
<1>2. PICK p \in {"refused", "drain"} :
        /\ step' = [step EXCEPT ![d] = p]
        /\ p = "refused" => UNCHANGED <<row, early, raced>>
        /\ p = "drain" => /\ row[b] = "live" /\ row' = [row EXCEPT ![b] = "deleted"] /\ early' = Stores!UsedEarly(b)
                          /\ raced' = raced \cup {u \in Uploads : target[u] = b /\ (step[u] = "head" \/ <<b, u>> \in objects)}
  BY <1>1 DEF Stores!SoftDelete, Stores!Goes
<1>3. UNCHANGED <<place, target, storage, bytes, objects, faults>>
  BY DEF Stores!SoftDelete
<1>4. /\ step' \in [Creates \cup Deletes \cup Uploads -> Steps] /\ step'[d] = p
      /\ \A r \in Creates \cup Deletes \cup Uploads : r # d => step'[r] = step[r]
  BY <1>2 DEF RowInv, Steps
<1>5. \A r \in Creates \cup Uploads : step'[r] = step[r]
  BY <1>4, BucketConstants
<1>6. /\ early \subseteq early' /\ raced \subseteq raced' /\ early' \subseteq Creates /\ raced' \subseteq Uploads
      /\ row' \in [Creates -> {"none", "live", "deleted"}]
      /\ \A c \in Creates : /\ c # b => row'[c] = row[c]
                            /\ row[c] = "none" <=> row'[c] = "none"
                            /\ row[c] = "deleted" => row'[c] = "deleted"
                            /\ row'[c] = "live" => row[c] = "live"
      /\ p = "drain" => row'[b] = "deleted" /\ (step[b] = "made" \/ b \in early')
  BY <1>2 DEF Stores!TypeOK, Stores!UsedEarly
<1>7. Stores!TypeOK'
  BY <1>3, <1>4, <1>5, <1>6, BucketConstants DEF Stores!TypeOK
<1>8. RowInv'
  BY <1>3, <1>4, <1>5, <1>6 DEF RowInv
<1>9. UsedInv'
  <2>1. \A r \in Deletes : step'[r] \in {"drain", "drop"} =>
          (row'[target[r]] = "deleted" /\ step'[target[r]] = "made") \/ target[r] \in early'
    BY <1>1, <1>4, <1>5, <1>6 DEF UsedInv, Stores!TypeOK
  <2> QED
    BY <1>3, <1>5, <1>6, <2>1 DEF UsedInv, Stores!TypeOK
<1>10. KeptInv'
  <2>1. \A c \in Creates : UsedUp(c) => UsedUp(c)'
    BY <1>6 DEF UsedUp
  <2> QED
    BY <1>3, <1>5, <1>6, <2>1 DEF KeptInv
<1>11. FilledInv'
  <2>1. \A o \in bytes : step'[o[2]] # "unsent" /\ o[1] = place[target[o[2]]]
    BY <1>5 DEF FilledInv, Stores!TypeOK
  <2>2. ASSUME NEW o \in objects PROVE o[1] = target[o[2]] /\ (row'[o[1]] = "live" \/ o[2] \in raced')
    <3>1. o[1] \in Creates /\ o[2] \in Uploads /\ o = <<o[1], o[2]>>
      BY DEF Stores!TypeOK
    <3>2. CASE p = "drain" /\ o[1] = b
      <4>1. o[2] \in {u \in Uploads : target[u] = b /\ (step[u] = "head" \/ <<b, u>> \in objects)}
        BY <3>1, <3>2 DEF FilledInv
      <4> QED
        BY <1>2, <3>2, <4>1 DEF FilledInv
    <3>3. CASE ~(p = "drain" /\ o[1] = b)
      BY <1>2, <1>6, <3>1, <3>3 DEF FilledInv
    <3> QED
      BY <3>2, <3>3
  <2>3. ASSUME NEW u \in Uploads, step[u] = "head" PROVE row'[target[u]] \in {"live", "none"} \/ u \in raced'
    <3>1. target[u] \in Creates
      BY DEF Stores!TypeOK
    <3>2. CASE p = "drain" /\ target[u] = b
      BY <1>2, <2>3, <3>2
    <3>3. CASE ~(p = "drain" /\ target[u] = b)
      BY <1>2, <1>6, <2>3, <3>1, <3>3 DEF FilledInv
    <3> QED
      BY <3>2, <3>3
  <2> QED
    BY <1>3, <1>5, <2>1, <2>2, <2>3 DEF FilledInv
<1> QED
  BY <1>7, <1>8, <1>9, <1>10, <1>11

LEMMA DrainKeeps == ASSUME StoresInv, NEW d \in Deletes, Stores!Drain(d) PROVE StoresInv'
<1> USE DEF StoresInv
<1>1. PICK p \in {"drop", "answered"} : step' = [step EXCEPT ![d] = p]
  BY DEF Stores!Drain, Stores!Goes
<1>2. /\ step[d] = "drain" /\ bytes' \subseteq bytes /\ faults' \in 0 .. MaxFaults
      /\ UNCHANGED <<row, place, target, storage, objects, raced, early>>
  BY BucketConstants DEF Stores!Drain, Stores!Fault, Stores!TypeOK
<1>3. /\ step' \in [Creates \cup Deletes \cup Uploads -> Steps] /\ step'[d] = p
      /\ \A r \in Creates \cup Deletes \cup Uploads : r # d => step'[r] = step[r]
  BY <1>1 DEF RowInv, Steps
<1>4. \A c \in Creates \cup Uploads : step'[c] = step[c]
  BY <1>3, BucketConstants
<1>5. Stores!TypeOK'
  BY <1>2, <1>3, <1>4, BucketConstants DEF Stores!TypeOK
<1>6. RowInv' /\ FilledInv'
  BY <1>2, <1>3, <1>4 DEF RowInv, FilledInv, Stores!TypeOK
<1>7. UsedInv' /\ KeptInv'
  BY <1>2, <1>3, <1>4 DEF UsedInv, KeptInv, UsedUp, Stores!TypeOK
<1> QED
  BY <1>5, <1>6, <1>7

\* The storage that is dropped is the deleted row's, and no live row's.
LEMMA DropKeeps == ASSUME StoresInv, NEW d \in Deletes, Stores!Drop(d) PROVE StoresInv'
<1> USE DEF StoresInv
<1>1. /\ step[d] = "drop" /\ step' = [step EXCEPT ![d] = "answered"]
      /\ UNCHANGED <<row, place, target, bytes, objects, faults, raced, early>>
  BY DEF Stores!Drop, Stores!Goes
<1>2. PICK b \in Creates : b = target[d]
  BY DEF Stores!TypeOK
<1>3. storage' = (IF \E o \in bytes : o[1] = place[b] THEN storage ELSE storage \ {place[b]})
  BY <1>2 DEF Stores!Drop
<1>4. storage' \subseteq storage /\ bytes \subseteq storage' \X Uploads /\ \A p \in storage : p # place[b] => p \in storage'
  BY <1>3 DEF Stores!TypeOK
<1>5. /\ step' \in [Creates \cup Deletes \cup Uploads -> Steps] /\ step'[d] = "answered"
      /\ \A r \in Creates \cup Deletes \cup Uploads : r # d => step'[r] = step[r]
  BY <1>1 DEF RowInv, Steps
<1>6. \A r \in Creates \cup Uploads : step'[r] = step[r]
  BY <1>5, BucketConstants
<1>7. (row[b] = "deleted" /\ step[b] = "made") \/ b \in early
  BY <1>1, <1>2 DEF UsedInv
<1>8. Stores!TypeOK'
  BY <1>1, <1>4, <1>5, <1>6, BucketConstants DEF Stores!TypeOK
<1>9. RowInv' /\ FilledInv'
  BY <1>1, <1>5, <1>6 DEF RowInv, FilledInv, Stores!TypeOK
<1>10. UsedInv'
  BY <1>1, <1>5, <1>6 DEF UsedInv, Stores!TypeOK
<1>11. KeptInv'
  <2> SUFFICES ASSUME NEW c \in Creates
               PROVE  /\ step[c] = "made" /\ row[c] = "live" => place[c] \in storage' \/ UsedUp(c)
                      /\ Door[c] = "mcp" /\ step[c] = "insert" =>
                           \/ place[c] \in storage' \/ UsedUp(c)
                           \/ \E a \in Creates : row[a] = "deleted" /\ step[a] = "made" /\ place[a] = place[c]
    BY <1>1, <1>6 DEF KeptInv, UsedUp
  <2>1. CASE place[c] # place[b]
    BY <1>4, <2>1 DEF KeptInv
  <2>2. CASE place[c] = place[b]
    <3>1. NameOf[c] = NameOf[b]
      BY <2>2 DEF RowInv
    <3>2. CASE b \in early
      BY <3>1, <3>2 DEF UsedUp
    <3>3. CASE row[b] = "deleted" /\ step[b] = "made"
      <4>1. ~(row[c] = "live")
        BY <2>2, <3>3 DEF RowInv
      <4> QED
        BY <2>2, <3>3, <4>1
    <3> QED
      BY <1>7, <3>2, <3>3
  <2> QED
    BY <2>1, <2>2
<1> QED
  BY <1>8, <1>9, <1>10, <1>11

LEMMA PresignKeeps == ASSUME StoresInv, NEW u \in Uploads, Stores!Presign(u) PROVE StoresInv'
<1> USE DEF StoresInv
<1>1. /\ step[u] = "unsent" /\ step' = [step EXCEPT ![u] = "put"] /\ row[target[u]] = "live"
      /\ early' = Stores!UsedEarly(target[u])
      /\ UNCHANGED <<row, place, target, storage, bytes, objects, faults, raced>>
  BY DEF Stores!Presign, Stores!Goes
<1>2. target[u] \in Creates
  BY DEF Stores!TypeOK
<1>3. early \subseteq early' /\ early' \subseteq Creates /\ (step[target[u]] = "made" \/ target[u] \in early')
  BY <1>1, <1>2 DEF Stores!UsedEarly, Stores!TypeOK
<1>4. /\ step' \in [Creates \cup Deletes \cup Uploads -> Steps] /\ step'[u] = "put"
      /\ \A r \in Creates \cup Deletes \cup Uploads : r # u => step'[r] = step[r]
  BY <1>1 DEF RowInv, Steps
<1>5. \A r \in Creates \cup Deletes : step'[r] = step[r]
  BY <1>4, BucketConstants
<1>6. Stores!TypeOK'
  BY <1>1, <1>3, <1>4, <1>5, BucketConstants DEF Stores!TypeOK
<1>7. RowInv'
  BY <1>1, <1>4, <1>5 DEF RowInv
<1>8. UsedInv'
  BY <1>1, <1>2, <1>3, <1>4, <1>5, BucketConstants DEF UsedInv, RowInv, Stores!TypeOK
<1>9. KeptInv'
  <2>1. \A c \in Creates : UsedUp(c) => UsedUp(c)'
    BY <1>3 DEF UsedUp
  <2> QED
    BY <1>1, <1>5, <2>1 DEF KeptInv
<1>10. FilledInv'
  BY <1>1, <1>4 DEF FilledInv, Stores!TypeOK
<1> QED
  BY <1>6, <1>7, <1>8, <1>9, <1>10

LEMMA PutKeeps == ASSUME StoresInv, NEW u \in Uploads, Stores!Put(u) PROVE StoresInv'
<1> USE DEF StoresInv
<1>1. step[u] = "put" /\ UNCHANGED <<row, place, target, storage, objects, faults, raced, early>>
  BY DEF Stores!Put
<1>2. PICK p \in {"stored", "failed"} :
        /\ step' = [step EXCEPT ![u] = p]
        /\ p = "stored" => place[target[u]] \in storage /\ bytes' = bytes \cup {<<place[target[u]], u>>}
        /\ p = "failed" => bytes' = bytes
  BY DEF Stores!Put, Stores!Goes
<1>3. /\ step' \in [Creates \cup Deletes \cup Uploads -> Steps] /\ step'[u] = p
      /\ \A r \in Creates \cup Deletes \cup Uploads : r # u => step'[r] = step[r]
  BY <1>2 DEF RowInv, Steps
<1>4. \A r \in Creates \cup Deletes : step'[r] = step[r]
  BY <1>3, BucketConstants
<1>5. \A o \in bytes' : o \in bytes \/ (o[1] = place[target[u]] /\ o[2] = u)
  BY <1>2
<1>6. Stores!TypeOK'
  <2>1. bytes' \subseteq storage \X Uploads
    BY <1>2 DEF Stores!TypeOK
  <2> QED
    BY <1>1, <1>3, <1>4, <2>1, BucketConstants DEF Stores!TypeOK
<1>7. RowInv' /\ KeptInv'
  BY <1>1, <1>3, <1>4 DEF RowInv, KeptInv, UsedUp
<1>8. UsedInv'
  BY <1>1, <1>3, <1>4, BucketConstants DEF UsedInv, Stores!TypeOK
<1>9. FilledInv'
  BY <1>1, <1>3, <1>5 DEF FilledInv, Stores!TypeOK
<1> QED
  BY <1>6, <1>7, <1>8, <1>9

LEMMA ResolveBucketKeeps == ASSUME StoresInv, NEW u \in Uploads, Stores!Resolve(u) PROVE StoresInv'
<1> USE DEF StoresInv
<1>1. step[u] = "stored" /\ UNCHANGED <<row, place, target, storage, bytes, objects, faults, raced, early>>
  BY DEF Stores!Resolve
<1>2. PICK p \in {"head", "failed"} : step' = [step EXCEPT ![u] = p] /\ (p = "head" => row[target[u]] = "live")
  BY DEF Stores!Resolve, Stores!Goes
<1>3. /\ step' \in [Creates \cup Deletes \cup Uploads -> Steps] /\ step'[u] = p
      /\ \A r \in Creates \cup Deletes \cup Uploads : r # u => step'[r] = step[r]
  BY <1>2 DEF RowInv, Steps
<1>4. \A r \in Creates \cup Deletes : step'[r] = step[r]
  BY <1>3, BucketConstants
<1>5. Stores!TypeOK'
  BY <1>1, <1>3, <1>4, BucketConstants DEF Stores!TypeOK
<1>6. RowInv' /\ KeptInv'
  BY <1>1, <1>3, <1>4 DEF RowInv, KeptInv, UsedUp
<1>7. UsedInv'
  BY <1>1, <1>3, <1>4, BucketConstants DEF UsedInv, Stores!TypeOK
<1>8. FilledInv'
  BY <1>1, <1>2, <1>3 DEF FilledInv, Stores!TypeOK
<1> QED
  BY <1>5, <1>6, <1>7, <1>8

\* An object is recorded in a live bucket, or in one deleted since its confirm
\* resolved it.
LEMMA RecordKeeps == ASSUME StoresInv, NEW u \in Uploads, Stores!Record(u) PROVE StoresInv'
<1> USE DEF StoresInv
<1>1. step[u] = "head" /\ UNCHANGED <<row, place, target, storage, bytes, faults, raced, early>>
  BY DEF Stores!Record
<1>2. PICK p \in {"confirmed", "failed"} :
        /\ step' = [step EXCEPT ![u] = p]
        /\ p = "confirmed" => row[target[u]] # "none" /\ objects' = objects \cup {<<target[u], u>>}
        /\ p = "failed" => objects' = objects
  BY DEF Stores!Record, Stores!Goes
<1>3. /\ step' \in [Creates \cup Deletes \cup Uploads -> Steps] /\ step'[u] = p
      /\ \A r \in Creates \cup Deletes \cup Uploads : r # u => step'[r] = step[r]
  BY <1>2 DEF RowInv, Steps
<1>4. \A r \in Creates \cup Deletes : step'[r] = step[r]
  BY <1>3, BucketConstants
<1>5. target[u] \in Creates /\ \A o \in objects' : o \in objects \/ (p = "confirmed" /\ o[1] = target[u] /\ o[2] = u)
  BY <1>2 DEF Stores!TypeOK
<1>6. Stores!TypeOK'
  <2>1. objects' \subseteq Creates \X Uploads
    BY <1>2, <1>5 DEF Stores!TypeOK
  <2> QED
    BY <1>1, <1>3, <1>4, <2>1, BucketConstants DEF Stores!TypeOK
<1>7. RowInv' /\ KeptInv'
  BY <1>1, <1>3, <1>4 DEF RowInv, KeptInv, UsedUp
<1>8. UsedInv'
  BY <1>1, <1>3, <1>4, BucketConstants DEF UsedInv, Stores!TypeOK
<1>9. FilledInv'
  <2>1. ASSUME NEW o \in objects' PROVE o[1] = target[o[2]] /\ (row[o[1]] = "live" \/ o[2] \in raced)
    <3>1. CASE o \in objects
      BY <3>1 DEF FilledInv
    <3>2. CASE p = "confirmed" /\ o[1] = target[u] /\ o[2] = u
      BY <1>1, <1>2, <1>5, <3>2 DEF FilledInv, Stores!TypeOK
    <3> QED
      BY <1>5, <2>1, <3>1, <3>2
  <2> QED
    BY <1>1, <1>3, <2>1 DEF FilledInv, Stores!TypeOK
<1> QED
  BY <1>6, <1>7, <1>8, <1>9

LEMMA StoresKeep == ASSUME StoresInv, Stores!Next PROVE StoresInv'
BY LookKeeps, NameKeeps, InsertKeeps, MakeKeeps, UndoKeeps, CountKeeps, SoftDeleteKeeps, DrainKeeps, DropKeeps, PresignKeeps,
   PutKeeps, ResolveBucketKeeps, RecordKeeps DEF Stores!Next

LEMMA StoresAreSound ==
  StoresInv => Stores!TypeOK /\ Stores!StorageStays /\ Stores!NothingReappears /\ Stores!DeletedWasEmpty
<1> SUFFICES ASSUME StoresInv
             PROVE  Stores!TypeOK /\ Stores!StorageStays /\ Stores!NothingReappears /\ Stores!DeletedWasEmpty
  OBVIOUS
<1> USE DEF StoresInv
<1>1. Stores!StorageStays
  BY DEF KeptInv, UsedUp, Stores!StorageStays
<1>2. Stores!DeletedWasEmpty
  BY DEF FilledInv, Stores!DeletedWasEmpty
<1>3. Stores!NothingReappears
  <2> SUFFICES ASSUME NEW c \in Creates, NEW o \in bytes, row[c] = "live", o[1] = place[c], target[o[2]] # c
               PROVE  \E d \in early : NameOf[d] = NameOf[c]
    BY DEF Stores!NothingReappears
  <2>1. o[2] \in Uploads /\ target[o[2]] \in Creates
    BY DEF Stores!TypeOK
  <2>2. place[target[o[2]]] = place[c] /\ step[o[2]] # "unsent"
    BY DEF FilledInv
  <2>3. row[target[o[2]]] = "none"
    BY <2>1, <2>2 DEF RowInv
  <2>4. target[o[2]] \in early
    BY <2>1, <2>2, <2>3 DEF UsedInv, RowInv
  <2> QED
    BY <2>1, <2>2, <2>4 DEF RowInv
<1> QED
  BY <1>1, <1>2, <1>3

LEMMA StoresRest == StoresInv /\ UNCHANGED storeVars => StoresInv'
BY DEF storeVars, StoresInv, RowInv, UsedInv, KeptInv, UsedUp, FilledInv, Stores!TypeOK

-----------------------------------------------------------------------------
(* The theorems *)

authority == <<signingVars, identityVars, rotationVars>>

AuthorityInv ==
  /\ part = "signing" => SigningInv
  /\ part = "identity" => IdentityInv
  /\ part = "rotation" => RotationInv

LEMMA InitAuthority == Init => AuthorityInv
BY InitSigning, InitIdentity, InitRotation DEF Init, AuthorityInv

\* A part that does not run stays where it is.
LEMMA OnePartRuns ==
  ASSUME [Next]_<<part, tenancyVars, accessVars>>
  PROVE  /\ part' = part
         /\ (part = "signing" /\ Signing!Next) \/ UNCHANGED signingVars
         /\ (part = "identity" /\ Identities!Next) \/ UNCHANGED identityVars
         /\ (part = "rotation" /\ Rotation!Next) \/ UNCHANGED rotationVars
BY DEF Next, accessVars

LEMMA SigningRests == SigningInv /\ UNCHANGED signingVars => SigningInv'
BY DEF signingVars, SigningInv, KeyTypes, SeenInv

LEMMA IdentityRests == IdentityInv /\ UNCHANGED identityVars => IdentityInv'
BY DEF identityVars, IdentityInv, MemberTypes, RoleInv, ToolInv, Identities!HandlerAccepts, Identities!Blocked,
       Identities!Allowed

LEMMA RotationRests == RotationInv /\ UNCHANGED rotationVars => RotationInv'
BY DEF rotationVars, RotationInv, StageTypes, OrderInv, RunInv, MendInv, SignedInv, Newer, One, Cur, Pen, Prev,
       Rotation!In, Rotation!Rows, Rotation!TypeOK

LEMMA AuthorityKeeps == AuthorityInv /\ [Next]_<<part, tenancyVars, accessVars>> => AuthorityInv'
<1> SUFFICES ASSUME AuthorityInv, [Next]_<<part, tenancyVars, accessVars>> PROVE AuthorityInv'
  OBVIOUS
<1>1. part = "signing" => SigningInv'
  BY OnePartRuns, SigningKeeps, SigningRests DEF AuthorityInv
<1>2. part = "identity" => IdentityInv'
  BY OnePartRuns, IdentityKeeps, IdentityRests DEF AuthorityInv
<1>3. part = "rotation" => RotationInv'
  BY OnePartRuns, RotationKeeps, RotationRests DEF AuthorityInv
<1> QED
  BY OnePartRuns, <1>1, <1>2, <1>3 DEF AuthorityInv

TenancyInv ==
  /\ part = "checkouts" => CheckoutInv
  /\ part = "buckets" => StoresInv

LEMMA InitTenancy == Init => TenancyInv
BY InitCheckouts, InitStores DEF Init, TenancyInv

LEMMA TenancyKeeps == TenancyInv /\ [Next]_<<part, tenancyVars, accessVars>> => TenancyInv'
<1> SUFFICES ASSUME TenancyInv, [Next]_<<part, tenancyVars, accessVars>> PROVE TenancyInv'
  OBVIOUS
<1>1. /\ part' = part
      /\ (part = "checkouts" /\ Checkouts!Next) \/ UNCHANGED checkoutVars
      /\ (part = "buckets" /\ Stores!Next) \/ UNCHANGED storeVars
  BY DEF Next, tenancyVars
<1>2. ASSUME part = "checkouts" PROVE CheckoutInv'
  BY <1>1, <1>2, CheckoutsKeep, CheckoutRests DEF TenancyInv
<1>3. ASSUME part = "buckets" PROVE StoresInv'
  BY <1>1, <1>3, StoresKeep, StoresRest DEF TenancyInv
<1> QED
  BY <1>1, <1>2, <1>3 DEF TenancyInv

RequestsInv ==
  /\ part = "creating" => RequestInv(Creations)
  /\ part = "rotating" => RequestInv(Rotations)

LEMMA InitMixes == Init => RequestsInv
BY InitRequests DEF Init, RequestsInv

LEMMA OneMixRuns ==
  ASSUME [Next]_<<part, tenancyVars, accessVars>>
  PROVE  /\ part' = part
         /\ \/ part = "creating" /\ Api(Creations)!Next
            \/ part = "rotating" /\ Api(Rotations)!Next
            \/ UNCHANGED apiVars
BY DEF Next, accessVars

LEMMA RequestRests ==
  ASSUME NEW T \in {Creations, Rotations}, RequestInv(T), UNCHANGED apiVars PROVE RequestInv(T)'
BY DEF apiVars, RequestInv, MintedInv, BannedInv, DoneInv, OnceInv, ToldInv, Api!TypeOK, Api!Usable, Active, Written

LEMMA MixesKeep == RequestsInv /\ [Next]_<<part, tenancyVars, accessVars>> => RequestsInv'
<1> SUFFICES ASSUME RequestsInv, [Next]_<<part, tenancyVars, accessVars>> PROVE RequestsInv'
  OBVIOUS
<1>1. ASSUME part = "creating" PROVE RequestInv(Creations)'
  BY <1>1, OneMixRuns, RequestsKeep, RequestRests DEF RequestsInv
<1>2. ASSUME part = "rotating" PROVE RequestInv(Rotations)'
  BY <1>2, OneMixRuns, RequestsKeep, RequestRests DEF RequestsInv
<1> QED
  BY OneMixRuns, <1>1, <1>2 DEF RequestsInv

\* For any orgs, memberships, credentials and internal requests: both doors
\* choose one org, nothing is done without a membership that allows it, the
\* allowlist and the handlers agree, and no tool deletes unless its confirmation
\* is switched off; only the two internal secrets activated last verify, and
\* the current one is at most a day old once a failed run is three days past.
THEOREM AuthorityIsSound == Spec => []AuthorityHolds
<1>1. AuthorityInv => AuthorityHolds
  BY SigningTypes, AuthorityIsHeld, SecretsAreFresh DEF AuthorityInv, AuthorityHolds
<1> QED
  BY InitAuthority, AuthorityKeeps, <1>1, PTL DEF Spec

\* For any keys, readers and faults: a retired signing key verifies for a
\* bounded time, a published one is found, and a rotation of the internal
\* secret rejects no request in flight unless a run before it was torn.
THEOREM KeysAndSecretsTurnOver == Spec => KeysTurnOver
<1>1. AuthorityInv /\ [Next]_<<part, tenancyVars, accessVars>> => [KeysFade]_(Signing!vars) /\ [KeysFound]_(Signing!vars)
  BY OnePartRuns, SigningSteps DEF AuthorityInv, signingVars, Signing!vars
<1>2. AuthorityInv /\ [Next]_<<part, tenancyVars, accessVars>> => [GraceStep]_(Rotation!vars)
  BY OnePartRuns, SecretsOverlap DEF AuthorityInv, rotationVars, Rotation!vars, Rotation!store, Rotation!traffic
<1>3. Spec => [][KeysFade]_(Signing!vars) /\ [][KeysFound]_(Signing!vars) /\ [][GraceStep]_(Rotation!vars)
  BY InitAuthority, AuthorityKeeps, <1>1, <1>2, PTL DEF Spec
<1>4. [][KeysFade]_(Signing!vars) => Signing!RetiredKeysFade
  BY DEF KeysFade, Signing!RetiredKeysFade
<1>5. [][KeysFound]_(Signing!vars) => Signing!NewKeysAreFound
  BY DEF KeysFound, Signing!NewKeysAreFound
<1>6. [][GraceStep]_(Rotation!vars) => Rotation!GraceWindow
  BY DEF GraceStep, Rotation!GraceWindow
<1> QED
  BY <1>3, <1>4, <1>5, <1>6, PTL DEF KeysTurnOver

\* For any keys, operations and attempts of them, lost answers and revocations
\* included: an operation under an Idempotency-Key whose attempts do not overlap
\* is done once, the secret its client is told is the key's, and an attempt
\* made with a key that is no good gets no answer, not even a stored one.
THEOREM RetriesAreDoneOnce == Spec => []RequestsHold
<1>1. RequestsInv => RequestsHold
  BY RequestsAreSound DEF RequestsInv, RequestsHold
<1> QED
  BY InitMixes, MixesKeep, <1>1, PTL DEF Spec

\* For any checkouts, buckets, deletes and uploads, with calls that fail and
\* workers that die: no replaced subscription goes on taking money, the org is
\* on one that is paid for, its capacity has a bucket behind it, and it has at
\* most one default key; a live bucket keeps its storage and shows nothing of an
\* earlier one of its name, and a deleted one was empty. How much capacity it is
\* allocated is not part of it.
THEOREM TenantsAreProvisioned == Spec => []TenancyHolds
<1>1. TenancyInv => TenancyHolds
  BY CheckoutsAreSound, StoresAreSound DEF TenancyInv, TenancyHolds
<1> QED
  BY InitTenancy, TenancyKeeps, <1>1, PTL DEF Spec
=============================================================================
