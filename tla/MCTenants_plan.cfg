\* Three checkouts of one person; three creates, a delete and an upload in
\* one name; a key that creates another.
SPECIFICATION Spec
CONSTANTS
  s1 = s1
  s2 = s2
  s3 = s3
  None = None
  AddonGb = 0
  Usages = {0, 15}
  MaxTries = 2
  c1 = c1
  c2 = c2
  c3 = c3
  Deletes = {d1}
  Uploads = {u1}
  MaxFaults = 1
  k1 = k1
  k2 = k2
  rotateToo = rotateToo
  revoke = revoke
  create = create
  rotate = rotate
  User = User
  FirstKid = kid1
  TTL = 1
  Latency = 1
  MaxTime = 4
  Orgs = {1, 2}
  Millisecond = 2
  Approvals = TRUE
  MaxChanges = 2
  MaxDay = 6
  MaxVersion = 6
  MaxSecret = 4
  Subs = {s1, s2, s3}
  PlanGb <- MCPlanGb
  MaxMishaps = 1
  Creates = {c1, c2, c3}
  NameOf <- MCNameOf
  Door <- MCDoor
  Keys = {k1, k2}
  Ops = {create, rotate, rotateToo, revoke}
  Principal <- MCPrincipal
  Kind <- MCKind
  Target <- MCTarget
  Keyed = {create, rotate}
  Creations <- MCCreations
  Rotations <- MCRotations
  MaxLost = 1
  Readers = {1, 2}
  Kids = {kid1, kid2}
  KeyScopes = {{"write"}, {"read", "delete"}}
  LastTick = 3
  Senders = {1}
  MaxOutages = 2
INVARIANTS PlanIsAllocated
CHECK_DEADLOCK FALSE
