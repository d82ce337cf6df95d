SPECIFICATION MCSpec
CONSTANTS
  e1 = e1
  e2 = e2
  o1 = o1
  o2 = o2
  Events = {e1, e2}
  Orgs = {o1, o2}
  OrgOf <- MCOrgOf
  KindOf <- MCKindOf
  BytesOf <- MCBytesOf
  BatchSize = 2
  Window = 1
  Retention = 1
  Jobs = {1, 2}
  MaxAttempts = 2
  MaxTime = 3
  LastEmit = 1
  MaxFaults = 1
  Table = TRUE
  Halves = {"usage", "capacity"}
  v1 = v1
  j1 = j1
  j2 = j2
  Objects = {o1}
  Variants = {v1}
  Makers = {j1, j2}
  Deletable = {}
  ObjectBytes = 1
  MaxSize = 2
  MaxMade = 2
  MaxStalls = 0
  Rollups = {r1}
  AutoModes = {TRUE, FALSE}
  InitialAllocated = 3
  Increment = 1
  MaxAllocated = 4
  DriftScale = 1000
INVARIANTS UsageIsCounted
PROPERTIES UsageSettles JobsSettle RollupMends
CHECK_DEADLOCK FALSE
