SPECIFICATION FairSpec
CONSTANTS
  Keys = {k1}
  MaxSize = 2
  Confirms = {c1, c2}
  ApiDeletes = {d1}
  McpDeletes = {d2}
  Purges = {p1}
  MaxPurge = 2
  AutoModes = {TRUE, FALSE}
  InitialAllocated = 1
  Increment = 1
  MaxAllocated = 1
  DriftScale = 1000
  NoKey = NoKey
  NoRequest = NoRequest
PROPERTIES DriftRepaired
CHECK_DEADLOCK FALSE
