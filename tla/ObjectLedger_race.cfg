SPECIFICATION Spec
CONSTANTS
  Keys = {k1}
  MaxSize = 2
  Confirms = {c1}
  ApiDeletes = {d1, d2}
  McpDeletes = {}
  Purges = {}
  MaxPurge = 2
  AutoModes = {TRUE, FALSE}
  InitialAllocated = 2
  Increment = 1
  MaxAllocated = 2
  DriftScale = 1000
  NoKey = NoKey
  NoRequest = NoRequest
INVARIANTS LedgerExact
CHECK_DEADLOCK FALSE
