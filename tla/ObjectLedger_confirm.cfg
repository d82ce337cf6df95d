SPECIFICATION FairSpec
CONSTANTS
  Keys = {k1, k2}
  MaxSize = 2
  Confirms = {c1, c2}
  ApiDeletes = {}
  McpDeletes = {}
  Purges = {}
  MaxPurge = 2
  AutoModes = {TRUE, FALSE}
  InitialAllocated = 2
  Increment = 1
  MaxAllocated = 3
  DriftScale = 1000
  NoKey = NoKey
  NoRequest = NoRequest
INVARIANTS TypeOK LedgerExact HardQuota
PROPERTIES MeterSpec ConfirmsFinish
CHECK_DEADLOCK FALSE
