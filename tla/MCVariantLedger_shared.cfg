SPECIFICATION Spec
CONSTANTS
  o1 = o1
  v1 = v1
  j1 = j1
  j2 = j2
  Objects = {o1}
  Variants = {v1}
  ObjectOf <- MCObjectOfOne
  Jobs = {j1, j2}
  TargetOf <- MCOneKey
  Deletable = {o1}
  ObjectBytes = 1
  MaxSize = 2
  MaxAttempts = 2
  MaxStalls = 1
  Rollups = {}
  AutoModes = {TRUE}
  InitialAllocated = 3
  Increment = 1
  MaxAllocated = 4
  DriftScale = 1000
INVARIANTS TypeOK EventsFollowCounter ExactUntilDisturbed DoneIsStored
PROPERTIES OnlyRepairsUndercount
CHECK_DEADLOCK FALSE
