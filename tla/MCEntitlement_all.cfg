SPECIFICATION MCSpec
CONSTANTS
  Parts = {"stripe", "selfHosted", "prices", "webhook"}
  a1 = a1
  a2 = a2
  c1 = c1
  small = small
  large = large
  Plans = {small, large}
  IncludedGb <- MCIncludedGb
  InitialPlan = small
  Adds = {a1, a2}
  GbOf <- MCGbOf
  Automatic = {a2}
  Changes = {c1}
  PlanOf <- MCUpgrade
  Confirms = {f1}
  Renewals = {r1}
  Reconciles = {k1}
  Costs = {2}
  MaxSpend = 3
  ThresholdPct = 50
  AutoModes = {TRUE, FALSE}
  MaxUsed = 2
  d1 = d1
  d2 = d2
  e1 = e1
  s1 = s1
  SizeOfPlan <- MCSizeOfPlan
  FreePlan = small
  BoughtGb = 2
  Downgrades = {d1, d2}
  Enlarges = {e1}
  Shrinks = {s1}
  GbOfCall <- MCGbOfCall
  TargetOf <- MCTargetOf
  Mixes <- MCMixes
  None = None
  MaxSettings = 1
  MaxFaults = 1
  MaxRuns = 3
  MaxStripe = 7
  Cancellations = {canceled}
  Failures = {failed}
  Resumptions = {}
  MaxDeliveries = 2
  Tagged = TRUE
  InitialGb = 20
  PlanGb = 1
  AddonGb = 0
  Usages = {0, 15, 25}
INVARIANTS TypeOK CycleWithinCap NeverFree NeverOverGranted CapacityHolds HandledOnce AckedIsApplied
PROPERTIES LockedStepsKeepEntitlement PricesHold CallsEnd EventuallyApplied
CHECK_DEADLOCK FALSE
