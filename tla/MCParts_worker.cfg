SPECIFICATION Spec
CONSTANTS
  Machines = {"overwrite", "delete", "drift", "migrations", "process"}
  None = None
  MaxAttempts = 2
  MaxStalls = 1
  MaxFaults = 1
  picture1 = picture1
  picture2 = picture2
  recording = recording
  clip = clip
  Extension = "video"
  MaxPuts = 2
  Versions = {picture1, picture2, recording, clip}
  Overwriting = {picture1, picture2, recording}
  TypeOf <- MCTypeOf
  Types = {"thumbnail", "poster", "sprite"}
  b1 = b1
  b2 = b2
  x = x
  y = y
  z = z
  MaxEvents = 2
  old = old
  new = new
  hot = hot
  Absent = Absent
  Unsummed = Unsummed
  MaxCrashes = 1
  Pages <- MCPages
  Runners = {old, new, hot}
  Release <- MCRelease
  Texts = {"a", "b"}
  Jobs = {j1, j2}
  MaxStops = 3
  o1 = o1
  o2 = o2
  o3 = o3
  setA = setA
  setB = setB
  photo = photo
  song = song
  wide = wide
  FirstClips <- MCStart
  New = {n1, n2}
  AddedTo = {{}, {o1, o2}}
  Editors = {e1, e2}
  Offset = 100
  MaxMoves = 2
  MaxAlien = 1
  MaxPlace = 1
  Items = {1, 2, 3}
  FirstItems = {1, 3}
  FirstProbed = {{song}, {photo, song}}
  Doors = {"api", "mcp"}
  SetOf <- MCSetOf
  ObjectOf <- MCObjectOf
  AspectOf <- MCAspectOf
  Asked <- MCAsked
  KindOf <- MCKindOf
  Source = 3
  MaxCalls = 2
  MaxRemovals = 1
  Uploaded = {f1, f2, f3}
  Small = {f3}
  PartCount = 3
  PartConcurrency = 2
  MaxRetries = 1
  MaxStarts = 2
  MaxFailures = 2
  FirstFiles = 5
  Limit = 2
  MaxPages = 4
  MaxChanges = 1
  MaxFails = 1
INVARIANTS MediaFollows ProcessHolds ReleasesHold
PROPERTIES WorkEnds
CHECK_DEADLOCK FALSE
