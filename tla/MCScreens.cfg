SPECIFICATION Spec
CONSTANTS
  None = None
  Names = {"sea", "c++", "c#"}
  SlugOf <- MCSlugOf
  Notes = {blue}
  MaxTags = 1
  MaxCalls = 2
  MaxFails = 1
  Requests = {r1, r2}
  MaxTokens = 3
  MaxFaults = 1
  Texts = {"sea", "sun"}
  Items = {"clip", "photo"}
  FoundBy <- MCFoundBy
  TagsOf <- MCTagsOf
  KindOf <- MCKindOf
  Hits = 5
  Limit = 2
  MaxPages = 4
  MaxChanges = 1
  Defaults <- MCDefaults
  Settings <- MCSettings
  Offered <- MCOffered
  MaxSaves = 2
  MaxEdits = 2
  MaxLost = 1
  Files = {"clip", "photo"}
  Buckets = {"a", "b"}
  Later = "c"
  BucketOf <- MCBucketOf
  MaxDeletes = 2
  MaxTime = 14
  MaxDelay = 1
  Keys = {"old", "one", "two"}
  Old = {"old"}
  MaxRequests = 2
INVARIANTS LabelsHold ScreensHold
CHECK_DEADLOCK FALSE
