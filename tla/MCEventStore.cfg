SPECIFICATION Spec
CONSTANTS
  owner = owner
  other = other
  x = x
  wiki = wiki
  NoCoord = NoCoord
  NoApp = NoApp
  Never = Never
  Idle = Idle
  Worlds <- MCWorlds
  MergedIds = {9}
  Owner = owner
  MaxRequests = 1
  MaxRefs = 3
  CacheLimit = 1
  PublicLimit = 3
  Grace = 1
  TouchGap = 1
  AppBatch = 2
  Interval = 1
  MaxQueued = 1
INVARIANTS
  LedgerAgrees
  DeletedStaysOut
  UsageIsContent
PROPERTIES
  CompactionKeepsVerdicts
  ProtectedKept
CHECK_DEADLOCK FALSE
