SPECIFICATION FairChunkSpec
CONSTANTS
  alice = alice
  bob = bob
  file = file
  other = other
  bytes = bytes
  more = more
  NoPayload = NoPayload
  NoRoot = NoRoot
  Keeper = Keeper
  Owners = {alice, bob}
  Roots = {file, other}
  Hashes = {bytes, more}
  Chunks = {1, 2, 3, 4}
  RootOf <- MCRootOf
  HashOf <- MCHashOf
  Size <- MCSize
  Plans <- MCPlans
  Quota = 1
  PurgeBatch = 1
INVARIANTS
  CountersAgree
  CopyHasPayload
PROPERTY Repaired
CHECK_DEADLOCK FALSE
