SPECIFICATION Spec
CONSTANTS
  ingest = ingest
  publish = publish
  upkeep = upkeep
  write = write
  events = events
  coverage = coverage
  Jobs = {ingest, publish, upkeep}
  Intents = {write}
  StoresOf <- MCStoresOf
  MaxObjects = 4
  MaxResets = 2
INVARIANT OwnerSerialized
CHECK_DEADLOCK FALSE
