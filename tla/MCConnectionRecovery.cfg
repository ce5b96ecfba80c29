SPECIFICATION FairSpec
CONSTANTS
  b1 = b1
  b2 = b2
  relay = relay
  server = server
  None = None
  Buckets = {b1, b2}
  Urls = {relay}
  Hosts = {server}
  UrlOf <- MCUrlOf
  HostOf <- MCHostOf
  MaxDelay = 2
  Burst = 1
  BurstWindow = 1
  Most = 2
  Window = 1
INVARIANTS
  TrialLease
  NoSleep
PROPERTIES
  FlappingKeepsDelay
  Served
CHECK_DEADLOCK FALSE
