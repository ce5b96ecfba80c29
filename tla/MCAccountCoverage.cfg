SPECIFICATION FairSpec
CONSTANTS
  k1 = k1
  k2 = k2
  k3 = k3
  g1 = g1
  g2 = g2
  e1 = e1
  e2 = e2
  e3 = e3
  e4 = e4
  None = None
  Kinds = {k1, k2, k3}
  Groups = {g1, g2}
  Events = {e1, e2, e3, e4}
  KindsOf <- MCKindsOf
  TimeOf <- MCTimeOf
  KindOf <- MCKindOf
  Clock <- MCClock
  PageSize = 2
  Overlap = 1
  MaxFaults = 1
INVARIANTS
  CoverageHonest
  ScanAwaitsQueue
PROPERTY SessionCovers
CHECK_DEADLOCK FALSE
