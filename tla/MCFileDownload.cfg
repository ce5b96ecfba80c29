SPECIFICATION Spec
CONSTANTS
  near = near
  far = far
  Relays <- MCRelays
  Plans <- MCPlans
  MaxBatches = 2
INVARIANTS
  CountsAgree
  MissingWasAsked
  EndIsAccounted
  NoStall
CHECK_DEADLOCK FALSE
