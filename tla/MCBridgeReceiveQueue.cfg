SPECIFICATION FairSpec
CONSTANTS
  r1 = r1
  r2 = r2
  app = app
  vault = vault
  sub = sub
  NoStream = NoStream
  Attachments = {r1, r2}
  Endpoints = {app, vault}
  EndpointOf <- MCEndpointOf
  Frames <- MCFrames
  Streams = {sub}
  CreditFrames = 2
  CreditBytes = 3
  ReserveFrames = 1
  ReserveBytes = 1
  QueueFrames = 3
  QueueBytes = 7
  EndpointFrames = 4
  EndpointBytes = 7
  TabFrames = 3
  TabBytes = 8
  HighTurns = 1
  ControlTurns = 1
  Pushes = 3
  MaxPush <- MCMaxPush
INVARIANTS
  CreditConserved
  BudgetsHold
  LanesInOrder
PROPERTY Delivered
CHECK_DEADLOCK FALSE
