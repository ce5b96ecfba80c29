SPECIFICATION Spec
CONSTANTS
  fg = fg
  nw = nw
  nc = nc
  sw = sw
  rd = rd
  mt = mt
  app = app
  system = system
  events = events
  coverage = coverage
  write = write
  Jobs = {fg, nw, nc, sw, rd, mt}
  Apps = {app, system}
  StoreNames = {events, coverage}
  Intents = {write}
  ClassOf <- MCClassOf
  AppOf <- MCAppOf
  StoresOf <- MCStoresOf
  Readers <- MCReaders
  Preemptible <- MCPreemptible
  IntentStores <- MCIntentStores
  StarvationLimit = 3
INVARIANTS
  TypeOK
  StoresSerialized
  QueuesAgree
  NoStall
  PlanningYields
PROPERTY KeepsPromise
