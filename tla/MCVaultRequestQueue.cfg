SPECIFICATION FairSpec
CONSTANTS
  sign1 = sign1
  sign2 = sign2
  chunk1 = chunk1
  chunk2 = chunk2
  archive = archive
  port1 = port1
  port2 = port2
  NoPort = NoPort
  Jobs = {sign1, sign2, chunk1, chunk2, archive}
  Priority = {sign1, sign2, chunk1, chunk2}
  Chunk = {chunk1, chunk2}
  Archive = {archive}
  Timed = {chunk1}
  Again = {sign1, sign2, chunk1, chunk2}
  Ports = {port1, port2}
  Slots = 2
  NormalSlots = 1
  ChunkSlots = 1
  ArchiveSlots = 1
  Streak = 1
INVARIANTS
  TypeOK
  SlotsHold
  SettlesOnce
PROPERTIES
  ResultOfThisConnection
  EveryRequestServed
CHECK_DEADLOCK FALSE
