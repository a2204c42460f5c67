CONSTANTS
  r1 = r1
  r2 = r2
  Record <- MCRecord
  FlushThreshold = 3
  MaxEvents = 6
  MaxFaults = 2
  MaxLostAcks = 1
SPECIFICATION FairSpec
CHECK_DEADLOCK FALSE
INVARIANTS
  TypeOK
  Conservation
  NothingStranded
  ShutdownLosesNothing
PROPERTIES
  PipeSpec
  EverythingStored
  DrainEnds
