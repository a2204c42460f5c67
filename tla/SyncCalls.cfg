CONSTANTS
  i1 = i1
  i2 = i2
  cron = cron
  delay = delay
  Instance <- TwoInstances
  w1 = w1
  w2 = w2
  Worker <- TwoWorkers
  Requests = 1
  Conf <- OneEach
  DelayConf <- TheDelay
  None = none
  MaxCalls = 3
  MaxRuns = 2
  MaxFaults = 1
SPECIFICATION Spec
CHECK_DEADLOCK FALSE
INVARIANTS
  TypeOK
  SyncedUnlessDisturbed
  OneTriggerUnlessOverlapped
  DeletedHasNoTrigger
SYMMETRY MCSymmetry
