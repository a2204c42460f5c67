CONSTANTS
  i1 = i1
  i2 = i2
  cron = cron
  delay = delay
  Instance <- OneInstance
  w1 = w1
  w2 = w2
  Worker <- OneWorker
  Requests = 1
  Conf <- OneEach
  DelayConf <- TheDelay
  None = none
  MaxCalls = 2
  MaxRuns = 0
  MaxFaults = 1
SPECIFICATION Spec
CHECK_DEADLOCK FALSE
INVARIANTS
  RestartRestores
