CONSTANTS
  n1 = n1
  n2 = n2
  a1 = a1
  a2 = a2
  m1 = m1
  noJob = noJob
  null = null
  Node <- MCNode1
  Concurrency = 2
  Job <- MCJobMixed
  ManualJob <- MCManual
  NoJob <- noJob
  IsDelay = TRUE
  RetryCount = 0
  TimeoutMs = 3000
  Null <- null
  MaxStalled = 1
  HandlersInTime = TRUE
  MaxFaults = 0
  MaxCrashes = 0
  MaxAdmin = 0
SPECIFICATION Spec
CHECK_DEADLOCK FALSE
INVARIANTS
  ScheduledRunNotSuppressed
