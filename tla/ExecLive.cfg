CONSTANTS
  n1 = n1
  n2 = n2
  a1 = a1
  a2 = a2
  m1 = m1
  noJob = noJob
  null = null
  Node <- MCNode2
  Concurrency = 1
  Job <- MCJobOne
  ManualJob <- MCManual
  NoJob <- noJob
  IsDelay = FALSE
  RetryCount = 1
  TimeoutMs = 3000
  Null <- null
  MaxStalled = 1
  HandlersInTime = FALSE
  MaxFaults = 2
  MaxCrashes = 2
  MaxAdmin = 0
SPECIFICATION FairSpec
CHECK_DEADLOCK FALSE
INVARIANTS
  LockNotLeaked
  StrandedLogsBounded
  JobOutcomeMatchesLog
  RunsWithinBudget
PROPERTIES
  LogForward
  JobsSettle
  LockComesBack
