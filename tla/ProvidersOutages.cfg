SPECIFICATION FairSpec
CONSTANTS
  NProviders = 2
  NTasks = 2
  Concurrency = 2
  MaxChanges = 1
INVARIANTS
  TypeOK
  FailureRests
PROPERTIES
  QuotaPauseKept
  NotParked
  Recovers
