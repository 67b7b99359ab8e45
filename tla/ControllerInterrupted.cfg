SPECIFICATION FairSpec
CONSTANTS
  Packages = {1, 2}
  Deps <- Independent
  Concurrency = 1
  Approval = {2}
  Faults = {"dies", "unreadable", "crash", "operator"}
  MaxSpawns = 2
  MaxCommits = 1
  MaxCrashes = 1
  MaxCommands = 1
INVARIANTS
  WithinConcurrency
  MergedIsIntegrated
PROPERTY SlotsComeBack
CHECK_DEADLOCK FALSE
