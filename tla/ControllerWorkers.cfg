SPECIFICATION FairSpec
CONSTANTS
  Packages = {1, 2, 3}
  Deps <- Fork
  Concurrency = 2
  Approval = {}
  Faults = {"dies", "gives_up", "no_provider"}
  MaxSpawns = 2
  MaxCommits = 1
  MaxCrashes = 0
  MaxCommands = 0
INVARIANT WorkersBounded
PROPERTY AllMerge
CHECK_DEADLOCK FALSE
