SPECIFICATION Spec
CONSTANTS
  Packages = {1}
  Deps <- Independent
  Concurrency = 1
  Approval = {}
  Faults = {"operator"}
  MaxSpawns = 2
  MaxCommits = 1
  MaxCrashes = 0
  MaxCommands = 1
PROPERTY TerminalIsKept
CHECK_DEADLOCK FALSE
