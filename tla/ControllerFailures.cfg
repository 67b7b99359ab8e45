SPECIFICATION Spec
CONSTANTS
  Packages = {1, 2}
  Deps <- Chain
  Concurrency = 1
  Approval = {}
  Faults = {"dies", "empty", "unnamed", "other", "unreadable", "partial",
            "strays", "overstays", "fails", "no_provider", "contract", "quota", "conflict"}
  MaxSpawns = 2
  MaxCommits = 1
  MaxCrashes = 0
  MaxCommands = 0
INVARIANTS
  TypeOK
  DependencySafe
  
PROPERTIES
  
  Decided
CHECK_DEADLOCK FALSE
