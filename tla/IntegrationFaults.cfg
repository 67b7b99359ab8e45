SPECIFICATION FairSpec
CONSTANTS
  Managers = {controller, cli}
  Controller = controller
  controller = controller
  cli = cli
  Packages = {p1, p2}
  p1 = p1
  p2 = p2
  NoOne = NoOne
  Faults = {"late_commit", "conflict", "collision", "abort", "reset", "crash"}
  MaxCommits = 1
  MaxMerges = 2
  MaxCrashes = 1
INVARIANTS
  TypeOK
  RollBackIsOwnMerge
  EvidencedIsKept
PROPERTY CallEnds
CHECK_DEADLOCK FALSE
