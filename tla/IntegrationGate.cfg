SPECIFICATION Spec
CONSTANTS
  Managers = {controller, cli}
  Controller = controller
  controller = controller
  cli = cli
  Packages = {p1, p2}
  p1 = p1
  p2 = p2
  NoOne = NoOne
  Faults = {"late_commit", "abort"}
  MaxCommits = 2
  MaxMerges = 2
  MaxCrashes = 0
PROPERTIES
  GateSpec
  HeadRestored
SYMMETRY PackageSymmetry
CHECK_DEADLOCK FALSE
