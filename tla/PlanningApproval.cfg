SPECIFICATION FairSpec
CONSTANTS
  Ids <- SomeIds
  Number <- SomeNumber
  ScaffoldIds <- Scaffolding
  ScaffoldPaths <- Scaffolds
  RepoPaths <- Repository
  RepoFiles <- RepositoryFiles
  DefaultRefs <- Defaults
  Skills <- SkillRefs
  ShellCommands <- Shell
  Plans <- SomePlans
  Patches <- SomePatches
  RequireApproval = TRUE
  MaxRuns = 2
  MaxCommands = 3
INVARIANTS
  TypeOK
  OnePlanner
  ApprovedIsInForce
  FrozenIsSound
  WorkIsSanctioned
PROPERTIES
  ApprovedIsWorkedOn
