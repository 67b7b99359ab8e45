SPECIFICATION Spec
CONSTANTS
  MaxCommits = 2
  MaxAttempts = 2
  MaxEvents = 2
INVARIANTS
  TypeOK
PROPERTIES
  MergesWhatItGated
  HumanGate
CHECK_DEADLOCK FALSE
