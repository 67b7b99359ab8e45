SPECIFICATION FairSpec
CONSTANTS
  Tasks = {t1, t2}
  t1 = t1
  t2 = t2
  Panes = {p1}
  p1 = p1
  MaxLaunches = 2
  MaxFaults = 2
INVARIANTS
  TypeOK
  Tracked
PROPERTIES
  SlotComesBack
CHECK_DEADLOCK FALSE
