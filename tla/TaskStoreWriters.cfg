SPECIFICATION Spec
CONSTANTS
  Writers = {controller, command}
  controller = controller
  command = command
  Tasks = {t1, t2}
  t1 = t1
  t2 = t2
  Statuses <- FewStatuses
  Terminal <- FewTerminal
  Planned = "planned"
  Absent = "absent"
  Crashes = TRUE
  MaxEvents = 2
INVARIANTS
  TypeOK
  EventsExplainTasks
PROPERTY FreshRecordsKept
SYMMETRY WriterSymmetry
CHECK_DEADLOCK FALSE
