SPECIFICATION Spec
CONSTANTS
  Path <- Nested
  Above <- PathsAbove
  Digest = {"a", "b"}
  Target = {"t"}
  Written <- Contents
  ContentLossFloor = 2
  EditsDuringCycle = TRUE
  TrashRenameFails = TRUE
  Disruptions = {"drop", "crash", "resolve", "unreadable", "lose", "accept"}
  MaxEdits = 2
  MaxDisruptions = 1
INVARIANTS TypeOK PlanKeepsNewWork
PROPERTIES OnlyBaseOverwritten Settles
CHECK_DEADLOCK FALSE
