SPECIFICATION PromiseSpec
CONSTANTS
  Path <- Nested
  Above <- PathsAbove
  Digest = {"a"}
  Target = {"t"}
  Written <- Contents
  ContentLossFloor = 10
  EditsDuringCycle = FALSE
  TrashRenameFails = TRUE
  Disruptions = {}
  MaxEdits = 1
  MaxDisruptions = 0
PROPERTIES LocalRemovalsTrashed
CHECK_DEADLOCK FALSE
