SPECIFICATION PromiseSpec
CONSTANTS
  Path <- Nested
  Above <- PathsAbove
  Digest = {"a", "b"}
  Target = {"t"}
  Written <- Contents
  ContentLossFloor = 10
  EditsDuringCycle = FALSE
  TrashRenameFails = FALSE
  Disruptions = {}
  MaxEdits = 2
  MaxDisruptions = 0
PROPERTIES NoWorkDiscarded
CHECK_DEADLOCK FALSE
