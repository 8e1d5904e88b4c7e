SPECIFICATION PromiseSpec
CONSTANTS
  Path <- Nested
  Above <- PathsAbove
  Digest = {"a", "b"}
  Target = {"t"}
  Written <- Contents
  ContentLossFloor = 10
  EditsDuringCycle = FALSE
  TrashRenameFails = FALSE
  Disruptions = {"resolve"}
  MaxEdits = 0
  MaxDisruptions = 1
PROPERTIES ResolvedWins
CHECK_DEADLOCK FALSE
