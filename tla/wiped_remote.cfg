SPECIFICATION PromiseSpec
CONSTANTS
  Path <- Nested
  Above <- PathsAbove
  Digest = {"a"}
  Target = {"t"}
  Written <- Contents
  ContentLossFloor = 10
  EditsDuringCycle = FALSE
  TrashRenameFails = FALSE
  Disruptions = {"wipe"}
  MaxEdits = 0
  MaxDisruptions = 1
PROPERTIES WipedRootRemovesNothing
CHECK_DEADLOCK FALSE
