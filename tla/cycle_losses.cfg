SPECIFICATION Spec
CONSTANTS
  Path <- Wide
  Above <- PathsAbove
  Digest = {"a"}
  Target = {"t"}
  Written <- WithLinks
  ContentLossFloor = 2
  EditsDuringCycle = FALSE
  TrashRenameFails = FALSE
  Disruptions = {"drop", "wipe", "foreign", "swap", "lose", "resume", "reset"}
  MaxEdits = 1
  MaxDisruptions = 2
INVARIANTS PlanAvoidsConflicts
PROPERTIES ConflictsUntouched LocalRemovalsTrashed EmptyRootIsContained BaseIsAgreed
CHECK_DEADLOCK FALSE
