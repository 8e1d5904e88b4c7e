SPECIFICATION Spec
CONSTANTS
  Path <- Deep
  Above <- PathsAbove
  Digest = {"a", "b"}
  Target = {"t"}
  Shown <- DeepShown
  Root <- Top
INVARIANT AgreesWithRecursion
PROPERTIES OneCycleAgrees ConflictsKeepBoth NewWorkSurvives EveryCycleProgresses
