SPECIFICATION Spec
CONSTANTS
  Id = {"work"}
  Overlapping <- Nested
  Sandbox = {"box"}
  SandboxOf <- OwnSandbox
  MaxDaemons = 1
  MaxCommands = 2
  MaxDisruptions = 0
PROPERTIES StopIsFinal
CHECK_DEADLOCK FALSE
