SPECIFICATION Spec
CONSTANTS
  Id = {"work", "sub"}
  Overlapping <- Nested
  Sandbox = {"box", "other"}
  SandboxOf <- OwnSandbox
  MaxDaemons = 2
  MaxCommands = 3
  MaxDisruptions = 2
INVARIANTS TypeOK OneEnginePerSubtree EnginesAreReported
PROPERTIES HaltIsDurable RemovedStaysRemoved InterruptedDaemonsExit TerminatedSettles PausesEnd
CHECK_DEADLOCK FALSE
