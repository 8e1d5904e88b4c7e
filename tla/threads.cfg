CONSTANTS
  r1 = r1
  r2 = r2
  m1 = m1
  m2 = m2
  other = other
  Readers <- MCReaders
  Messages <- MCMessages
  Targets <- MCTargets
  Backlog <- MCBacklog
  Invocations <- MCInvocations
  AsInstance = TRUE
  PageSize = 1
  EventsCap = 1
  MaxFaults = 1
SPECIFICATION Spec
CHECK_DEADLOCK FALSE
INVARIANTS TypeOK WaitShowsSomething
PROPERTIES ReadsThenAcks MessageEndsWait LossEndsWait
