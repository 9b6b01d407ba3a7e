SPECIFICATION Spec
CONSTANTS
  Procs = {p, q}
  BaseDelay = 3
  MaxDelay = 5
  MaxFailures = 3
  MaxLaunches = 3
INVARIANTS
  TypeOK
  OneRuntime
  NothingLeftRunning
  UsedPartsAreOpen
PROPERTIES
  NoUselessRestart
  StopEnds
  DuplicatedSessionEnds
CHECK_DEADLOCK FALSE
