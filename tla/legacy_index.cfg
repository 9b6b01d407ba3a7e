SPECIFICATION Spec
CONSTANTS
  MaxRows = 3
  MaxVersion = 3
  Stable = {1}
  BatchSize = 2
  Legacy = TRUE
  MaxCrashes = 0
  MaxDamages = 0
INVARIANTS
  IndexIsComplete
CHECK_DEADLOCK FALSE
