SPECIFICATION Spec
CONSTANTS
  MaxRows = 4
  MaxVersion = 4
  Stable = {1}
  BatchSize = 2
  Legacy = FALSE
  MaxCrashes = 2
  MaxDamages = 2
INVARIANTS
  TypeOK
  VersionIsTruthful
  IndexFollowsText
PROPERTIES
  AlwaysServesAgain
CHECK_DEADLOCK FALSE
