SPECIFICATION Spec
CONSTANTS
  remove = remove
  add = add
  create = create
  Tasks = {remove, add, create}
  Steps <- StatementCount
  Rejected = {create}
  MaxAttempts = 2
  MaxCrashes = 1
INVARIANTS
  TypeOK
  AloneIsAtomic
  AcknowledgedIsDurable
  InsertedOnce
PROPERTIES
  OperationsEnd
CHECK_DEADLOCK FALSE
