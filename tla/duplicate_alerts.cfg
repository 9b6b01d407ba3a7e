SPECIFICATION Spec
CONSTANTS
  m1 = m1
  m2 = m2
  m3 = m3
  w1 = w1
  w2 = w2
  w3 = w3
  w4 = w4
  u1 = u1
  u2 = u2
  u3 = u3
  k = k
  none = none
  Users = {u1, u2}
  Owner <- OwnerOf
  DedupeKeys = {k}
  DedupeKey <- KeyOf
  NoKey = none
  Messages = {m1, m2}
  Watches = {w1}
  MaxWatchId = 1
  MaxEventId = 2
  Hits <- SomeHits
  Malformed = {}
  Wordless = {}
  Requests = {r1}
  Ops = {"add"}
  Blocked = {}
  Unreachable = {}
  MaxLostAcks = 0
  Files <- NewFile
  MaxCrashes = 0
SYMMETRY Interchangeable
INVARIANTS
  NoDuplicateAlerts
CHECK_DEADLOCK FALSE
