SPECIFICATION Spec
CONSTANTS
  m1 = m1
  m2 = m2
  m3 = m3
  w1 = w1
  w2 = w2
  w3 = w3
  w4 = w4
  u1 = u1
  u2 = u2
  u3 = u3
  k = k
  none = none
  Users = {u1, u2}
  Owner <- OwnerOf
  DedupeKeys = {k}
  DedupeKey <- KeyOf
  NoKey = none
  Messages = {m1}
  Watches = {w1, w2}
  MaxWatchId = 2
  MaxEventId = 2
  Hits <- AllHits
  Malformed = {}
  Wordless = {}
  Requests = {r1, r2, r3}
  Ops = {"add", "remove"}
  Blocked = {}
  Unreachable = {}
  MaxLostAcks = 0
  Files <- NewFile
  MaxCrashes = 0
SYMMETRY Interchangeable
INVARIANTS
  MarkedOnlyAfterAttempt
CHECK_DEADLOCK FALSE
