SPECIFICATION FairSpec
CONSTANTS
  m1 = m1
  m2 = m2
  m3 = m3
  w1 = w1
  w2 = w2
  w3 = w3
  w4 = w4
  u1 = u1
  u2 = u2
  u3 = u3
  k = k
  none = none
  Users = {u1, u2, u3}
  Owner <- OwnerOf
  DedupeKeys = {k}
  DedupeKey <- KeyOf
  NoKey = none
  Messages = {m1, m2}
  Watches = {w1, w2, w3, w4}
  MaxWatchId = 2
  MaxEventId = 4
  Hits <- SomeHits
  Malformed = {w4}
  Wordless = {}
  Requests = {}
  Ops = {"add"}
  Blocked = {u2}
  Unreachable = {u3}
  MaxLostAcks = 0
  Files <- OldFiles
  MaxCrashes = 1
INVARIANTS
  DuplicatesOverlap
PROPERTIES
  StartupCompletes
  MatchReachesOwner
  AlertsSettle
CHECK_DEADLOCK FALSE
