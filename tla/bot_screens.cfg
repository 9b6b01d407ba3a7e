SPECIFICATION Spec
CONSTANTS
  u1 = u1
  u2 = u2
  p1 = p1
  p2 = p2
  p3 = p3
  p4 = p4
  t0 = t0
  t1 = t1
  t2 = t2
  t3 = t3
  t4 = t4
  c1 = c1
  c2 = c2
  Words <- MCWords
  Begins <- MCBegins
  Short <- MCShort
  Users = {u1, u2}
  Posts = {p1, p2, p3, p4}
  PostText <- MCPostText
  Stored <- MCStored
  Rank <- MCRank
  PageSize = 2
  Texts = {t0, t1, t2, t3, t4}
  Sender <- MCSender
  Tokens <- MCTokens
  Saved <- MCSaved
  Slash = {t2, t3}
  Chatters = {u1}
  Chats = {c1, c2}
  Allowlists = {{c1}, {c2}}
  Requests = {r1, r2}
  MaxUpdates = 3
  MaxCrashes = 1
SYMMETRY Interchangeable
INVARIANTS
  TypeOK
  PageButtonsHold
  PagesAreDurable
  PagesPartition
  ResultsFollowHelp
  AnsweredPromptsClose
  LostPromptsOverlap
PROPERTIES
  SnapshotsStayFrozen
  DeleteHitsItsName
  SourcesStayWhole
CHECK_DEADLOCK FALSE
