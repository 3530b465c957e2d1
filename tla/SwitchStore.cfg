SPECIFICATION FairSpec
CONSTANTS
  None = None
  c1 = c1
  c2 = c2
  c3 = c3
  s1 = s1
  s2 = s2
  q = q
  r = r
  m = m
  Session = {s1, s2}
  Name = {q, r}
  Msg = {m}
  Conn = {c1, c2}
  Request <- SendersRequests
  Persistent = TRUE
  PushMayFail = TRUE
  MayCrash = FALSE
  MaxId = 2
  JournalSize = 1
  MaxCrash = 0
PROPERTIES Answered ImplementsStore
CHECK_DEADLOCK FALSE
