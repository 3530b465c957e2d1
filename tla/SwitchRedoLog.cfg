SPECIFICATION Spec
CONSTANTS
  None = None
  c1 = c1
  c2 = c2
  c3 = c3
  s1 = s1
  s2 = s2
  q = q
  r = r
  m = m
  Session = {s1, s2}
  Name = {q, r}
  Msg = {m}
  Conn = {c1, c2, c3}
  Request <- ReconnectRequests
  Persistent = TRUE
  PushMayFail = FALSE
  MayCrash = TRUE
  MaxId = 1
  JournalSize = 2
  MaxCrash = 1
INVARIANTS IndexAgrees InSync SessionKeepsQueues
CHECK_DEADLOCK FALSE
