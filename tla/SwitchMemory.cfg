SPECIFICATION Spec
CONSTANTS
  None = None
  c1 = c1
  c2 = c2
  c3 = c3
  s1 = s1
  s2 = s2
  q = q
  r = r
  m = m
  Session = {s1, s2}
  Name = {q, r}
  Msg = {m}
  Conn = {c1, c2, c3}
  Request <- RpcRequests
  Persistent = FALSE
  PushMayFail = FALSE
  MayCrash = FALSE
  MaxId = 2
  JournalSize = 2
  MaxCrash = 0
INVARIANTS TypeOK NoLostWakeup NothingSkipped SessionDeallocated
CHECK_DEADLOCK FALSE
