SPECIFICATION FairSpec
CONSTANTS
  None = None
  a = a
  b = b
  Rpc = {a, b}
  Timed = {b}
  Svc = svc
  Reply = reply
  Client = client
  MaxFaults = 1
INVARIANTS NoReplyPassedOver Correlated ProcessedOnce
PROPERTIES Returns Drained
CHECK_DEADLOCK FALSE
