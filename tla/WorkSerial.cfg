SPECIFICATION Spec
CONSTANTS
  None = None
  default = default
  parallel = parallel
  nested = nested
  receive = receive
  check = check
  s1 = s1
  s2 = s2
  MaxParallelAtoms = 1
  Redirectors <- DefaultOnly
  NTags = 2
  NWork = 6
  TagOf <- SerialTags
  Home <- SerialHome
  Check <- SerialCheck
  Atoms <- NoAtoms
  Alias <- NoAlias
  MayExpire = FALSE
  NWorkers = 2
  StartSize = 2
  Setter = {}
  SizeOf <- OneSetter
INVARIANTS NothingLost Serialised RoundRobin CheckCovered
CHECK_DEADLOCK FALSE
