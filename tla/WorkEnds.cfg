SPECIFICATION FairSpec
CONSTANTS
  None = None
  default = default
  parallel = parallel
  nested = nested
  receive = receive
  check = check
  s1 = s1
  s2 = s2
  MaxParallelAtoms = 1
  Redirectors <- Levels
  NTags = 3
  NWork = 2
  TagOf <- AtomTags
  Home <- AtomHome
  Check <- NoCheck
  Atoms <- AtomAtoms
  Alias <- AtomAlias
  MayExpire = TRUE
  NWorkers = 6
  StartSize = 2
  Setter = {s1, s2}
  SizeOf <- DownAndUp
INVARIANTS PoolSized
PROPERTY EveryItemEnds
CHECK_DEADLOCK FALSE
