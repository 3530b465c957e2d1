SPECIFICATION Spec
CONSTANTS
    Jobs <- JobsValue
    SectorSize = 2
    ClusterSize = 4
    EntriesPerTable = 2
    RefcountsPerBlock = 2
    MaxL1Entries = 3
    Clusters = 3
    MayDiscard = TRUE
INVARIANT RefcountsTrue
CHECK_DEADLOCK FALSE
