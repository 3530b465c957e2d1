SPECIFICATION Spec
CONSTANTS
    Jobs <- JobsValue
    SectorSize = 2
    ClusterSize = 4
    EntriesPerTable = 2
    RefcountsPerBlock = 2
    MaxL1Entries = 3
    Clusters = 5
    MayDiscard = FALSE
INVARIANTS Restores RefcountsTrue OnlyDifferences
PROPERTY Ends
CHECK_DEADLOCK FALSE
