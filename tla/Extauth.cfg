SPECIFICATION FairSpec
CONSTANTS
    u = u
    g = g
    Subjects = {u, g}
    KindOf <- KindOfValue
    NssFile <- NssFileValue
    SshdFile <- SshdFileValue
    NssKeys <- NssKeysValue
    SshdKeys <- SshdKeysValue
    ReloadMayFail = TRUE
    SwitchAnyTime = FALSE
    MaxChanges = 2
    MaxSwitches = 1
    MaxCrashes = 1
INVARIANTS ListsExact FilesAgree OtherLinesKept
PROPERTY RevokedLeaves
CHECK_DEADLOCK FALSE
