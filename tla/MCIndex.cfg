CONSTANTS
    LogKeys <- MCLogKeys
    LogShards <- MCLogShards
    CutEnds <- MCCutEnds
    ViewId = 1
    Keys = {"a", "b"}
    MaxQueries = 1
    NDEBUG = FALSE

SPECIFICATION LiveSpec
CHECK_DEADLOCK FALSE

INVARIANTS
    ReadsSeeTheirProgress
    ReadsMissNothing
PROPERTIES
    ReadsReturn
    BlockingReadsFind
