CONSTANTS
    LogKeys <- MCLogKeys
    LogShards <- MCLogShards
    CutEnds <- MCCutEnds
    ViewId = 1
    Keys = {"a", "b"}
    MaxQueries = 1
    NDEBUG = TRUE

SPECIFICATION Spec
CHECK_DEADLOCK FALSE

INVARIANT ReadsSeeTheirProgress
