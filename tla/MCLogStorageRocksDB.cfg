CONSTANTS
    CutEnds <- MCCutEnds
    MyEntries <- MCMyEntries
    NumTailEntries = 2
    MaxLiveEntries = 1
    Backend = "rocksdb"
    MaxReads = 2

SPECIFICATION Spec
CHECK_DEADLOCK FALSE

INVARIANTS
    ReadsSucceed
