CONSTANTS
    p = p   b1 = b1   b2 = b2   s1 = s1   s2 = s2
    CutEnds <- MCCutEnds
    MyEntries <- MCMyEntries
    NumTailEntries = 2
    MaxLiveEntries = 1
    Backend = "tkrzw"
    MaxReads = 2
SPECIFICATION LogSpec
INVARIANTS
    ReadsSucceed
PROPERTIES
    StoredIsPropagated
    SealCompletes
    AppendsReturn
    AppendedBecomesLive
    ReadsAreAnswered
CHECK_DEADLOCK FALSE
