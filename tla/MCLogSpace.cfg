CONSTANTS
    Engines = {1, 2}
    s1 = s1
    s2 = s2
    Storages = {s1, s2}
    StorageNodes <- TwoReplicas
    IndexEngines = {}
    NumTailEntries = 1
    MaxLocalId = 2
    MaxAppends = 3

SPECIFICATION Spec
INVARIANTS
    LiteModeSkipsNothing
    OneTotalOrder
    AckedIsStored
PROPERTIES
    ImplementsSharedLog
CHECK_DEADLOCK FALSE
