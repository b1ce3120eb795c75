CONSTANTS
    p = p   b1 = b1   b2 = b2
    e1 = e1   s1 = s1   s2 = s2
    Primary = p
    Backups = {b1, b2}
    Engines = {e1}
    Storages = {s1, s2}
    StorageNodes <- AllStorages
    NumTailEntries = 2
    MaxLocalId = 3
SPECIFICATION Spec
INVARIANTS
    SequencersAgree
    FinalCoversPropagated
PROPERTIES
    ImplementsMetaLogSpec
CHECK_DEADLOCK FALSE
