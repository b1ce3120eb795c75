CONSTANTS
    p = p   b1 = b1   b2 = b2
    e1 = e1   s1 = s1   s2 = s2
    Primary = p
    Backups = {b1, b2}
    Engines = {e1}
    Storages = {s1}
    StorageNodes <- AllStorages
    NumTailEntries = 1
    MaxLocalId = 2
SPECIFICATION Spec
INVARIANT GapsAreCaughtUp
CHECK_DEADLOCK FALSE
