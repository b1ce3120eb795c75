CONSTANTS
    Sequencers = {1, 2}
    Engines = {11, 12}
    Storages = {21}
    MetalogReplicas = 2
    UserlogReplicas = 1
    IndexReplicas = 1
    NumPhylogs = 1
    TailEntries = 1
    Late = {12}
    Clients = {12}
    Reconfigs <- MCReconfigs
    MaxViews = 2
    MaxOps = 1
SPECIFICATION Spec
INVARIANTS
    NoMessageIsFatal
    HoldsAreClaimed
PROPERTIES
    ReconfigCompletes
    
CHECK_DEADLOCK FALSE
