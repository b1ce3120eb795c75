SPECIFICATION Spec
INVARIANTS
    ViewsReplayTheLog OutcomesFollowTheLog
    PopsFollowTheLog
    SequentialInOrder
PROPERTIES
    FunctionsReturn
    EveryPushIsPopped
    WatcherCatchesUp
CHECK_DEADLOCK FALSE
