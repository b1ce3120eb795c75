CONSTANTS
    Conns = {c1, c2}
    Callers = {t1, t2}
    NoOwner = "nobody"
SPECIFICATION RuntimeSpec
SYMMETRY Symmetry
INVARIANTS
    AnswersAreTrue NothingIsForgotten
    EveryCallEnds
    OpsAreAnswered
    SendsInOrder
    MessagesArrive
    InvocationsAreTrue
    CallbacksAreTrue
    RequestsAreServed
    ReadsAreTrue
    NoWakeUpIsLost ConnectionsAreReturned
CHECK_DEADLOCK FALSE
