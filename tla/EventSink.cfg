SPECIFICATION FairSpec
CONSTANTS
    t1 = t1
    t2 = t2
    t3 = t3
    None = None
    Threads <- Two
    Reports <- ReadyOrError
    MaxEvents = 2
    MaxMoves = 2
CHECK_DEADLOCK FALSE
PROPERTIES EventsDelivered
INVARIANTS SinkInv
