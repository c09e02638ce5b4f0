SPECIFICATION FairParts
CONSTANTS
    t1 = t1
    t2 = t2
    w1 = w1
    w2 = w2
    Threads <- TwoThreads
    Fibers = 2
    Size = 2
    MaxStamp = 4
    Waiters <- TwoWaiters
    Timed <- OneTimed
    MaxEntries = 4
INVARIANTS AsyncInv FutureInv
PROPERTIES CallsHandled WaitersReturn
CHECK_DEADLOCK FALSE
