SPECIFICATION FairSpec
CONSTANTS
    t1 = t1
    t2 = t2
    t3 = t3
    Threads <- Three
    MaxStamp = 1
INVARIANTS ListenInv NoLostWakeup
PROPERTIES CallsHandled
