SPECIFICATION FairSpec
CONSTANTS
    w1 = w1
    w2 = w2
    Workers <- TwoWorkers
    WorkersMin = 1
    WorkersMax = 2
    Lowermost = 4
    MaxTasks = 2
    MaxCalls = 1
INVARIANTS StrandInv
PROPERTIES TasksTaken StopReturns
