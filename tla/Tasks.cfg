SPECIFICATION FairSpec
CONSTANTS
    t1 = t1
    t2 = t2
    t3 = t3
    k1 = k1
    k2 = k2
    k3 = k3
    None = None
    Threads <- ThreeThreads
    Tasks <- ThreeTasks
    Fixed <- OneFixed
    RingSize = 2
    SendMax = 2
    Wrap = 8
    MaxTasks = 4
    RequestThreshold = 2
    DistributeThreshold = 3
    PeerLimit = 1
    QueueSize = 1
INVARIANTS ListInv ShareInv
PROPERTIES FifoSpec TasksExecuted
