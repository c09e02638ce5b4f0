CONSTANTS
    k1 = k1
    k2 = k2
    Clients = {c1, c2}
    Keys = {k1, k2}
    Hash <- MCHash
    Text = Text
    Numbers = {0, 1, 2, 3}
    Requests <- MCRequests
    Workloads <- MCWorkloads
    MaxEntries = 3
    Increment = 2
    MaxBuckets = 2
    Stride = 1
    UsedMax = 2
    VolumeMax = 1
    Reserve = 1
    Batch = 2
    None = None
SYMMETRY Symmetry
SPECIFICATION Spec
INVARIANTS TableInv RefsExact
PROPERTY RefinesAtomic
CHECK_DEADLOCK FALSE
