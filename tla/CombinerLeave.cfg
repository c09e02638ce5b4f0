CONSTANTS
    Callers = {t1, t2, t3}
    Size = 4
    Handoff = 4
    MaxStamp = 5
    p1 = p1
    c1 = c1
    v1 = v1
    v2 = v2
SPECIFICATION FairParts
INVARIANT LeavesExecuted
CHECK_DEADLOCK FALSE
