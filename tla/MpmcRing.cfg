CONSTANTS
    Producers = {p1, p2}
    Consumers = {c1, c2}
    Values = {v1, v2}
    Size = 2
    MaxStamp = 4
SPECIFICATION SharedSpec
SYMMETRY Symmetry
INVARIANTS RingInv NodeExclusive ValueByStamp EarliestFirst MemoryExact StreamExact 
PROPERTY RefinesFifo
CHECK_DEADLOCK FALSE
