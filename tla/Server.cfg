SPECIFICATION PartSpec
CONSTANTS
    s1 = s1
    s2 = s2
    N = 2
    Sinks <- TwoSinks
    Owners <- Pairs
    PostCount = 0
    MaxCalls = 1
INVARIANTS EpochInv NoEventAfterReclaim BootOrdered  NoMissedReadiness
INVARIANTS SplitIndependent CommandsExact
PROPERTIES ClosedSinksDestroyed StopEnds
