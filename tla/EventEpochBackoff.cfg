SPECIFICATION BackoffSpec
CONSTANTS
    s1 = s1
    s2 = s2
    s3 = s3
    N = 2
    Sinks <- ThreeSinks
    Owners <- TwoAndOne
    PostCount = 1
    MaxCalls = 1
INVARIANTS NoEventAfterReclaim
