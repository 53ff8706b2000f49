SPECIFICATION Spec
CONSTANTS
    Workers = {w1, w2, w3}
    Tokens = {t1, t2, t3, t4, t5}
    NoToken = NoToken
    Required = 2
    MaxFailures = 1
    MaxFaults = 2
    MaxReplays = 2
    MaxCrashes = 1
SYMMETRY MCSymmetry
INVARIANTS TypeOK OneSyncAtATime CompletedIsEarned Attended
PROPERTIES ImplementsStablePasses
