SPECIFICATION Spec
CONSTANTS
    Workers = {w1, w2}
    Tokens = {t1, t2, t3, t4}
    NoToken = NoToken
    Required = 1
    MaxFailures = 1
    MaxFaults = 2
    MaxReplays = 1
    MaxCrashes = 1
INVARIANTS Attended
PROPERTIES ClaimedCompletes RestartConverges
