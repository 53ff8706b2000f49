SPECIFICATION Spec
CONSTANTS
    Workers = {w1}
    Tokens = {t1, t2, t3}
    NoToken = NoToken
    Required = 2
    MaxFailures = 0
    MaxFaults = 0
    MaxReplays = 0
    MaxCrashes = 1
PROPERTIES RestartConverges
