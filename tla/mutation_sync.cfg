SPECIFICATION Spec
CONSTANTS
    a = a
    b = b
    c = c
    m = m
    write = write
    other = other
    lib = lib
    NoId = NoId
    NoReq = NoReq
    Ids = {m}
    Lanes = {lib}
    Reqs = {a, b}
    Payloads = {write}
    Payload <- MCSame
    Mid <- MCMid
    LaneOf <- MCLaneOf
    Optimistic = {}
    Reconcilable = {write}
    Creates = {write}
    Tries = 2
    MaxFaults = 2
    MaxCrashes = 1
INVARIANTS TypeOK RowsAgree AtMostOnce AnswersTellDurableOutcome UncertainIsReconciled
