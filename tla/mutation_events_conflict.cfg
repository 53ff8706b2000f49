SPECIFICATION Spec
CONSTANTS
    a = a
    b = b
    c = c
    m = m
    write = write
    other = other
    lib = lib
    NoId = NoId
    NoReq = NoReq
    Ids = {m}
    Lanes = {lib}
    Reqs = {a}
    Payloads = {write}
    Payload <- MCSame
    Mid <- MCMid
    LaneOf <- MCLaneOf
    Optimistic = {}
    Reconcilable = {write}
    Creates = {}
    Tries = 2
    MaxFaults = 1
    MaxCrashes = 0
INVARIANTS FinalizedEventsAgree
