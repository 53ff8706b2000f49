SPECIFICATION Spec
CONSTANTS
    a = a
    b = b
    c = c
    m = m
    write = write
    other = other
    lib = lib
    NoId = NoId
    NoReq = NoReq
    Ids = {m}
    Lanes = {lib}
    Reqs = {a, b}
    Payloads = {write, other}
    Payload <- MCReused
    Mid <- MCMid
    LaneOf <- MCLaneOf
    Optimistic = {other}
    Reconcilable = {write}
    Creates = {}
    Tries = 2
    MaxFaults = 1
    MaxCrashes = 1
PROPERTIES TasksEnd  CrashedClaimsSettle
