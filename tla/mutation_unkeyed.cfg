SPECIFICATION Spec
CONSTANTS
    a = a
    b = b
    c = c
    m = m
    write = write
    other = other
    lib = lib
    NoId = NoId
    NoReq = NoReq
    Ids = {m}
    Lanes = {lib}
    Reqs = {a, c}
    Payloads = {write, other}
    Payload <- MCMixed
    Mid <- MCMid
    LaneOf <- MCLaneOf
    Optimistic = {write, other}
    Reconcilable = {write, other}
    Creates = {}
    Tries = 2
    MaxFaults = 2
    MaxCrashes = 1
INVARIANTS RowsAgree UncertainIsReconciled  LanesSerialize
PROPERTIES TerminalIsFinal ImplementsOnce
