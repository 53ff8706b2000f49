\* One command, one poll, two providers, and two player events or restarts.
CONSTANTS
    t1 = t1
    home = home
    away = away
    Tracks = {t1, t2}
    NoTrack = NoTrack
    Commands = {c1}
    Polls = {p1}
    Providers = {home, away}
    Embedded = home
    HomeOf <- MCHome
    Reported <- MCReported
    Kinds = {"play", "transfer"}
    EventKinds = {"started", "deactivated"}
    MaxEvents = 2
    MaxPolls = 1
SPECIFICATION Spec
INVARIANTS
    TypeOK
    CommittedRowStands
PROPERTIES
    OvertakenPollIsInert
    DurableNeverGoesBack
    HandOffHolds
\* The requests and events are finitely many: then nothing is left to do.
CHECK_DEADLOCK FALSE
