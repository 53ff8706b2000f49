\* One play of a bookmark or a notification, which takes no lane, and one poll.
CONSTANTS
    t1 = t1
    home = home
    away = away
    Tracks = {t1, t2}
    NoTrack = NoTrack
    Commands = {c1}
    Polls = {p1}
    Providers = {home, away}
    Embedded = home
    HomeOf <- MCHome
    Reported <- MCReported
    Kinds = {"direct"}
    EventKinds = {}
    MaxEvents = 0
    MaxPolls = 1
SPECIFICATION Spec
PROPERTIES
    DurableNeverGoesBack
CHECK_DEADLOCK FALSE
