\* One reminder and everything that can happen around it in three ticks: a missed
\* occurrence, a snooze, a play, a cancellation, a fault and a crash.
CONSTANTS
    Ids = {r1}
    NoTime = NoTime
    Period = 1
    SkipLimit = 2
    IdleSleep = 2
    ErrorSleep = 1
    MaxTime = 2
    MaxActs = 1
    MaxFaults = 1
    MaxCrashes = 1
SPECIFICATION FairSpec
INVARIANTS
    TypeOK
    NoLostWake
    MissedFireOnce
PROPERTIES
    CancelHolds
    DueFires
    SnoozedReturns
