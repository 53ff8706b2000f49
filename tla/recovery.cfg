\* One lost session, one manual reconnect and one step of the world around them,
\* in any order with the health loop, the reconnect task and the actor.
CONSTANTS
    Tracks = {t1}
    NoTrack = NoTrack
    GiveUpAfter = 2
    MaxWorld = 1
    MaxDrops = 1
    MaxManual = 1
SPECIFICATION FairSpec
INVARIANTS
    TypeOK
    OneReconnectAtATime
PROPERTIES
    HandOffIsRespected
    ManualReconnectStands
    ReconnectSettles
    Recovers
