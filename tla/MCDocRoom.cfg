SPECIFICATION Spec
CONSTANTS
    Clients = {c1, c2}
    Rooms = {r1, r2}
    Edits = {e1, e2}
    c1 = c1
    c2 = c2
    r1 = r1
    r2 = r2
    e1 = e1
    e2 = e2
    BroadcastCap = 1
    AwarenessCap = 1
    SendCap = 1
    MaxCursorMoves = 1
    Sigterm = TRUE
    WaitMayTimeOut = TRUE
    NoRoom = NoRoom
    Nobody = Nobody
    NoMsg = NoMsg
    SyncStep1 = SyncStep1
    Presence = Presence
SYMMETRY Symmetry
INVARIANTS
    NoPanic
    OneLiveRoom
    DeliveredIsPersisted
    StreamsFollowLog
PROPERTIES
    ImplementsDocLog
CHECK_DEADLOCK FALSE
