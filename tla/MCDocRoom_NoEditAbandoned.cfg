SPECIFICATION Spec
CONSTANTS
    Clients = {c1, c2}
    Rooms = {r1, r2}
    Edits = {e1}
    c1 = c1
    c2 = c2
    r1 = r1
    r2 = r2
    e1 = e1
    BroadcastCap = 1
    AwarenessCap = 1
    SendCap = 1
    MaxCursorMoves = 0
    Sigterm = FALSE
    WaitMayTimeOut = FALSE
    NoRoom = NoRoom
    Nobody = Nobody
    NoMsg = NoMsg
    SyncStep1 = SyncStep1
    Presence = Presence
INVARIANTS
    NoEditAbandoned
CHECK_DEADLOCK FALSE
