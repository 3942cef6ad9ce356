SPECIFICATION FairSpec
CONSTANTS
    Clients = {c1, c2}
    Rooms = {r1}
    Edits = {e1}
    c1 = c1
    c2 = c2
    r1 = r1
    e1 = e1
    BroadcastCap = 1
    AwarenessCap = 1
    SendCap = 1
    MaxCursorMoves = 0
    Sigterm = TRUE
    WaitMayTimeOut = TRUE
    NoRoom = NoRoom
    Nobody = Nobody
    NoMsg = NoMsg
    SyncStep1 = SyncStep1
    Presence = Presence
PROPERTIES
    DroppedClientDisconnects
    EditReachesPeers
    DeadRoomForgotten
    ShutdownEnds
    RoomTakesWhatItIsSent
CHECK_DEADLOCK FALSE
