SPECIFICATION FairSpec
CONSTANTS
    Clients = {c1, c2}
    Rooms = {r1, r2}
    Events = {e1, e2}
    c1 = c1
    c2 = c2
    r1 = r1
    r2 = r2
    e1 = e1
    e2 = e2
    BroadcastCap = 1
    SendCap = 1
    Sigterm = TRUE
    MayTimeOut = FALSE
    NoRoom = NoRoom
    UserJoined = UserJoined
INVARIANTS
    NoPanic
    PublishersReachMembers
    FeedWithoutGap
PROPERTIES
    ChangeReachesMembers
    DroppedClientDisconnects
    HeldOnlyByDeadRoom
CHECK_DEADLOCK FALSE
