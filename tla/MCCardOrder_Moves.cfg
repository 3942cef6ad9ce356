SPECIFICATION Spec
CONSTANTS
    Cards = {c1, c2}
    Columns = {k1}
    FirstColumns = {k1}
    Slots = {s1, s2}
    BoardOf <- OneBoard
    Positions <- Doubles
    Refs = {1, 6, 16}
    Titles = {t1}
    Ops = {"create", "move", "archive", "unarchive", "delete", "deleteColumn"}
    t1 = t1
    Step = 4
    MinGap = 3
    MaxRequests = 4
    None = None
    c1 = c1
    c2 = c2
    k1 = k1
    s1 = s1
    s2 = s2
SYMMETRY Symmetry
INVARIANTS
    TypeOK
    PlacedWhereAsked
    RebalanceMakesRoom
PROPERTIES
    OrderOfOthersKept
CHECK_DEADLOCK FALSE
