SPECIFICATION Spec
CONSTANTS
    Cards = {c1, c2}
    Columns = {k1, k2, k3}
    FirstColumns <- AllButOne
    Slots = {s1, s2}
    BoardOf <- TwoBoards
    Positions <- Doubles
    Refs = {1, 6}
    Titles = {t1}
    Ops <- CardOps
    t1 = t1
    Step = 4
    MinGap = 3
    MaxRequests = 4
    None = None
    c1 = c1
    c2 = c2
    k1 = k1
    k2 = k2
    k3 = k3
    s1 = s1
    s2 = s2
SYMMETRY Symmetry
CONSTRAINT FourOnOneBoard
INVARIANTS
    CardsStayOnBoard
    ViewFollowsEvents
CHECK_DEADLOCK FALSE
