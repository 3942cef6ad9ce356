SPECIFICATION Spec
CONSTANTS
    People = {p1, p2}
    MixedCase = {p2}
    Direct = {p1}
    Invites = {i1, i2}
    Slots = {s1, s2}
    None = None
    p1 = p1
    p2 = p2
    i1 = i1
    i2 = i2
    s1 = s1
    s2 = s2
SYMMETRY Symmetry
INVARIANTS
    MembersWereInvited
    OnePendingPerPerson
    AcceptedHasJoined
PROPERTIES
    AcceptKeepsRole
CHECK_DEADLOCK FALSE
