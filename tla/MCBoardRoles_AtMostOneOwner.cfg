SPECIFICATION Spec
CONSTANTS
    Users = {u0, u1, u2}
    Joined = {u1, u2}
    Slots = {s1, s2}
    Founder = u0
    Ops <- BoardOnly
    Overlaps <- AnyTwo
    None = None
    u0 = u0
    u1 = u1
    u2 = u2
    s1 = s1
    s2 = s2
SYMMETRY Symmetry
INVARIANTS
    AtMostOneOwner
