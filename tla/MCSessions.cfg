SPECIFICATION Spec
CONSTANTS
    Users = {u1, u2}
    Tokens = {t1, t2, t3}
    Slots = {s1, s2}
    None = None
    u1 = u1
    u2 = u2
    t1 = t1
    t2 = t2
    t3 = t3
    s1 = s1
    s2 = s2
SYMMETRY Symmetry
CONSTRAINT TokensSuffice
INVARIANTS
    ReplacedIsRevoked
    SingleSession
    ExchangedOnce
    ReuseEndsEverySession
PROPERTIES
    OthersKeepTheirSession
CHECK_DEADLOCK FALSE
