SPECIFICATION Spec
CONSTANTS
    Writers = {w1, w2}
    Compactors = {m1}
    Readers = {r1}
    Edits = {e1, e2, e3, e4}
    Nobody = Nobody
    NoEdit = NoEdit
    w1 = w1
    w2 = w2
    m1 = m1
    r1 = r1
    e1 = e1
    e2 = e2
    e3 = e3
    e4 = e4
SYMMETRY Symmetry
INVARIANTS
    ClocksAreDense
    NoClockConflict
    ReconnectMissesNothing
    NoEditLost
CHECK_DEADLOCK FALSE
