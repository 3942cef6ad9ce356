SPECIFICATION Spec
CONSTANTS
    Requests = {q1, q2}
    Buckets = {b1, b2, b3}
    MaxTokens = 2
    Window = 2
    Second = 2
    IdleLimit = 4
    Horizon = 10
    NoBucket = NoBucket
SYMMETRY Symmetry
INVARIANTS
    WindowBound
PROPERTIES
    RetryAfterSuffices
    DeniedOnlyWhenUsedUp
CHECK_DEADLOCK FALSE
