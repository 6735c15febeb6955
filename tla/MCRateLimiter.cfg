CONSTANTS
    c1 = c1  c2 = c2  c3 = c3
    Clients = {c1, c2, c3}
    Limit = 2
    Window = 1
    Second = 2
    PurgeAt = 2
    MaxNow = 4
SPECIFICATION Spec
INVARIANTS TypeOK AtMostTwiceLimit RetryAfterSuffices MapBounded
PROPERTY ImplementsFixedWindow
SYMMETRY Symmetric
