SPECIFICATION FairSpec
CONSTANTS
    Conns = {c1, c2}
    Names = {n1, n2, n3}
    None = None
    Capacity = 2
    Lifetime = 2
    AdminLifetime = 3
    Minute = 1
    Backdate = 2
    CAEnd = 3
    MaxTime = 3
    MaxBack = 1
INVARIANTS
    Coherent
    ServedValid
PROPERTIES
    LruSpec
    Answered
