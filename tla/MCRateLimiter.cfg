SPECIFICATION Spec
CONSTANTS
    Keys = {k1, k2, k3}
    Limit <- TwoEach
    Window = 2
    IdleEvict = 3
    MaxKeys = 2
    MaxWait = 1
    Requests = {r1, r2, r3}
    NoKey = NoKey
SYMMETRY Symmetry
INVARIANTS
    BurstAndRefill
PROPERTIES
    BucketPerKey
