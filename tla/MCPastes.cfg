SPECIFICATION Spec
CONSTANTS
    Pastes = {p1, p2}
    Slugs = {s1, s2}
    Burn = {p1}
    Locked = {p1}
    Contexts = {c1, c2}
    Http = {c1}
    Counters = {k1, k2}
    MaxRetries = 2
    MaxReads = 2
    NoPaste = NoPaste
    NoSlug = NoSlug
    NoContext = NoContext
SYMMETRY Symmetry
INVARIANTS
    ViewsAreReads
PROPERTIES
    NoReadAfterBurn

