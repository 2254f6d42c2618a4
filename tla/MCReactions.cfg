SPECIFICATION Spec
CONSTANTS
    Slugs = {s1, s2}
    Users = {u1, u2}
    Types = {t1, t2}
    OtherTypes = {other}
    Requests = {r1, r2}
    NoReaction = NoReaction
    Nobody = Nobody
SYMMETRY Symmetry
INVARIANTS
    AnswerAgrees
PROPERTIES
    TogglesAreAtomic
