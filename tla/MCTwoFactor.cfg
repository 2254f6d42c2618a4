SPECIFICATION MCSpec
CONSTANTS
    Secrets = {s1, s2}
    Codes = {x1, x2, x3, x4}
    BatchSize = 2
    FactorCalls = {r1, r2}
    NoSecret = NoSecret
    Password = Password
    NoProof = NoProof
SYMMETRY Symmetry
INVARIANTS
    SpentStaysSpent
    IssuedStayUsable
