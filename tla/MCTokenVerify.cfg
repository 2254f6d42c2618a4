SPECIFICATION MCSpec
CONSTANTS
    ApiTokens = {t1, t2}
    Verifiers = {v1, v2}
    Revokers = {r1}
    CacheTTL = 1
    MaxCacheSize = 1
    Lifetimes = {1}
    Never = Never
    NoToken = NoToken
    NoEntry = NoEntry
SYMMETRY Symmetry
INVARIANTS
    QuietRevokeIsFinal
    StaleHitBounded
PROPERTIES
    AcceptsOnlyLiveTokens
