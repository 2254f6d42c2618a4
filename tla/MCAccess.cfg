SPECIFICATION MCSpec
CONSTANTS
    Members = {u1, u2}
    Configured = {u1}
    AdminCalls = {r1, r2}
    PermissionSets <- MCPermissionSets
    TokenScopes <- MCTokenScopes
    Token = Token
    Nobody = Nobody
SYMMETRY Symmetry
PROPERTIES
    SuperadminsStay
    SuperadminsAreSafe
    EffectsAreGranted
