SPECIFICATION Spec
CONSTANTS
    g1 = g1
    h1 = h1
    e1 = e1
    e2 = e2
    NoUser = NoUser
    NoIdentity = NoIdentity
    NoEmail = NoEmail
    Users = {u1, u2}
    Identities = {g1, h1}
    Emails = {e1, e2}
    ProviderOf <- ProviderOfTwo
    EmailOf <- SameAddress
    Callers = {c1, c2}
SYMMETRY Symmetry
INVARIANTS
    RegisteredOnce
    AdminAddressStays
PROPERTIES
    OwnerIsStable
    UnlinkKeepsMethod
