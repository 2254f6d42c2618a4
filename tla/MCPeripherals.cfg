SPECIFICATION MCSpec
CONSTANTS
    TrackKeys = {tracks}
    UserKeys = {profile}
    TracksFresh = 1
    UserFresh = 2
    Calls = {c1, c2}
    HttpTimeout = 1
    TripAt = 2
    MaxRequests = 2
    Interval = 1
    OpenFor = 2
    Tabs = {t1, t2}
    Users = {u1, u2}
    States = {s1, s2}
    Life = 1
    Stale = Stale
    Streams = {f1, f2, f3}
    Decoders = {d1, d2, d3}
    Savers = {v1, v2}
    StoredKeys = {k1, k2}
    Starter = starter
    MaxTries = 2
    MaxFailures = 2
    Modulus = 16
    MaxCounter = 2
    NumCPU = 1
    CoreLines = {0, 1}
    Loads = {0, 1, 3}
    SampleAge = 2
    Addresses = {a, b, c}
    Burst = 2
    MaxEntries = 1
    IdleFor = 3
    MaxMessages = 2
    PageViews <- MCViews
    MaxViews = 2
    Recent = 1
    Limit <- MCLimit
    Everywhere = "all"
    None = "none"
INVARIANTS
    FreshIsRecent
    LinksItsUser
    StreamsReadTheirOwn
    SavesSucceed
    ReportAddsUp
PROPERTIES
    BreakerRecovers
    UsageIsBusyTime
    AddressHasItsBucket
CHECK_DEADLOCK FALSE
