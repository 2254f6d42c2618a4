SPECIFICATION FairSpec
CONSTANTS
    NoFile = NoFile
    Files = {f1}
    Requests = {r1, r2, r3}
    Workers = {w1}
    MaxCrashes = 1
INVARIANTS
    RecordHasBlob
    NoOrphanBlob
    WebPLeftWhole
    CacheGoesWithFile
PROPERTIES
    JobsEnd
CHECK_DEADLOCK FALSE
