SPECIFICATION MCSpec
CONSTANTS
    MaxRecords = 3
    Capacity = 2
    DefaultLimit = 1
    MaxLimit = 2
    RequestLimits = {0, 3}
    GrpcCalls = {unary, watch}
    HttpCalls = {upload, events}
    Streams = {watch, events}
    Jobs = {j1, j2}
    MaxStarts = 2
CHECK_DEADLOCK FALSE
INVARIANTS
    WalkMissesNothing
    PoolOutlivesItsUsers
PROPERTIES
    SinkKeepsDraining
    ExitCutsNobody
    ShutdownFinishes
    NoJobForgotten
