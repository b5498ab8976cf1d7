\* A pool of one slot and two targets, one with the default chunk size, empty
\* and short images, no cancel callback: the boundary, and progress there.
CONSTANTS
    t1 = t1
    t2 = t2
    BadTarget = BadTarget
    Targets = {t1, t2}
    PoolSize = 1
    ConfigChunkSize <- MCChunkSize
    MaximumSize <- MCMaximumSize
    RecvPacketSize = 3
    CodeSizes = {0, 4}
    PacketSizes = {1, 4}
    CancelCallback = FALSE
    RestartAllowed = TRUE
    MaxStarts = 2
    MaxMallocFailures = 1
SPECIFICATION Spec
INVARIANTS
    CompleteIsHonest
    PoolLifetime
PROPERTIES
    Progress
CHECK_DEADLOCK FALSE
