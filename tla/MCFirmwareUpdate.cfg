\* One target, every path of the handlers, two downloads, restarts included.
CONSTANTS
    t1 = t1
    t2 = t2
    BadTarget = BadTarget
    Targets = {t1}
    PoolSize = 2
    ConfigChunkSize <- MCChunkSize
    MaximumSize <- MCMaximumSize
    RecvPacketSize = 2
    CodeSizes = {5, 6}
    PacketSizes = {1, 3}
    CancelCallback = TRUE
    RestartAllowed = TRUE
    MaxStarts = 2
    MaxMallocFailures = 1
SPECIFICATION Spec
INVARIANTS
    TypeOK
    TailInUse
    CallbackReadsImage
PROPERTIES
    ImplementsDownload
CHECK_DEADLOCK FALSE
