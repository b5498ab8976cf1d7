\* Two cells, two sessions, one failing allocation, cancels at any time.
CONSTANTS
    NULL = NULL
    Cells = {c1, c2}
    ReceiveSupported = TRUE
    DataCallback = TRUE
    StatusCallback = TRUE
    MaxRequestSize = 1
    PacketSizes = {1}
    ResponseSizes = {0, 3}
    ErrorSize = 2
    BytesAvailable = 2
    MaxLength = 2
    MaxSessions = 2
    MaxMallocFailures = 1
SPECIFICATION Spec
INVARIANTS
    TypeOK
    SlotIsQueued
    RequestIsWhole
    ReplyIsAnswer
    ReportIsHonest
    ResponseComesBack
PROPERTIES
    Progress
CHECK_DEADLOCK FALSE
