\* A cancel while the application handles the request.
CONSTANTS
    NULL = NULL
    Cells = {c1, c2}
    ReceiveSupported = TRUE
    DataCallback = TRUE
    StatusCallback = TRUE
    MaxRequestSize = 1
    PacketSizes = {1}
    ResponseSizes = {1}
    ErrorSize = 1
    BytesAvailable = 1
    MaxLength = 2
    MaxSessions = 2
    MaxMallocFailures = 0
SPECIFICATION Spec
INVARIANT ContextOutlivesCallback
CHECK_DEADLOCK FALSE
