\* Two threads, two cells, two calls of any kind, one failing operation.
CONSTANTS
    NULL = NULL
    Senders = {t1, t2}
    Cells = {c1, c2}
    Kinds = {"data", "file", "ping"}
    Sizes = {0, 3}
    BytesAvailable = 2
    ResponseErrors = {"unavailable"}
    StatusErrors = {"cancel"}
    MaxCalls = 2
    MaxFailures = 1
SPECIFICATION Spec
SYMMETRY Symmetry
INVARIANTS
    SessionsHold
    ResultIsHonest
    ReleasesExactly
    CallerIsWoken
CHECK_DEADLOCK FALSE
