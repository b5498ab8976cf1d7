\* Two cells, three sessions, a failing allocation, cancels at any time.
CONSTANTS
    Cell = {x, y}
    Null = Null
    PacketSizes = {1, 2}
    OutputSizes = {0, 2}
    ErrorSize = 2
    BytesAvailable = 2
    MaxLength = 2
    MaxSessions = 3
    MaxFailures = 1
SPECIFICATION Spec
INVARIANTS
    SessionHolds
    AnswerHolds
PROPERTIES
    Progress
CHECK_DEADLOCK FALSE
