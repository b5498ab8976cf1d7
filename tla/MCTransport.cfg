\* Each of the transports.
CONSTANTS
    Kinds = {"tcp", "udp", "sms"}
SPECIFICATION TransportSpec
INVARIANTS
    StartIsHonest
    InfoHolds
PROPERTIES
    StopReturns
\* A start without a time limit waits for ever when its connection was lost
\* and the application does not want another: the system may stop there.
CHECK_DEADLOCK FALSE
