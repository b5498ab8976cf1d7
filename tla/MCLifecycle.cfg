\* One service with a thread, one thread of the application.
CONSTANTS
    App = {"t"}
    Instance = {"i", "j"}
    Service = {"firmware"}
    Null = Null
SPECIFICATION Spec
INVARIANTS
    ResourcesHold
    UseFindsInstance
PROPERTIES
    Progress
\* A stop by CCFSM beside a start, and a stop beside that, may wait for ever:
\* the system may stop there.
CHECK_DEADLOCK FALSE
