\* Two threads of the application beside the connector thread, memory for two targets.
CONSTANTS
    App = {t, u}
    Name = {a, b}
    Cell = {x, y}
    Connector = Connector
    Null = Null
    MaxFailures = 1
SPECIFICATION TargetsSpec
SYMMETRY Symmetric
INVARIANTS
    TargetsHold
CHECK_DEADLOCK FALSE
