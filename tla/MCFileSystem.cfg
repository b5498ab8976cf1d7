\* A session of CCFSM, and threads that add and remove virtual directories.
CONSTANTS
    Session = {"s"}
    App = {"t", "u"}
    VDir = {"a", "b"}
    LocalDir = {"x"}
    Entry = {"e1", "e2"}
    Casts <- MCCasts
    Root = "root"
    Null = "null"
SPECIFICATION Spec
INVARIANTS
    NothingLeft
    ReportIsTrue
    DirectoriesHold
PROPERTIES
    Progress
