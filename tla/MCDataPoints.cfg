\* Two threads, three streams, in memory for three.
CONSTANTS
    Thread = {t, u}
    Id = {a, b, c}
    Block = {x, y, z}
    MaxPoints = 1
    MaxBroken = 1
    Width = 4
    Null = Null
SPECIFICATION Spec
SYMMETRY Symmetric
INVARIANTS
    CollectionHolds
    ChainIsList
    SendAwaitsCcfsm
PROPERTIES
    OnlySentIsFreed
