SPECIFICATION FairSpec
CONSTANTS
    c1 = c1
    c2 = c2
    Conns <- TwoConns
INVARIANTS
    TypeOK
    RegistryExact
    AcceptsOne
PROPERTIES
    Freed
    DestroyedDrains
CHECK_DEADLOCK FALSE
