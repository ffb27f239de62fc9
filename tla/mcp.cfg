SPECIFICATION FairSpec
CONSTANTS
    m1 = m1
    m2 = m2
    Servers <- MCTwo
    MaxGen = 3
    MaxEdits = 2
    RootIndexed = TRUE
    Indexed = FALSE
    Faults <- All
    Daemon = Daemon
    None = None
INVARIANTS
    TypeOK
    OpenIsActive
    NoChangeForgotten
PROPERTIES
    RefreshEnds
CHECK_DEADLOCK FALSE
