SPECIFICATION FairSpec
CONSTANTS
    c1 = c1
    c2 = c2
    d1 = d1
    d2 = d2
    Client <- MCTwoClients
    Daemon <- MCTwoDaemons
    Ttl = 1
    IdleTimeout = 1
    MaxEvents = 4
    Faults <- AllFaults
    Broken = Broken
    None = None
INVARIANTS
    TypeOK
    ServesAtSocket
PROPERTIES
    ReapsOnlySilent
    ClientsAreServed
    ManagedDaemonEnds
