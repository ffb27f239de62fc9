SPECIFICATION Spec
CONSTANTS
    i1 = i1
    i2 = i2
    Inst <- MCTwoInst
    Other = Other
    MaxGen = 4
    MaxVersion = 2
    Indexed = TRUE
    Faults <- SharedLease
    None = None
INVARIANTS
    TypeOK
    ActiveIsWhole
PROPERTIES
    PublishesWhole
