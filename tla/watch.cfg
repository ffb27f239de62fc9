SPECIFICATION FairSpec
CONSTANTS
    MaxVersion = 4
    MaxStarts = 2
    Faults <- FaultKinds
INVARIANTS
    TypeOK
    NoChangeForgotten
    OnePassAtATime
PROPERTIES
    EditsAreIndexed
