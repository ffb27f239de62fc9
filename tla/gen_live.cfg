SPECIFICATION FairSpec
CONSTANTS
    i1 = i1
    i2 = i2
    Inst <- MCTwoInst
    Other = Other
    MaxGen = 3
    MaxVersion = 0
    Indexed = FALSE
    Faults <- CrashFailRename
    None = None
INVARIANTS
    SearcherIsActive
PROPERTIES
    RunEnds
