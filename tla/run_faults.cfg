SPECIFICATION Spec
CONSTANTS
    f1 = f1
    f2 = f2
    c1 = c1
    c2 = c2
    pA = pA
    pB = pB
    File <- MCFile
    PathOrder <- MCPathOrder
    Content <- MCContent
    Unparsable <- MCUnparsable
    Imports <- MCNoImports
    Provider <- MCTwoProvider
    DimOf <- MCSameDim
    BatchSize = 1
    Events <- EditsAndCrash
    MaxStamp = 2
    MaxRuns = 3
    None = None
INVARIANTS
    TypeOK
    CacheOfProvider
    MatchedIsIndexed
    MirrorsDisk
