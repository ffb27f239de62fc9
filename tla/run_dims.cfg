SPECIFICATION FairSpec
CONSTANTS
    f1 = f1
    f2 = f2
    c1 = c1
    c2 = c2
    pA = pA
    pB = pB
    File <- MCFile
    PathOrder <- MCPathOrder
    Content <- MCContent
    Unparsable <- MCUnparsable
    Imports <- MCImports
    Provider <- MCTwoProvider
    DimOf <- MCTwoDims
    BatchSize = 1
    Events <- AllButEdits
    MaxStamp = 2
    MaxRuns = 2
    None = None
INVARIANTS
    FitsTable
PROPERTIES
    RunTerminates
    
