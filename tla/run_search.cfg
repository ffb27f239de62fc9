SPECIFICATION Spec
CONSTANTS
    f1 = f1
    f2 = f2
    c1 = c1
    c2 = c2
    pA = pA
    pB = pB
    File <- MCOneFile
    PathOrder <- MCPathOrder
    Content <- MCContent
    Unparsable <- MCParsable
    Imports <- MCNoImports
    Provider <- MCTwoProvider
    DimOf <- MCTwoDims
    BatchSize = 1
    Events <- SearchOnly
    MaxStamp = 1
    MaxRuns = 2
    None = None
PROPERTIES
    DroppedIsReindexed
