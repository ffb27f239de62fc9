CONSTANTS
    s1 = s1
    s2 = s2
    Projects <- MCProjects
    Queries <- MCQueries
    Requests <- MCRequests
    Alike <- MCAlike
    Distance <- MCDistance
    Weight <- MCWeight
    Branch <- MCBranch
    Fronts <- AllFronts
    Asks <- MCAsks
    Configs <- MCConfigs
    Tasks = {s1, s2}
    Orders <- MCOrders
    CacheSize = 1
    MaxSearches = 3
    Faults <- Legs
    MaxFailures = 1
SPECIFICATION ToolsSpec
SYMMETRY TaskSymmetry
INVARIANTS
    TypeOK
    CachedAreOwn
    EdgesAreImports
    CallsFindDefinitions
    ImpactIsWhole
CHECK_DEADLOCK FALSE
