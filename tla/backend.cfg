SPECIFICATION Spec
CONSTANTS
    t1 = t1
    t2 = t2
    blank = blank
    Blank = blank
    Gone = Gone
    Skipped = Skipped
    Files <- MCFiles
    Changing <- MCTwoFiles
    Contents <- MCContents
    MaxPasses = 2
    Faults <- NoSelf
INVARIANTS
    TypeOK
    RecordedIsFindable
    FoundIsRecorded
    NoEdgeLost
    PostedIsStored
