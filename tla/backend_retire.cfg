SPECIFICATION Spec
CONSTANTS
    t1 = t1
    t2 = t2
    blank = blank
    Blank = blank
    Gone = Gone
    Skipped = Skipped
    Files <- MCTwoFiles
    Changing <- MCTwoFiles
    Contents <- MCOneText
    MaxPasses = 2
    Faults = {"crash"}
INVARIANTS
    RetiredIsWritten
