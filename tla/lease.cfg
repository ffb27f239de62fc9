SPECIFICATION FairSpec
CONSTANTS
    p1 = p1
    p2 = p2
    p3 = p3
    Proc <- MCProc
    Clearers <- MCOneClearer
    MaxInode = 2
    NoStatus = NoStatus
    Invalid = Invalid
INVARIANTS
    TypeOK
    MutualExclusion
    InodeExclusion
    LiveStatusIsOwn
PROPERTIES
    LockReleased
