\* One client; a crash, a lost and a late call, a failed pwrite, under fairness.
SPECIFICATION FairSpec

CONSTANTS
    Path = {root, f, g}
    Root = root
    NoPath = NoPath
    Unreadable = Unreadable
    MaxFh = 2
    Client = {c1}
    Slot = {s1}
    Offset = {o1}
    Gen = {1, 2}
    Writes = 2
    Draw <- DrawApart
    MaxFd = 2
    MaxLost = 1
    MaxLate = 1
    MaxCrash = 1
    MaxIOError = 1
    NoOpen = NoOpen
    NoChunk = NoChunk
    Blank = Blank

INVARIANTS
    TypeOK

PROPERTIES
    WriteBackSpec
    OpsReturn
