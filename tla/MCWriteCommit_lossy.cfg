\* One client with two open files; requests and replies are lost.
SPECIFICATION Spec

CONSTANTS
    Path = {root, f, g}
    Root = root
    NoPath = NoPath
    Unreadable = Unreadable
    MaxFh = 2
    Client = {c1}
    Slot = {s1, s2}
    Offset = {o1}
    Gen = {1, 2, 3}
    Writes = 3
    Draw <- DrawApart
    MaxFd = 2
    MaxLost = 2
    MaxLate = 0
    MaxCrash = 0
    MaxIOError = 0
    NoOpen = NoOpen
    NoChunk = NoChunk
    Blank = Blank

INVARIANTS
    KeptUntilPersisted
    RightFile
    CommittedOnClose

PROPERTIES
    NoOlderOverNewer
