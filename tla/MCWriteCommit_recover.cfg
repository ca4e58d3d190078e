\* One client; the server crashes once and the network loses nothing.
SPECIFICATION Spec

CONSTANTS
    Path = {root, f, g}
    Root = root
    NoPath = NoPath
    Unreadable = Unreadable
    MaxFh = 2
    Client = {c1}
    Slot = {s1}
    Offset = {o1}
    Gen = {1}
    Writes = 1
    Draw <- DrawApart
    MaxFd = 2
    MaxLost = 0
    MaxLate = 0
    MaxCrash = 1
    MaxIOError = 0
    NoOpen = NoOpen
    NoChunk = NoChunk
    Blank = Blank

INVARIANTS
    EntriesReread
