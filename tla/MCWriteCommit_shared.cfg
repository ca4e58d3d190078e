\* Two clients of one server; no call fails and the server stays up.
SPECIFICATION Spec

CONSTANTS
    Path = {root, f, g}
    Root = root
    NoPath = NoPath
    Unreadable = Unreadable
    MaxFh = 2
    Client = {c1, c2}
    Slot = {s1}
    Offset = {o1}
    Gen = {1, 2, 3, 4}
    Writes = 2
    Draw <- DrawApart
    MaxFd = 2
    MaxLost = 0
    MaxLate = 0
    MaxCrash = 0
    MaxIOError = 0
    NoOpen = NoOpen
    NoChunk = NoChunk
    Blank = Blank

INVARIANTS
    FdsLive
    NoLeftovers
    EntriesRecovered
