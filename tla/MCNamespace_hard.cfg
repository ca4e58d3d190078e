\* Two clients rename in the root; or the server crashes under one of them.
SPECIFICATION Spec

CONSTANTS
    Path <- CrashPaths
    Root <- EmptyRoot
    NoPath = NoPath
    Unreadable = Unreadable
    c1 = c1
    c2 = c2
    NoCall = NoCall
    MaxFh = 10
    Client = {c1, c2}
    Node <- MoreNodes
    Workload <- Hard

INVARIANTS
    TypeOK
    TablesInverse
    PathsMapped
