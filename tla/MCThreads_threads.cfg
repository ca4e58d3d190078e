\* Two threads of a client open, write and close files; calls fail.
SPECIFICATION Spec

CONSTANTS
    t1 = t1
    t2 = t2
    Thread = {t1, t2}
    Files <- TwoFiles
    Path <- Paths
    Root <- EmptyRoot
    Elsewhere <- Gone
    NoPath = NoPath
    Unreadable = Unreadable
    MaxFh = 6
    Workload <- Workloads

INVARIANTS
    TypeOK
    CopiesKeptApart
    HandlesApart

PROPERTIES
    CallsReturn
