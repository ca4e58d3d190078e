\* A commit takes the copy of a write it did not name.
SPECIFICATION Spec

CONSTANTS
    t1 = t1
    t2 = t2
    Thread = {t1, t2}
    Files <- TwoFiles
    Path <- Paths
    Root <- EmptyRoot
    Elsewhere <- Gone
    NoPath = NoPath
    Unreadable = Unreadable
    MaxFh = 6
    Workload <- Race

INVARIANT
    CopiesKept
