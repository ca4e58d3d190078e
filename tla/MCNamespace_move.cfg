\* One client, no faults; something is renamed into a directory.
SPECIFICATION Spec

CONSTANTS
    Path <- ListedPaths
    Root <- EmptyRoot
    NoPath = NoPath
    Unreadable = Unreadable
    c1 = c1
    c2 = c2
    NoCall = NoCall
    MaxFh = 16
    Client = {c1}
    Node <- Nodes
    Workload <- Moving

PROPERTIES
    AsAsked
