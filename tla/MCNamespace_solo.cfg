\* One client; requests and replies are lost; everything is renamed in the root.
SPECIFICATION FairSpec

CONSTANTS
    Path <- ListedPaths
    Root <- EmptyRoot
    NoPath = NoPath
    Unreadable = Unreadable
    c1 = c1
    c2 = c2
    NoCall = NoCall
    MaxFh = 16
    Client = {c1}
    Node <- Nodes
    Workload <- Solo

INVARIANTS
    HandlesAgree

PROPERTIES
    AsAsked
    CallsReturn
