\* One client; V1 and V2; names, then the bytes of a file; an RPC fails.
SPECIFICATION Spec

CONSTANTS
    Path <- Paths
    Root <- EmptyRoot
    NoPath = NoPath
    Unreadable = Unreadable
    MaxFh = 8
    Bits32 = 5
    Bits64 = 7
    Septet = 3
    Garbled = {"x"}
    MaxMessage = 110
    Name <- Texts
    Workload <- Workloads
    Offset = {1, 17, 33}
    Buffer <- Buffers
    ReadSize = {3}
    Beyond <- Tails
    Byte = {0, 1, 2}
    Draw <- Drawn
    MaxFd = 3
    MaxIno = 4
    MaxLost = 1
    Unsure = Unsure

INVARIANTS
    TypeOK
    OpenedRight
    Durable
    ReadsBack
    Told

PROPERTIES
    RoundTrip
    CallsReturn
