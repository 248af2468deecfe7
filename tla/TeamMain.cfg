SPECIFICATION FairSpec
CONSTANTS
    a = a
    b = b
    c = c
    Teams = {a, b}
    Tracks = {0}
    Times = {100, 150}
    Names <- MainNames
    Received <- SameName
    Script <- MainScript
    Mortal = {}
    SlotSize = 5
    ReplyCapacity = 3
    MaxSessions = 6
    ServerSocket = ServerSocket
    NoKey = NoKey
INVARIANTS
    TypeOK
    ConnectionsOnce
PROPERTIES
    AtomicRegistry
    PollingEnds
CHECK_DEADLOCK FALSE
