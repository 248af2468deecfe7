SPECIFICATION FairSpec
CONSTANTS
    a = a
    b = b
    c = c
    Teams = {a, b}
    Tracks = {0}
    Times = {10, 100}
    Names <- FailureNames
    Received <- MangledName
    Script <- FailureScript
    Mortal = {b}
    SlotSize = 1
    ReplyCapacity = 99
    MaxSessions = 3
    ServerSocket = ServerSocket
    NoKey = NoKey
INVARIANTS
    MembersHold
    NoRequestLost
    AnswerToRequest
PROPERTIES
    AtomicRegistry
    ClosedConnectionsLeave
CHECK_DEADLOCK FALSE
