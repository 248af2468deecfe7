SPECIFICATION Spec
CONSTANTS
    a = a
    b = b
    c = c
    Teams = {a, b, c}
    Tracks = {0}
    Times = {100, 150}
    Names <- ContentionNames
    Received <- MangledName
    Script <- ContentionScript
    Mortal = {}
    SlotSize = 2
    ReplyCapacity = 3
    MaxSessions = 3
    ServerSocket = ServerSocket
    NoKey = NoKey
INVARIANTS
    NoRequestLost
    EntriesDistinct
    SlotWithinQuota
    AcknowledgedBooked
    BusyMeansFull
    TimetableCurrent
PROPERTIES
    TarakansStay
CHECK_DEADLOCK FALSE
