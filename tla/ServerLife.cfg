SPECIFICATION FairSpec
CONSTANTS
    Conn = {c1, c2}
    Listening = Listening
    Null = Null
    MaxMessages = 1
INVARIANTS
    StoppedIsQuiet
    NoDeletedUsed
    DescriptorsAccounted
PROPERTIES
    OnlyClosedDropped
    OneLife
    StopEnds
    AcceptedOrDown
CHECK_DEADLOCK FALSE
