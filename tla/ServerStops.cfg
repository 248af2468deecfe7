SPECIFICATION Spec
CONSTANTS
    Conn = {c1, c2}
    Listening = Listening
    Null = Null
    MaxMessages = 1
INVARIANT
    SocketTriggered
CHECK_DEADLOCK FALSE
