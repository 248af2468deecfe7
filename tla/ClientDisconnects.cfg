SPECIFICATION Spec
CONSTANTS
    MaxCalls = 1
    MaxCloses = 0
    Punctual = TRUE
PROPERTY NoUseAfterDisconnect
CHECK_DEADLOCK FALSE
