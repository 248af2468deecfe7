SPECIFICATION FairSpec
CONSTANTS
    MaxCalls = 1
    MaxCloses = 0
    Punctual = FALSE
PROPERTY SelectReturns
CHECK_DEADLOCK FALSE
