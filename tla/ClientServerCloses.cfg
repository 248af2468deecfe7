SPECIFICATION Spec
CONSTANTS
    MaxCalls = 2
    MaxCloses = 1
    Punctual = FALSE
INVARIANTS
    TypeOK
    OwnAnswer
CHECK_DEADLOCK FALSE
