SPECIFICATION FairSpec
CONSTANTS
    MaxCalls = 3
    MaxCloses = 0
    Punctual = TRUE
INVARIANTS
    OneListener
    MutexHeldInCall
    PollingHeard
PROPERTY Exchanges
CHECK_DEADLOCK FALSE
