SPECIFICATION Spec
CONSTANTS
    Tarakans = {1, 2, 3}
    Durations = {0, 1, 2}
    MaxStrategies = 2
    MaxStep = 2
    MaxStarts = 2
INVARIANT
    FreshStart
PROPERTIES
    EveryonePlaced
    PlacesByWay
    NoPartialRace
CHECK_DEADLOCK FALSE
