SPECIFICATION Spec
CONSTANTS
    Alphabet = {10, 32, 34, 50, 63, 92, 102, 120, 127, 233, 255}
    MaxLength = 3
    MaxCut = 2
INVARIANTS
    OneWord
    AsciiRoundTrip
    OneToOne
    CutThrows
CHECK_DEADLOCK FALSE
