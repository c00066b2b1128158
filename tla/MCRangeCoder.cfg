\* Registers of three bytes of two bits each; probabilities in eighths.
CONSTANTS
    Base = 4
    Top = 16
    One = 8
    AdaptDivisor = 2
    FlushCount = 4
    MaxBits = 11
    MaxOutput = 8
    ForeignPayloads <- MCForeignPayloads
SPECIFICATION Spec
INVARIANTS
    RegistersFit
    CarryStops
    CarryExact
    RoundTrip
