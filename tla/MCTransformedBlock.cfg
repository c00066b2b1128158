SPECIFICATION Spec
CONSTANTS
    InduceFlag = 100
    ByteValues = 8
    Width = 3
    SmallLiteralMax = 1
    MediumLiteralMax = 3
    PositionContexts = 2
    Blocks <- MCBlocks
    ForeignSizes = {0, 1, 3, 4}
INVARIANTS
    SuffixesSorted
    RunsBounded
    RoundTrip
