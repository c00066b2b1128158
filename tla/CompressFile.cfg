\* Sources up to the buffering limit and beyond it, in blocks of two.
CONSTANTS
    MinBlockSize = 1
    MaxBlockSize = 2
    StreamLzpLimit = 4
    BlockHeaderSize = 1
    MaxBlockCount = 4
    BlockSize = 2
    FileSizes = {0, 1, 2, 3, 4, 5}
    MaxWindow = 2
    DecisiveDivisor = 2
SPECIFICATION FairSpec
INVARIANTS
    TypeOK
    Decodable
PROPERTIES
    NoBadOutputCommitted
    SourceChangeNoticed
    ReturnsWhenUndisturbed
