\* Up to four blocks against windows of one, two and three.
CONSTANTS
    MinBlockSize = 1
    MaxBlockSize = 2
    StreamLzpLimit = 4
    BlockHeaderSize = 1
    MaxBlockCount = 4
    Headers <- MCHeaders
    ArchiveSizes = {4, 6, 7, 8}
    MaxWindow = 3
SPECIFICATION FairSpec
INVARIANTS
    TypeOK
    HeldWithinWindow
    RestoredExactly
PROPERTIES
    CleanupTried
    NoJoinableDestroyed
    ImplementsOrderedPipeline
    Termination
