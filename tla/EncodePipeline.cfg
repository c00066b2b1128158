\* Three chunks of up to two pieces exceed a window of two and of three.
CONSTANTS
    MaxWindow = 3
    MaxChunks = 3
    MaxPieces = 2
SPECIFICATION FairSpec
INVARIANTS
    TypeOK
    WorkersWithinWindow
    SinkSound
PROPERTIES
    NoJoinableDestroyed
    ImplementsOrderedPipeline
    Termination
