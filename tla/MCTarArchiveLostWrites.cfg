\* The same instance, asked for what a finished extraction has on disk.
CONSTANTS
    TarBlock = 2
    NameField = 3
    PrefixField = 4
    OctalDigits = 1
    SizeLimit = 16
    LongNameLimit = 10
    Trees <- MCTrees
    ForeignStreams <- MCForeignStreams
    Capacities = {1, 2, 3, 5}
SPECIFICATION TarSpec
INVARIANTS
    ExtractedWhole
