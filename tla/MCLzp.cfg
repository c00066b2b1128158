\* Contexts of two bytes in a table of three slots, so that contexts collide.
CONSTANTS
    Inputs <- MCInputs
    ForeignStreams <- MCForeignStreams
    Rules <- MCRules
    DigitBase = 2
    ContextSize = 2
    Hash <- MCHash
    SlotCount = 3
    MaxDigits = 4
SPECIFICATION LzpSpec
INVARIANTS
    RoundTrip
    DecoderInBounds
