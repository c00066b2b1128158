\* Blocks of up to four units: payloads smaller, equal and none at all.
CONSTANTS
    MaxBlock = 4
    PlanSize = 1
    FlushBytes = 2
    ShrinkDivisor = 2
SPECIFICATION Spec
INVARIANTS
    DecodesToTheBlock
    SmallestKept
