\* Two runs one after the other, the first possibly killed; two sibling names.
CONSTANTS
    Procs = {p, q}
    Attempts = 2
    Concurrent = FALSE
    None = None
SPECIFICATION Spec
INVARIANTS
    TypeOK
    TargetAlwaysWhole
PROPERTIES
    OutputSurvives
    OutcomeIsHonest
    StaleSiblingsKept
