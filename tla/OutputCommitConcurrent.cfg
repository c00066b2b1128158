\* Two runs with the same output path at the same time.
CONSTANTS
    Procs = {p, q}
    Attempts = 2
    Concurrent = TRUE
    None = None
SPECIFICATION Spec
INVARIANTS
    TargetAlwaysWhole
