SPECIFICATION Spec
CONSTANTS
    Memories = {m1, m2}
    Procs = {p1, p2}
    LegacyUse = 1
    MaxTurns = 3
    MaxTime = 1
SYMMETRY ProcAndMemorySymmetry
INVARIANTS
    NoIntervalTwice
