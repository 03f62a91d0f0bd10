CHECK_DEADLOCK FALSE
SPECIFICATION Spec
CONSTANTS
    Memories = {1}
    Traits = {}
    Episodes = {}
    Workers = {w1}
    Active = {1}
    Poison = {}
    MaxRows = 5
    BatchSize = 2
    MaxEdits = 1
INVARIANTS
    MemoryVectorsCurrent
