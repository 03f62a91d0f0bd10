\* Every row deleted or indexed: nothing is left to do.
CHECK_DEADLOCK FALSE
SPECIFICATION FairSpec
CONSTANTS
    Memories = {1, 2, 3, 4, 5, 6, 7}
    Traits = {8, 9, 10}
    Episodes = {11}
    Workers = {w1}
    Active = {7, 10, 11}
    Poison = {1, 2, 3, 4, 5, 6, 8, 9}
    MaxRows = 7
    BatchSize = 2
    MaxEdits = 2
INVARIANTS
    LayerVectorsCurrent
    MemoryVectorsOwned
PROPERTIES
    EpisodesIndexed
