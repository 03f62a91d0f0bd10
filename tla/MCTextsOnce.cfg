SPECIFICATION RaceSpec
CONSTANTS
    Texts = {t1}
    Migrated = {}
    TraitNames = {n1}
    TraitIds = {i1}
    Writers = {w1, w2}
    MaxEvidence = 1
    MaxEarned = 1
INVARIANTS
    TextsStoredOnce
