\* A turn that is over, a call that is answered and a record that is read are
\* states these processes may stop in.
SPECIFICATION ProcessesSpec
CONSTANTS
    Texts = {t1}
    Migrated = {t1}
    TraitNames = {n1, n2}
    TraitIds = {i1, i2}
    Writers = {w1, w2}
    MaxEvidence = 1
    MaxEarned = 2
    KMemories = {k1}
    KTraits = {k2}
    KEpisodes = {}
    Words = {o1}
    MaxInjected = 1
    MinTerms = 1
    MinShared = 1
    MinOverlapPct = 60
    MaxLines = 3
    RMemories = {"m1", "m2"}
    RTraits = {}
    REpisodes = {"e1"}
    Elsewhere = {"m2"}
    Salient = {"m2"}
    QueryWords = {"deuda", "deudas", "plazo", "pago"}
    SameStem = {"deuda", "deudas"}
    Cosines = {60}
    MaxTerms = 2
    MaxPresence = 3
    MinPresentPct = 70
    RareMinDocs = 1
    MaxRescued = 3
    MaxAsked = 4
    MaxRecords = 2
    Urls = {u1}
    Hooks = {h1, h2}
    ReadyTtl = 3
    NotReadyTtl = 2
    MaxClock = 4
    MaxDeploys = 2
    Callers = {"c1", "c2"}
    CallBodies = {"b"}
    CallNames = {"n1", "n2"}
    MaxIds = 6
    MaxSends = 2
    MaxElsewhere = 1
    Memories = {m1, m2}
    Procs = {p1, p2}
    LegacyUse = 1
    MaxTurns = 3
    MaxTime = 1
SYMMETRY CounterSymmetry
CHECK_DEADLOCK FALSE
INVARIANTS
    PairsWithinUse
    UseWithinTurns
    NoCountOfTheDead
    NoIntervalEscapes
    AnswersAreFresh
    StrengthIsEarned
    InjectedOnce
    DegradesToLexical
    RescueReaches
    RetriesAreSafe
PROPERTIES
    CreditsTheTurn
