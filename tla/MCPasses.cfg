\* A day on which nothing is old enough with no time left on the bounded
\* clock, and an export whose bounds are spent, are states the system may
\* stop in.
CHECK_DEADLOCK FALSE
SPECIFICATION PassesSpec
CONSTANTS
    Episodes = {1, 2, 3}
    Memories = {m1, m2}
    Scopes = {s1}
    Passes = {}
    Every = Every
    BeforeDays = {1}
    GraceDays = {0}
    MaxTime = 1
    MaxStrikes = 2
    Runs = {r1}
    ParetoNoise = {3}
    Poison = {}
    Moods = {"answer", "truncated", "invalid", "error", "fatal"}
    Requests = {{2}, {1, 3}}
    MinAge = 0
    MinEpisodes = 1
    QuietDays = 1
    MaxBatch = 3
    PromptFit = 2
    MaxCalls = 2
    UncitedStrikes = 2
    NoMemory = NoMemory
    VMemories = {v1}
    VTraits = {t1}
    VScopes = {a, b}
    Colliding = {a, b}
    Titles = {"x", "y"}
    Exporters = {x1, x2}
    Whole = Whole
    Asked = {Whole, a}
    MaxExports = 2
    MaxChanges = 1
SYMMETRY RunAndMemorySymmetry
INVARIANTS
    CallBudget
    NotesStayNamed
PROPERTIES
    OneStrikePerRun
    TakesOnlyWhatItRead
    TakesOnlyAged
    VaultMirrorsStore
    OtherScopesKept
    LinksResolve
