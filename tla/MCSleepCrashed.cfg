\* A day on which nothing is old enough, and no time is left on the bounded
\* clock, is a state the system may stop in.
CHECK_DEADLOCK FALSE
SPECIFICATION SleepSpec
CONSTANTS
    Episodes = {1, 2}
    Memories = {m1, m2}
    Scopes = {s1}
    Passes = {}
    Every = Every
    BeforeDays = {1}
    GraceDays = {0}
    MaxTime = 1
    MaxStrikes = 2
    Runs = {r1}
    ParetoNoise = {1}
    Poison = {}
    Moods = {"answer", "truncated", "invalid", "error", "fatal"}
    Requests = {}
    MinAge = 0
    MinEpisodes = 1
    QuietDays = 0
    MaxBatch = 2
    PromptFit = 2
    MaxCalls = 2
    UncitedStrikes = 1
    NoMemory = NoMemory
INVARIANTS
    NoiseIsFaded
