\* A graph that is drawn and a list nobody reads again have nothing left
\* to do: every one of these parts may really stop.
SPECIFICATION ViewerSpec
CONSTANTS
    MaxRuns = 2
    MaxLogged = 1
    DMemories = {"m"}
    DTraits = {"t"}
    MaxEpisodes = 1
    ConfirmTtl = 1
    MaxTime = 1
    MaxTokens = 2
    MaxMounts = 3
    MaxCalls = 2
    Rows = {"a", "b", "c"}
    PageSize = 1
    MaxShifts = 2
    GMemories = {"m1", "m2"}
    GTraits = {"t"}
    GEpisodes = {"e"}
    Alike = {{"m1", "m2"}}
    MemoryCaps = {1, 2}
    MaxTurns = 2
    MaxWrites = 1
    Secrets = {"old", "new"}
    Hours = {1, 2}
    MaxAttempts = 2
    WindowLen = 1
    MaxHour = 2
    MaxFailed = 3
    MaxRestarts = 1
    MaxReading = 2
    PMemories = {"m1", "m2"}
    FarMemories = {"m2"}
    TermsTyped = {"word"}
    MaxDialogs = 2
CHECK_DEADLOCK FALSE
INVARIANTS
    DeletesAreConfirmed
    NothingLostSilently
    DrawnAsMeasured
    TheDoorOpensAgain
    DialogWasAsked
PROPERTIES
    SeesTheEnd
