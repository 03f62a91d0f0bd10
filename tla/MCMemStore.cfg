SPECIFICATION Spec
CONSTANTS
    Episodes = {e1, e2}
    Memories = {m1, m2}
    Scopes = {s1, s2}
    Passes = {p1}
    Every = Every
    BeforeDays = {1}
    GraceDays = {0}
    MaxTime = 2
    MaxStrikes = 1
SYMMETRY EpisodeAndMemorySymmetry
INVARIANTS
    LinkIntegrity
    VictimsStayOld
PROPERTIES
    OwnershipSettled
    ForgetSparesRecent
    ForgetNeverRequeues
    ReleasedWithoutStrikes
    LifeSpec
