SPECIFICATION Spec
CONSTANTS
    t1 = t1
    t2 = t2
    th1 = th1
    th2 = th2
    r1 = r1
    r2 = r2
    Keys = {k1, k2}
    NoKey = NoKey
    Replicas = {r1, r2}
    Tasks = {t1, t2}
    Threads = {}
    Home <- NoThreads
    NoTask = NoTask
    Nothing = Nothing
    UseRedis = TRUE
    SlowLoads = FALSE
    MayFail = TRUE
    MayCrash = TRUE
    MayLapse = TRUE
    MaxWrites = 3
INVARIANTS
    NeverStranded
    EntriesAreWrites
PROPERTIES
    ImplementsRegistry
CHECK_DEADLOCK FALSE
SYMMETRY Alike
