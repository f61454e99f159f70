SPECIFICATION Spec
CONSTANTS
    t1 = t1
    t2 = t2
    th1 = th1
    th2 = th2
    r1 = r1
    r2 = r2
    Keys = {k1, k2}
    NoKey = NoKey
    Replicas = {r1}
    Tasks = {t1, t2}
    Threads = {th1}
    Home <- OneThread
    NoTask = NoTask
    Nothing = Nothing
    UseRedis = FALSE
    SlowLoads = TRUE
    MayFail = FALSE
    MayCrash = FALSE
    MayLapse = FALSE
    MaxWrites = 1
INVARIANTS
    LiveOnNextRequest
CHECK_DEADLOCK FALSE
