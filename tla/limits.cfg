SPECIFICATION Spec
CONSTANTS
    Tasks = {t1, t2}
    Limit = 1
    Window = 2
    Budget <- BothBudgets
    NoLimit = NoLimit
    Period <- CalendarPeriod
    TTL <- CalendarTTL
    Never = Never
    MaxTokens = 1
    MaxTime = 4
    MaxRequests = 4
    MaxFailures = 1
INVARIANTS
    BurstBounded
    EveryWindowEnds
    BudgetNeverForgets
    OvershootBounded
SYMMETRY AnyTask
CHECK_DEADLOCK FALSE
