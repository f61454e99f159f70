SPECIFICATION Spec
CONSTANTS
    r1 = r1
    r2 = r2
    t1 = t1
    t2 = t2
    l1 = l1
    l2 = l2
    p1 = p1
    p2 = p2
    v1 = v1
    v2 = v2
    Replicas = {r1, r2}
    Tasks = {t1, t2}
    Readers = {l1, l2}
    Home <- HomeOfEach
    NoTask = NoTask
    Nothing = Nothing
    Parts = {p1, p2}
    Values = {v1, v2}
    Bad = Bad
    MayLapse = TRUE
    MaxWrites = 2
INVARIANTS
    NoBadConfigKept
    StaleOnlyIfUnaware
PROPERTY
    EditsCompose
SYMMETRY Symmetry
CHECK_DEADLOCK FALSE
