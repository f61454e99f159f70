SPECIFICATION VSpec
CONSTANTS
    NoHash = NoHash
    Writers = {w1, w2}
    NoWriter = NoWriter
    MayLapse = FALSE
    MayCrash = TRUE
    MayTear = TRUE
    MaxEntries = 2
    MaxLegacy = 2
    MaxAppends = 4
INVARIANTS
    VerifiesWhenSettled
    ChainUnbroken
    TrimsAccountedFor
    AlarmMeansTrim
PROPERTIES
    HistoryNeverRewritten
    ImplementsLedger
    TornLogFrozen
CHECK_DEADLOCK FALSE
