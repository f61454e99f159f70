SPECIFICATION Spec
CONSTANTS
    Tasks = {t1, t2}
    Threshold = 3
    Window = 2
    Cooldown = 3
    MaxTime = 4
    MaxBlocks = 5
    MaxFailures = 1
INVARIANTS
    OneAlertPerCooldown
    BurstAlerted
    AlertMeansBurst
SYMMETRY AnyTask
CHECK_DEADLOCK FALSE
