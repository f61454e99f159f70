SPECIFICATION FairSpec
CONSTANTS
    q1 = q1
    q2 = q2
    q3 = q3
    Requests = {q1, q2, q3}
    Asks <- AllKinds
    Limit = 2
    MaxFailures = 1
INVARIANTS
    NoLostWakeup
    HeldWhileServed
    CallsInSlots
    CountedAsAnswered
    AccountedOnce
PROPERTIES
    ImplementsPool
    RequestEnds
CHECK_DEADLOCK FALSE
