SPECIFICATION FairSpec
CONSTANTS
    t1 = t1
    t2 = t2
    t3 = t3
    t4 = t4
    r1 = r1
    r2 = r2
    Tasks = {t1, t2, t3, t4}
    NoTask = NoTask
    Replicas = {r1, r2}
    ReplicaOf <- TwoReplicas
INVARIANTS
    MutualExclusion
PROPERTIES
    ImplementsMutex
    WaiterServed
