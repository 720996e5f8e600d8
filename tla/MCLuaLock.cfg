SPECIFICATION FairSpec
CONSTANTS
    Threads = {t1, t2, t3}
    t1 = t1
    t2 = t2
    t3 = t3
    NoThread = NoThread
    MaxNest = 2
    MaxDrift = 1
INVARIANTS BreachNeedsStaleEntry NoLostWakeup OneGrant IInv
PROPERTIES ImplementsMutex WaitersAdmitted
CHECK_DEADLOCK FALSE
