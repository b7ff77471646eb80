CONSTANTS
    Client = {c1, c2}
    Task = {t1, t2, t3}
    MaxDepth = 2
SPECIFICATION Spec
CHECK_DEADLOCK FALSE
INVARIANTS TypeOK NoLostWakeup
PROPERTIES ImplementsExecutor QueuedTaskRuns BatchEnds QuitStops
