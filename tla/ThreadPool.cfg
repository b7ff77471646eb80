CONSTANTS
    Worker = {w1, w2}
    Client = {c1, c2}
    Task = {t1, t2, t3}
    NoTask = NoTask
SPECIFICATION Spec
CHECK_DEADLOCK FALSE
INVARIANTS TypeOK NoLostWakeup
PROPERTIES ImplementsExecutor QueuedTaskRuns StopReturnsEventually
