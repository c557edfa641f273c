SPECIFICATION AppFairSpec
CONSTANTS
    w1 = w1
    w2 = w2
    Workers <- MCWorkers
    MaxReloads = 2
    QueueSize = 1
INVARIANTS
    AppTypeOK
    SchedulerHasLiveQueue
    NoPanicAlone
    DrainedAlone
    RetiredPoolsEmpty
PROPERTY
    CallsReturn
