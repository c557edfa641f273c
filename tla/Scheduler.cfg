\* Two devices, four trees of files, a queue smaller than one cycle.
SPECIFICATION FairSpec
CONSTANTS
    r1 = r1
    r2 = r2
    core = core
    edge = edge
    ifs = ifs
    sys = sys
    cpu = cpu
    ifEntry = ifEntry
    sysUp = sysUp
    cpuLoad = cpuLoad
    NoDevice = NoDevice
    Trees <- MCTrees
    IdleWait = 1
    JobQueueSize = 2
INVARIANTS
    OnTime
    FiresWhatIsMeant
PROPERTY
    PolledForEver
