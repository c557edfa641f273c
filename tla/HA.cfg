SPECIFICATION FairSpec
CONSTANTS
    Primary = dc
    Standby = dr
    Threshold = 2
    MaxBoots = 2
    MaxSignals = 1
    MaxFaults = 1
    CallbacksRace = TRUE
INVARIANTS
    DualPollingExplained
    StateTellsTruth
PROPERTIES
    HandoffOrder
    SomeonePolls
    PrimaryReclaims
