SPECIFICATION Spec
CONSTANTS
    Primary = dc
    Standby = dr
    Threshold = 2
    MaxBoots = 2
    MaxSignals = 1
    MaxFaults = 2
    CallbacksRace = FALSE
PROPERTY
    YieldedMeansStopped
