\* A table, a group of scalars, two definitions that are ambiguous and an empty one; devices
\* that lack any of five variables; batches of two, three files of labels.
SPECIFICATION Spec
CONSTANTS
    ObjectDefs <- MCObjectDefs
    EnumFiles <- MCEnumFiles
    MIBs <- MCMIBs
    MaxOids = 2
    up = up
    down = down
    enabled = enabled
    unknown = unknown
    duplex = duplex
    vlans = vlans
    router = router
    cold = cold
INVARIANTS
    CollectsEverything
    NothingMadeUp
