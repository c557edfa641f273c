\* One object, two produce goroutines. The system may stop at the last instant.
SPECIFICATION Spec
CONSTANTS
    router = router
    row = row
    xrow = xrow
    NoSample = NoSample
    Objects = {row}
    KeyOf <- OneObject
    Wraps <- EitherWidth
    MaxCounter32 = 3
    MaxCounter64 = 7
    Producers = {p1, p2}
    MaxAge = 1
    Increments = {0, 1, 2, 3}
    MaxTotal = 5
    MaxBoots = 1
    MaxTime = 3
INVARIANTS
    TypeOK
    NoOvercount
    NoGrowthLost
PROPERTY
    DeltaIsGrowth
SYMMETRY GoroutinesAlike
CHECK_DEADLOCK FALSE
