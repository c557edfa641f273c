\* Two objects with one key, and a single produce goroutine.
SPECIFICATION Spec
CONSTANTS
    router = router
    row = row
    xrow = xrow
    NoSample = NoSample
    Objects = {row, xrow}
    KeyOf <- IfMib
    Wraps <- IfMibWidth
    MaxCounter32 = 3
    MaxCounter64 = 7
    Producers = {p1}
    MaxAge = 1
    Increments = {0, 1, 2, 3}
    MaxTotal = 5
    MaxBoots = 1
    MaxTime = 3
INVARIANT
    NoOvercount
CHECK_DEADLOCK FALSE
