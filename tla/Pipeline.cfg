SPECIFICATION FairSpec
CONSTANTS
    poller = poller
    decoder1 = decoder1
    decoder2 = decoder2
    producer = producer
    formatter = formatter
    sender = sender
    m1 = m1
    m2 = m2
    m3 = m3
    Nothing = Nothing
    Gone = Gone
    Msgs <- MCMsgs
    Goroutines <- MCGoroutines
    Stage <- MCStage
    Capacity <- MCCapacity
    MaxRetry = 1
    SendMayFail = TRUE
INVARIANTS
    TypeOK
    NoSendOnClosed
    Conservation
    GracefulStop
PROPERTIES
    FlowGoesOn
    StopReturns
\* The pipeline really may stop for good: see StopAlwaysReturns.
CHECK_DEADLOCK FALSE
