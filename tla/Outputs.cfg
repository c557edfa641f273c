\* Two processes with any of the settings; a file of two messages, up to two backups.
SPECIFICATION FairSpec
CONSTANTS
    Launches <- MCLaunches
    MaxLaunches = 2
    MaxMessages = 3
    MessageBytes = 2
    OpenMayFail = TRUE
INVARIANT
    LogIsKept
PROPERTIES
    OutboxSpec
    FlushedInTheEnd
    LaunchedAsMeant
\* No process need be launched once all launches are used.
CHECK_DEADLOCK FALSE
