\* The comment on a failed rotation, with any of the settings.
SPECIFICATION Spec
CONSTANTS
    Launches <- MCLaunches
    MaxLaunches = 2
    MaxMessages = 3
    MessageBytes = 2
    OpenMayFail = TRUE
INVARIANT
    KeepsAFile
\* No process need be launched once all launches are used.
CHECK_DEADLOCK FALSE
