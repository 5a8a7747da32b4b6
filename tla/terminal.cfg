\* One connection, on either backend.
SPECIFICATION FairSpec
CONSTANTS
    MaxInbox = 2
    MaxOutput = 2
    MaxPipe = 1
    MaxStalls = 2
INVARIANT TypeOK
PROPERTY OutputIsDrained
PROPERTY VanishedIsNoticed
PROPERTY ClosedIsReleased
PROPERTY JobEndReleases
PROPERTY ShellEndReleases
CHECK_DEADLOCK FALSE
