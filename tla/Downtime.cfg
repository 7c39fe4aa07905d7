SPECIFICATION FairSpec
CHECK_DEADLOCK FALSE
CONSTANTS
    Hosts = {h}
    Services = {s}
    Requests <- MCRequests
    MaxDowntimes = 2
    MaxRestarts = 1
    MaxTime = 3
INVARIANTS
    DepthAgrees
    EventsStand
    PendingCovers
PROPERTIES
    RunsItsTime
    ImplementsContract
    DowntimesEnd
