SPECIFICATION FairSpec
CHECK_DEADLOCK FALSE
CONSTANTS
    a = a
    b = b
    nl = nl
    Lines <- MCLines
    Newline = nl
    WorkerSize = 2
    MasterSize = 2
    PipeSize = 5
    SocketSize = 3
    MaxBytes = 8
    MaxDeaths = 2
PROPERTY
    DeadWorkerIsReplaced
