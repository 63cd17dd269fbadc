CONSTANTS
    Server = srv
    w1 = w1
    w2 = w2
    Worker <- Workers
    Job <- Jobs
    MaxWorker = 2
    IdleWorker = 1
    CreateFails = FALSE
    MAXCLI = 2
    MaxRef = 3
    MaxQueue = 2
    MaxReq <- NoRequest
    MaxFork = 0
SPECIFICATION FairSpec
CHECK_DEADLOCK FALSE
PROPERTY GoneIsClosed
