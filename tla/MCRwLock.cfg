CONSTANTS
    a = a
    b = b
    rcv = rcv
    r1 = r1
    w1 = w1
    NoThread = NoThread
    Thread <- Threads3
    FdThread = {rcv}
    Waithead <- Queues
    rwait = r1
    wwait = w1
    MaxTime = 1
    Delay <- Delays
SPECIFICATION FairSpec
CHECK_DEADLOCK FALSE
INVARIANTS TypeOK QueuesSound FreeRwHasTaker HoldersCounted
PROPERTY RwIsTaken
