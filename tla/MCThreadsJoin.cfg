CONSTANTS
    main = main
    rcv = rcv
    a = a
    b = b
    cpu = cpu
    NoThread = NoThread
    Thread = {main, a, b}
    FdThread = {}
    InitThread = main
    Waithead <- OneQueue
    rcpu_cv = cpu
    MaxTime = 2
    Delay <- Delays
    JoinContext = {"kernel"}

SPECIFICATION Spec
CHECK_DEADLOCK FALSE
INVARIANT BlockedReleasesCpu
