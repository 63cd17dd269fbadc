CONSTANTS
    main = main
    rcv = rcv
    a = a
    b = b
    cpu = cpu
    NoThread = NoThread
    Thread = {main, rcv, a, b}
    FdThread = {rcv}
    InitThread = main
    Waithead <- OneQueue
    rcpu_cv = cpu
    MaxTime = 2
    Delay <- Delays
    JoinContext = {"kernel", "host"}
SYMMETRY Workers
SPECIFICATION Spec
CHECK_DEADLOCK FALSE
INVARIANTS TypeOK ListIsLiveThreads NoUseAfterFree BlockedHasWaker JoinBeforeFree
PROPERTIES ReadyMovesUp
