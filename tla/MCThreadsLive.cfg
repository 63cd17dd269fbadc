CONSTANTS
    main = main
    rcv = rcv
    a = a
    b = b
    cpu = cpu
    NoThread = NoThread
    Thread = {main, a, b}
    FdThread = {}
    InitThread = main
    Waithead <- OneQueue
    rcpu_cv = cpu
    MaxTime = 2
    Delay <- Delays
    JoinContext = {"host"}

SPECIFICATION FairSpec
CHECK_DEADLOCK FALSE
PROPERTIES SleepEnds JoinEnds RunnableRuns
