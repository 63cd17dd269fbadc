CONSTANTS
    a = a
    b = b
    rcv = rcv
    m1 = m1
    s1 = s1
    c1 = c1
    NoThread = NoThread
    None = None
    Thread <- Threads3
    FdThread = {rcv}
    Mutex = {m1, s1}
    Spin = {s1}
    Cv = {c1}
    Waithead <- Queues
    MaxDepth = 2
    MaxTime = 2
    Delay <- Delays
SPECIFICATION Spec
CHECK_DEADLOCK FALSE
INVARIANT NowrapSucceeds
