CONSTANTS
    Server = srv
    w1 = w1
    w2 = w2
    Worker <- Workers
    Job <- Jobs
    MaxWorker = 2
    IdleWorker = 1
    CreateFails = FALSE
    MAXCLI = 3
    MaxRef = 3
    MaxQueue = 1
    MaxReq <- TwoAtFirst
    MaxFork = 1
SYMMETRY WorkerSymmetry
SPECIFICATION Spec
CHECK_DEADLOCK FALSE
INVARIANTS TypeOK CountersTrue NoIdlerBesideWork RefsCounted SlotClean SendExclusive
    AnswersFindAsker MainLwpExclusive ExecAlone TableSound SleepersHaveWaker
