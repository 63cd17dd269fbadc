CONSTANTS
    Disk = {"d1", "d2"}
    BlockDisk = {"d2"}
    Net = {"tap0"}
    Guest = {"/", "/data"}
    MAXFD = 64
    MaxArg = 5
SPECIFICATION Spec
CHECK_DEADLOCK FALSE
INVARIANTS DevicesOnce RootIsRootfs
