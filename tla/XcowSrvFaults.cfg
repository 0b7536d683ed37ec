SPECIFICATION SrvSpec
CONSTANTS
    PerCluster = 2
    NClusters = 3
    HwmLimit = 7
    DiskHwmLimit = 4
    TableCap = 2
    Cmd = {c1, c2, c3}
    Requests <- Mixed
    MayFail = TRUE
    NoCmd = NoCmd
    ClusterLbas = 2
INVARIANTS OneReply LockHeld NoWriteDuringAlloc
PROPERTIES RefinesFile
CHECK_DEADLOCK FALSE
