SPECIFICATION SrvFair
CONSTANTS
    PerCluster = 2
    NClusters = 3
    HwmLimit = 7
    DiskHwmLimit = 3
    TableCap = 2
    Cmd = {c1, c2, c3}
    Requests <- Single
    MayFail = TRUE
    NoCmd = NoCmd
    ClusterLbas = 2
INVARIANTS QueueDrained
PROPERTIES AckedWhereRead Answered
CHECK_DEADLOCK FALSE
