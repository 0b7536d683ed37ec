SPECIFICATION SrvSpec
CONSTANTS
    PerCluster = 2
    NClusters = 3
    HwmLimit = 8
    DiskHwmLimit = 5
    TableCap = 2
    Cmd = {c1, c2, c3}
    Requests <- Snapshotting
    MayFail = FALSE
    NoCmd = NoCmd
    ClusterLbas = 2
PROPERTY AckedWhereRead
CHECK_DEADLOCK FALSE
