SPECIFICATION PathSpec
CONSTANTS
    PerCluster = 2
    NClusters = 3
    HwmLimit = 8
    DiskHwmLimit = 4
    TableCap = 2
    Cmd = {1, 2, 3, 4}
    Requests <- AskedOps
    MayFail = FALSE
    NoCmd = NoCmd
    Lines = 1
    Assoc = 2
    Cpus = {0}
    Queues = {1}
    Offs = {0, 1}
    Asked <- Traffic
    BandReturns = {0, 1}
    Quiesced = TRUE
    SharedReads = TRUE
    MovesBack = FALSE
    FirstZeroed = TRUE
INVARIANTS SnapshotIntact
CHECK_DEADLOCK FALSE
