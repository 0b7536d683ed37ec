SPECIFICATION Spec
CONSTANTS
    Queues = {1, 2}
    Lbas = {0, 1}
    Deployments <- Started
    Burst = 2
    CqBurst = 2
    BusyLoops = 2
    WzBlocks = 1
INVARIANTS UifTypeOK AckedOnDisk RightQueue
PROPERTIES ReadReturns UifAnswered
CHECK_DEADLOCK FALSE
