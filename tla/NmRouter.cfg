SPECIFICATION FairSpec
CONSTANTS
    c1 = c1
    c2 = c2
    Cid = {c1, c2}
    Programs = {"passthrough", "encrypt", "encrypt_ip", "xcow", "replicate"}
    Swaps = {}
    Faults = {"hqerr", "fderr"}
    MayReject = FALSE
    Slow = {"passthrough", "encrypt", "encrypt_ip", "xcow"}
    MayExit = FALSE
    MaxRepeat = 0
    MaxIssue = 2
INVARIANTS TypeOK SendBitsMatch TargetStatusReported AckedWriteOnDevice
PROPERTIES EventuallyCompleted
CHECK_DEADLOCK FALSE
