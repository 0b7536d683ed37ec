SPECIFICATION Spec
CONSTANTS
    c1 = c1
    c2 = c2
    Cid = {c1, c2}
    Programs = {"passthrough", "encrypt", "encrypt_ip", "xcow", "replicate"}
    Swaps = {"none", "replicate", "xcow"}
    Faults = {"hqerr", "fderr"}
    MayReject = FALSE
    Slow = {"passthrough", "encrypt", "encrypt_ip", "xcow", "replicate", "none"}
    MayExit = TRUE
    MaxRepeat = 1
    MaxIssue = 2
INVARIANTS CompletedOnce NoIoAfterCompletion
VIEW Course
SYMMETRY Symmetry
CHECK_DEADLOCK FALSE
