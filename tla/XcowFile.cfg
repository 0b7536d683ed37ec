SPECIFICATION Spec
CONSTANTS
    PerCluster = 2
    NClusters = 3
    HwmLimit = 8
    DiskHwmLimit = 4
    TableCap = 2
INVARIANTS TypeOK WriteExclusive XcowInv
PROPERTIES FrozenSnapshots InheritsSource
