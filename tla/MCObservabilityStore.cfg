CONSTANTS
    Processes = {p1, p2}
    MaxWrites = 3
    MaxLogFileSize = 1
    MaxLogFiles = 2
    MaxTraceFiles = 1
    MaxStoreSize = 2
    RetainedInstances = 1
    SweepInterval = 2
    Unset = Unset
SYMMETRY ProcessSymmetry
SPECIFICATION Spec
INVARIANTS LogsAreKept
PROPERTIES SpaceIsBounded
CHECK_DEADLOCK FALSE
