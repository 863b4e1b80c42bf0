SPECIFICATION FairSpec
CONSTANTS
    Instance <- MCInstance
    MaxInstances = 7
    InitialSize = 3
    Intervals = {1,2,4}
    ContainersPerVm = 2
    DrivesPerVm = 2
    Gateways = 1
    MaxStarts = 1
    MaxCrashes = 1
    MaxFailures = 1
INVARIANTS
    TypeOK
    SizeRestored
    CompletedMeansReplaced
PROPERTIES
    CapacityKept
    BatchClosedWhenDue
    RollingSpec
    RefreshEnds
CHECK_DEADLOCK FALSE
