SPECIFICATION Spec
CONSTANTS
    Instance <- MCInstance
    MaxInstances = 6
    InitialSize = 2
    Intervals = {1}
    ContainersPerVm = 2
    DrivesPerVm = 2
    Gateways = 1
    MaxStarts = 1
    MaxCrashes = 1
    MaxFailures = 1
INVARIANTS
    SizeCorrected
CHECK_DEADLOCK FALSE
