SPECIFICATION FairSpec
CONSTANTS
    Machine <- MCMachine
    NfsMachine <- MCNfsMachine
    Initial <- MCInitial
    NumBackends = 3
    NumGateways = 0
    NumInitial = 3
    BackendContainer = {"drive"}
    Drive = {d1}
    WekaSizes = {2}
    NfsSizes = {0}
    UnhealthyTimeout = 1
    NfsTimeout = 1
    RemovalTimeout = 1
    MaxDown = 2
    FaultKinds = {"lost"}
    MaxFaults = 1
    d1 = d1
PROPERTIES
    EventuallyCleared
    SurplusDrains
