SPECIFICATION FairSpec
CONSTANTS
    Machine <- MCMachine
    NfsMachine <- MCNfsMachine
    Initial <- MCInitial
    NumBackends = 1
    NumGateways = 1
    NumInitial = 1
    BackendContainer = {"drive"}
    Drive = {d1}
    WekaSizes = {1}
    NfsSizes = {0, 1}
    UnhealthyTimeout = 1
    NfsTimeout = 1
    RemovalTimeout = 1
    MaxDown = 2
    FaultKinds = {"lost", "nfsList"}
    MaxFaults = 1
    d1 = d1
INVARIANTS
    ResponseSparesUsed
PROPERTIES
    EventuallyCleared
    SurplusDrains
