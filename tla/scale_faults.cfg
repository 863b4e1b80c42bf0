SPECIFICATION Spec
CONSTANTS
    Machine <- MCMachine
    NfsMachine <- MCNfsMachine
    Initial <- MCInitial
    NumBackends = 2
    NumGateways = 0
    NumInitial = 2
    BackendContainer = {"drive", "compute"}
    Drive = {}
    WekaSizes = {1}
    NfsSizes = {0}
    UnhealthyTimeout = 1
    NfsTimeout = 1
    RemovalTimeout = 1
    MaxDown = 2
    FaultKinds = {"down", "drive", "lost", "pool"}
    MaxFaults = 1
INVARIANTS
    ResponseSparesUsed
