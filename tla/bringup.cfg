SPECIFICATION FairSpec
CONSTANTS
    Backend = {1, 2, 3}
    Joiner = {4}
    Nfs = {5, 6}
    LateNfs = {7}
    Smb = {8}
    Data = {9}
    Gateway = {5, 6, 7, 8, 9}
    Target = 2
    Deployments <- MCDeployments
    Numa <- MCNuma
    DriveCores = 1
    ComputeCores = 2
    FrontendCores = 1
    NicsNum = 5
    IsBM = FALSE
    MaxFaults = 1
INVARIANTS
    TypeOK
    DrivesBeforeIo
    ClusterizedComplete
    NothingShared
    GatewayAfterConfigFs
    NfsConfiguredComplete
PROPERTIES
    MembersReady
    BringupEnds
CHECK_DEADLOCK FALSE
