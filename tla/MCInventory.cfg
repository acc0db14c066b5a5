SPECIFICATION Spec
CHECK_DEADLOCK FALSE
CONSTANTS
    NoProfile = NoProfile
    Flags <- MCFlags
    MaxLost = 2
    LossyPool = 3
    MaxFaults = 2
INVARIANTS
    TypeOK
    HostsCustomized
    PlacementSound
    CompleteMeansBuilt
    FailureLeavesPrefix
    DashboardPopulated
    LayoutSound
PROPERTIES
    GetsReady
    ImplementsBuild
