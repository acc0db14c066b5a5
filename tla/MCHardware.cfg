SPECIFICATION Spec
CHECK_DEADLOCK FALSE
CONSTANTS
    NoProfile = NoProfile
    Flags <- MCDefault
    MaxLost = 0
    LossyPool = 0
    MaxFaults = 0
INVARIANT
    HostsShowOwnHardware
