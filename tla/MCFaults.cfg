SPECIFICATION Spec
CONSTANTS
    w1 = w1
    c1 = c1
    h1 = h1
    h2 = h2
    h3 = h3
    vm1 = vm1
    ds1 = ds1
    NoEntity = NoEntity
    NoParam = NoParam
    Free = Free
    NoRequest = NoRequest
    Worker = {w1}
    Entity <- MCEntity
    Path <- MCPath
    At <- MCAt
    HostsAt <- MCHostsAt
    HostsBelow <- MCHostsBelow
    VMsAt <- MCVMsAt
    Words <- MCWords
    HostOf <- MCHostOf
    Request <- FaultRequest
    Renamable = {"h1"}
    Session = {s1, s2}
    NoSession = NoSession
    SessionsEnd = TRUE
    MaxTime = 1
    MaxRequests = 2
SYMMETRY Sessions
CHECK_DEADLOCK FALSE
PROPERTIES
    ActivationInPlace
    TargetScenariosReverse
