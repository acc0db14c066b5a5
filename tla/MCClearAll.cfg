SPECIFICATION Spec
CONSTANTS
    w1 = w1
    c1 = c1
    h1 = h1
    h2 = h2
    h3 = h3
    vm1 = vm1
    ds1 = ds1
    NoEntity = NoEntity
    NoParam = NoParam
    Free = Free
    NoRequest = NoRequest
    Worker = {w1}
    Entity <- MCEntity
    Path <- MCPath
    At <- MCAt
    HostsAt <- MCHostsAt
    HostsBelow <- MCHostsBelow
    VMsAt <- MCVMsAt
    Words <- MCWords
    HostOf <- MCHostOf
    Request <- Crash
    Renamable = {}
    Session = {s1}
    NoSession = NoSession
    SessionsEnd = FALSE
    MaxTime = 1
    MaxRequests = 2
CHECK_DEADLOCK FALSE
PROPERTY
    ClearAllDeactivates
