SPECIFICATION Spec
CONSTANTS
    w1 = w1
    w2 = w2
    h1 = h1
    h2 = h2
    NoEntity = NoEntity
    NoParam = NoParam
    Free = Free
    NoRequest = NoRequest
    Worker <- MCWorker
    Entity <- MCEntity
    Path <- MCPath
    At <- MCAt
    HostsAt <- MCHostsAt
    HostsBelow <- MCNone
    VMsAt <- MCNone
    Words <- MCWords
    HostOf <- MCHostOf
    Request <- MCRequest
    Renamable = {}
    Session = {s1}
    NoSession = NoSession
    SessionsEnd = TRUE
    MaxTime = 1
    MaxRequests = 0
INVARIANTS
    TypeOK
    HolderInvariant
    ClearAllIsFinal
PROPERTIES
    ActivationInPlace
    TargetScenariosReverse
    ImplementsService
    Answered
