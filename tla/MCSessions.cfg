SPECIFICATION Spec
CONSTANTS
    c1 = c1
    c2 = c2
    k1 = k1
    k2 = k2
    k3 = k3
    NoKey = NoKey
    NoUser = NoUser
    Client <- MCClient
    Key <- MCKey
    User <- MCUser
    Account <- MCAccount
    MaxWatched = 1
SYMMETRY Symmetric
INVARIANTS
    TypeOK
    UsersAuthenticated
    NoSessionMeansNone
    EndedForGood
    KeptUnlessStray
PROPERTY
    ImplementsTable
