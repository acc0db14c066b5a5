SPECIFICATION Spec
CONSTANTS
    v1 = v1
    v2 = v2
    NoValue = NoValue
    Entity = {e1}
    Guid <- MCGuid
    Counter = {2}
    Instance <- MCInstance
    Property = {"summary.accessible"}
    Value <- MCValue
    Expiry <- MCExpiry
    Reader = {rd}
    MaxTime = 2
SYMMETRY Values
INVARIANTS
    TypeOK
    OneEntryPerKey
    PropertyReadsAgree
PROPERTY
    ImplementsStore
