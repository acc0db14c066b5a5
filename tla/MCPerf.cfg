SPECIFICATION PerfSpec
CONSTANTS
    NoValue = NoValue
    NoTime = NoTime
    Entity <- MCEntity
    TypeOf <- MCTypeOf
    Guid <- MCGuid
    Counter = {1}
    Instance <- MCInstance
    Property = {}
    Value <- MCValue
    Expiry <- MCExpiry
    Reader = {r1, r2}
    MaxTime = 2
    Target <- MCTarget
    Query <- MCQuery
    Available <- MCAvailable
    SampleData <- MCSampleData
    Historical = {"Datastore"}
    Realtime = 2
    Historic = 6
    Window = 6
    SampleCap = 5
    Int32Half = 64
    Boot = 20
INVARIANTS
    LockAndSamples
    SeriesAsShown
    PanicNeedsOddWindow
PROPERTIES
    QueriesAnswered
    QueriesReadStore
