SPECIFICATION QueuesSpec
CONSTANTS
    Policies <- MCPolicies
    BatchSize = 2
    QueueCapacity = 3
    MaxMessages = 4
    e1 = e1
    e2 = e2
    Nobody = Nobody
    Entities <- MCEntities
    Workers = {w1, w2}
CHECK_DEADLOCK FALSE
INVARIANTS
    Accounted
    ArrivalOrder
    ClosedIsDrained
    RefsBalance
    CallableOutlivesDispatch
    ClosedReleasesAll
PROPERTIES
    SettlesOnce
    PendingIsSettled
    CloseReturnsUnlessMissed
    RemoveNodeCompletes
