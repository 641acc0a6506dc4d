SPECIFICATION ThreadsSpec
CONSTANTS
    x1 = x1
    x2 = x2
    NoThread = NoThread
    Executors <- MCExecutors
    PythonExecutors <- MCPython
    MaxResources = 2
    PyThreads = {t1, t2}
    Guards = {g1}
    WaitSets = {s1, s2}
    NoPyThread = NoPyThread
    MaxBlocks = 2
    QueueCapacity = 2
    ResultCapacity = 1
    MaxSubmissions = 4
    MaxUpdates = 1
    JointCount = 2
    MaxGoals = 2
    MaxInstances = 2
    RigControllers = {c1, c2}
    MaxSwitches = 2
    Fetchers = {p1, p2}
    NoFetcher = NoFetcher
    MaxTampers = 1
    MaxDeaths = 1
    KernelThreads = {k1, k2}
    Wrappers = {v1, v2}
    UncachedWrappers = {v2}
    NoThreadYet = NoThreadYet
    MaxCalls = 3
    MaxCallFailures = 1
    Headers = {h1, h2}
    Processes = {p1, p2}
    Keep = 1
    MaxRuns = 2
    MaxPchFaults = 1
    Workers = {w1, w2}
    Entities = {e1, e2}
    MaxDispatches = 2
    NoGil = NoGil
    NodeExecutors = {n1, n2}
    MaxTransitions = 2
    MaxRawMembership = 1
    ServiceWorkers = {s1, s2}
    MaxServiceCalls = 3
    NoHolder = NoHolder
    MaxPublishes = 4
    Cleanups = {c1, c2}
    MaxRegistrations = 3
CHECK_DEADLOCK FALSE
INVARIANTS
    
    
    WorkerKeepsItsBooks
    ControllersKeepProtocol
    RigBooksSwitches
    ReturnedEntryStays
    KernelRegisteredOnce
    CallsSettle
    
    
    AdoptedIsListed
    ServiceCallsSettle
    
    CleanupsPrecedeCling
PROPERTIES
    BlockedIsUndisturbed
    CloseReturnsIfJoinable
    StopDrainsThenJoins
