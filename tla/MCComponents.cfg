SPECIFICATION FairComponentsSpec
CONSTANTS
    MaxGoals = 2
    MaxFeedback = 2
    FeedbackCapacity = 1
    MaxGoalFailures = 1
    ParameterThreads = {t1, t2}
    MaxChanges = 1
    Unowned = Unowned
    Executors = {x2}
    PythonExecutors = {}
    NoThread = NoThread
    MaxResources = 1
    PipelineExecutor = x2
    Deliveries = {"every", "latest"}
    PipelineBatch = 1
    PipelineCapacity = 1
    MaxPipelined = 1
INVARIANTS
    
    GoalsAccountedFor
    BridgesSettle
PROPERTIES
    PipelineKeptBySession
    CancelReturnsUnlessCrossed
    CloseReturnsUnlessCrossed
CHECK_DEADLOCK FALSE
