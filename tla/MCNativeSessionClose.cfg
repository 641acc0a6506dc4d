SPECIFICATION FairSpec
CONSTANTS
    x1 = x1
    x2 = x2
    NoThread = NoThread
    Executors <- MCOne
    PythonExecutors <- MCPython
    MaxResources = 0
CHECK_DEADLOCK FALSE
PROPERTIES
    CloseReturns
