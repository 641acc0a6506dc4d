SPECIFICATION FairSpec
CONSTANTS
    Policies <- MCQueued
    BatchSize = 1
    QueueCapacity = 1
    MaxMessages = 2
CHECK_DEADLOCK FALSE
PROPERTIES
    CloseReturns
