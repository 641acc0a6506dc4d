SPECIFICATION FairWaitSpec
CONSTANTS
    PyThreads = {t1, t2}
    Guards = {g1}
    WaitSets = {s1}
    NoPyThread = NoPyThread
    MaxBlocks = 1
CHECK_DEADLOCK FALSE
PROPERTIES
    TriggerWakes
