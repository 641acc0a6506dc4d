SPECIFICATION FairSpec
CONSTANTS
    c1 = c1
    c2 = c2
    c3 = c3
    p1 = p1
    p2 = p2
    Free = Free
    Callers <- MCCallers
    Procs <- MCProcs
    ProcessOf <- MCProcessOf
    Uses <- MCUses
    MaxCalls = 1
    MaxCrashes = 1
CHECK_DEADLOCK FALSE
INVARIANTS
    DefinedOnce
PROPERTIES
    UsableEntryStays
    EveryCallReturns
