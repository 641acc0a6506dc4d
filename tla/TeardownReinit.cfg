SPECIFICATION TeardownSpec
CONSTANTS
    Cleanups = {c1, c2}
    MaxRegistrations = 3
INVARIANTS
    RegisteredCleanupRuns
CHECK_DEADLOCK FALSE
