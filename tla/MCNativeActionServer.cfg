SPECIFICATION FairSpec
CONSTANTS
    Spinners = {"released", "native"}
    MaxGoals = 2
    MaxCancels = 2
    MaxExceptions = 1
CHECK_DEADLOCK FALSE
INVARIANTS
    StatusIsCurrent
    BooksBalance
    ClosedEndsGoals
PROPERTIES
    DeferredCloseHappens
