SPECIFICATION Spec
CONSTANTS
    Spinners = {"holding"}
    MaxGoals = 1
    MaxCancels = 1
    MaxExceptions = 1
CHECK_DEADLOCK FALSE
PROPERTIES
    CloseWaitsForCallback
