SPECIFICATION ActionClientFairSpec
CONSTANTS
    MaxGoals = 1
    MaxFeedback = 1
    FeedbackCapacity = 1
    MaxGoalFailures = 0
PROPERTIES
    CancelReturns
CHECK_DEADLOCK FALSE
