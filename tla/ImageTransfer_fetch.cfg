SPECIFICATION ImageSpec
CONSTANTS
    Responders = {"n2", "n3", "n4"}
    Blocks <- OneToThree
    MaxRequests = 1
    MaxTasks = 3
CHECK_DEADLOCK FALSE
INVARIANTS CompletedOnce ShownIsSent
PROPERTIES EventuallyShown
