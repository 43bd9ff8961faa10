SPECIFICATION FairSpec
CONSTANTS
    Inst = {1, 2, 3, 4}
    MaxRunning <- Goroutines
    Graphs <- SomeGraphs
    Listings <- TwoListings
    tarjanConnect <- Sort
INVARIANTS TypeOK  NoDoubleExecution
PROPERTIES TargetExecuted
CHECK_DEADLOCK FALSE
