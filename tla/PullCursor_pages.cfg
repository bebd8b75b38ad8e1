SPECIFICATION FairSpec
CONSTANTS
    Ids <- Three
    PageSize = 2
    MaxBatches = 2
    Stubborn <- None
    MaxWrites = 2
    MaxRefusals = 1
    MaxFailures = 1
INVARIANTS TypeOK PageIsComplete NothingPassedOver
PROPERTIES EveryRowArrives
CHECK_DEADLOCK FALSE
