SPECIFICATION FairSpec
CONSTANTS
    a1 = a1
    a2 = a2
    a = a
    NoRow = NoRow
    Rows = {a1, a2}
    Entities = {a}
    EntityOf <- OneEntity
    StableRows = {a1}
    BatchSize = 2
    StaleMinutes = 1
    MaxRetryMinutes = 2
    MaxAttempts = 2
    MaxEdits = 2
    MaxRetries = 1
    MaxCrashes = 1
    Unsendable = {}
    FailureKinds = {TRUE, FALSE}
INVARIANTS TypeOK VersionsInOrder SentImpliesDelivered
PROPERTIES SentIsFinal ImplementsDelivery EveryRowSettles
