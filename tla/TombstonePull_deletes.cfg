SPECIFICATION Spec
CONSTANTS
    import = import
    txn = txn
    annotation = annotation
    account = account
    Rows = {import, txn, annotation, account}
    NoRow = NoRow
    Parent <- ParentOf
    Batch <- BatchOf
    Mutable <- MutableRows
    MaxOps = 2
    MaxElsewhere = 2
    MaxFailures = 1
    MaxEvents = 3
INVARIANTS TypeOK ConsumedMeansGone SettledDeviceAgrees
PROPERTY UnsentRowSurvives
CHECK_DEADLOCK FALSE
