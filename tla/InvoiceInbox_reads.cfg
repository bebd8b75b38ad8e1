SPECIFICATION FairSpec
CONSTANTS
    acct = acct
    m1 = m1
    d1 = d1
    Accounts = {acct}
    Movements = {m1}
    Imported = {m1}
    NoRow = NoRow
    AccountOf <- OneAccount
    TextOf <- SameText
    AmountOf <- SmallAmount
    Amounts = {1}
    Shares = {1}
    Verdicts = {"accepted"}
    MaxCommands = 2
    MaxFaults = 1
    Documents = {d1}
    Loops = {1, 2}
    MaxRetries = 1
INVARIANTS TypeOK AppliedMeansBooked
PROPERTIES EveryDocumentIsRead
CHECK_DEADLOCK FALSE
