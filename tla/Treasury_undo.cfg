SPECIFICATION TreasurySpec
CONSTANTS
    acct = acct
    m1 = m1
    Accounts = {acct}
    Movements = {m1}
    Imported = {m1}
    NoRow = NoRow
    AccountOf <- OneAccount
    TextOf <- SameText
    AmountOf <- SmallAmount
    Amounts = {1, 2}
    Shares = {0, 2}
    Verdicts = {"accepted"}
    MaxCommands = 3
    MaxFaults = 1
PROPERTY UndoKeepsTheRest
CHECK_DEADLOCK FALSE
