SPECIFICATION Spec
CONSTANTS
    a = a
    b = b
    inv1 = inv1
    inv2 = inv2
    p = p
    q = q
    Devices = {a, b}
    Cloud = Cloud
    Invoices = {inv1, inv2}
    PaymentIds = {p, q}
    Settings = Settings
    Totals = {1, 2}
    Amounts = {1}
    MaxNumber = 2
    MaxNcf = 2
    MaxCommands = 5
    MaxFaults = 0
PROPERTY NcfIsImmutable
CHECK_DEADLOCK FALSE
