SPECIFICATION FairSpec
CONSTANTS
    d1 = d1
    d2 = d2
    Devices = {d1, d2}
    Sensitive = FALSE
    Skews <- BehindInStepOrAhead
    AcceptedSkew = 1
    MaxEdits = 2
    MaxFailures = 1
INVARIANTS SettledDevicesAgree
PROPERTIES EventuallyAllAgree
CHECK_DEADLOCK FALSE
