SPECIFICATION FairSpec
CONSTANTS
    Kinds <- VoiceAndLink
    MaxUpdates = 2
    MaxPollers = 2
    MaxChanges = 2
    MaxFaults = 1
INVARIANTS TypeOK OneRunPerPoller PendingRowsHaveCalls
PROPERTIES ImplementsFeed EveryMessageSettles
CHECK_DEADLOCK FALSE
