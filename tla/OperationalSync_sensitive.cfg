SPECIFICATION Spec
CONSTANTS
    d1 = d1
    d2 = d2
    Devices = {d1, d2}
    Sensitive = TRUE
    Skews <- InStep
    AcceptedSkew = 5
    MaxEdits = 3
    MaxFailures = 0
SYMMETRY DeviceSymmetry
INVARIANTS TypeOK NoEditLostLocally LaterEditsStayQueued
CHECK_DEADLOCK FALSE
