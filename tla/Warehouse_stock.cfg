SPECIFICATION Spec
CONSTANTS
    mic = mic
    light = light
    p1 = p1
    p2 = p2
    s1 = s1
    s2 = s2
    c1 = c1
    c2 = c2
    Nothing = Nothing
    Assets = {mic, light}
    Projects = {p1, p2}
    FirstProjects <- OneProject
    Slips = {s1, s2}
    Cases = {c1, c2}
    StartQuantity = 2
    MaxQuantity = 3
    MaxUnits = 2
    MaxCommands = 4
SYMMETRY Interchangeable
INVARIANTS TypeOK SlipStatusMatchesItems AssignmentHoldsUnits
PROPERTY DriftsOnlyByThree
CHECK_DEADLOCK FALSE
