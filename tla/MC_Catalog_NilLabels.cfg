CONSTANTS
    a = a
    b = b
    Svcs <- MCSvcs
    IDs <- MCIDs
    InitLabels <- MCLabelsNil
    MaxSvcEdits = 0
    MaxPlanEdits = 0
    MaxFaults = 0
SPECIFICATION Spec
SYMMETRY MCSymmetry
INVARIANT NoPanic
CHECK_DEADLOCK FALSE
