CONSTANTS
    a = a
    b = b
    Svcs <- MCSvcs
    IDs <- MCIDs
    InitLabels <- MCLabelsNone
    MaxSvcEdits = 2
    MaxPlanEdits = 0
    MaxFaults = 0
SPECIFICATION MCSpec
SYMMETRY MCSymmetry
INVARIANT OwnerMatchesList
CHECK_DEADLOCK FALSE
