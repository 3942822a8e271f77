CONSTANTS
    a = a
    b = b
    Svcs <- MCSvcs
    IDs <- MCIDs
    InitLabels <- MCLabelsNil
    MaxSvcEdits = 1
    MaxPlanEdits = 1
    MaxFaults = 1
SPECIFICATION Spec
SYMMETRY MCSymmetry
INVARIANT SpecNeverReverted
CHECK_DEADLOCK FALSE
