CONSTANTS
    a = a
    b = b
    Svcs <- MCSvcs
    IDs <- MCIDs
    InitLabels <- MCLabelsSet
    MaxSvcEdits = 1
    MaxPlanEdits = 1
    MaxFaults = 1
SPECIFICATION Spec
PROPERTY ServiceLabelsConverge
PROPERTY AbsSpec
CHECK_DEADLOCK FALSE
