CONSTANTS
    a = a
    b = b
    Svcs <- MCSvcs
    IDs <- MCIDs
    InitLabels <- MCLabelsNone
    MaxSvcEdits = 0
    MaxPlanEdits = 1
    MaxFaults = 0
SPECIFICATION MCSpec
PROPERTY PlanFollowsSpec
CHECK_DEADLOCK FALSE
