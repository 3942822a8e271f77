CONSTANTS
    a = a
    b = b
    Svcs <- MCSvcs
    IDs <- MCIDs
    InitLabels <- MCLabelsNone
    MaxSvcEdits = 0
    MaxPlanEdits = 0
    MaxFaults = 1
SPECIFICATION MCSpec
PROPERTY PlanFollowsSpec
CHECK_DEADLOCK FALSE
