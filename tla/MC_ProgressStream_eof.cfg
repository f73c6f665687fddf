CONSTANTS
    MaxProgress <- MC_MaxProgress
    Tracked <- MC_Tracked
SPECIFICATION Spec
INVARIANT SuccessOnlyAfterComplete
CHECK_DEADLOCK FALSE
