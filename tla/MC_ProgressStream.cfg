CONSTANTS
    MaxProgress <- MC_MaxProgress
    Tracked <- MC_Tracked
SPECIFICATION Spec
INVARIANT CompleteWins
INVARIANT TrackerMatchesOutcome
PROPERTY EveryCallReturns
PROPERTY TransferRefined
\* The call returns and the response ends: the system really stops.
CHECK_DEADLOCK FALSE
