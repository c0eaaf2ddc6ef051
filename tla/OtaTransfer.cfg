CONSTANTS
    Blocks = 3
    MaxPending = 4
    MaxRuns = 2
SPECIFICATION FairSpec
CHECK_DEADLOCK FALSE
INVARIANTS TypeOK InStep SuccessIsWhole SurvivesTwoFaults
PROPERTY RunEnds
