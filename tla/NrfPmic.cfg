CONSTANTS
    MaxLines = 3
    MaxInput = 4
SPECIFICATION FairSpec
INVARIANTS
    WholeLinesUnlessShared
    OneReportUnlessShared
    UndisturbedPollIsCached
PROPERTIES
    CacheMovesForward
    DestructorReturns
CHECK_DEADLOCK FALSE
