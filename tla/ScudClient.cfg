CONSTANTS
    c1 = c1
    Callers = {c1}
    StaleAfter = 1
    MaxLag = 1
    MaxNow = 3
    BufCap = 3
SPECIFICATION FairSpec
INVARIANTS TypeOK CacheNeverTorn FreshnessEarned
PROPERTIES AnswersEarned PartialNeverLingers DestructorReturns
