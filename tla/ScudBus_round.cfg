CONSTANTS
    MaxQueries = 6
    MaxLate = 3
SPECIFICATION Spec
INVARIANT NothingFromAnOlderRound
