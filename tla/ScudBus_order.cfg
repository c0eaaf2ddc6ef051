CONSTANTS
    MaxQueries = 6
    MaxLate = 3
SPECIFICATION Spec
INVARIANTS EachRecordIsNew CellsFollowBase StaleOnlyIfLate
