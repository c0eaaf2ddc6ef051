CONSTANTS
    Bytes = {{}, {0}, {1}, {2}, {3}, {4}, {5}, {6}, {7}, {1, 2, 3, 4, 5, 6, 7},
             {0, 1, 2, 3, 4, 5, 6, 7}}
    MaxLen = 3
SPECIFICATION SumSpec
INVARIANTS
    IsXmodem
    IsModbus
CHECK_DEADLOCK FALSE
