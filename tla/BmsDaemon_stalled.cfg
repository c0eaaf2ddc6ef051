CONSTANTS
    c1 = c1
    c2 = c2
    Conns = {c1, c2}
    Readers = {c1}
    Backlog = 0
    BufCap = 1
    FailLimit = 2
SPECIFICATION FairSpec
PROPERTY FedForever
