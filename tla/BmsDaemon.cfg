CONSTANTS
    c1 = c1
    c2 = c2
    c3 = c3
    Conns = {c1, c2, c3}
    Readers = {c1, c2, c3}
    Backlog = 1
    BufCap = 1
    FailLimit = 2
SPECIFICATION FairSpec
INVARIANTS ServedOnce NoSocketLeaks
PROPERTIES FedForever DeadClientsReaped StopsOnTerm
