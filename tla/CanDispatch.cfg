CONSTANTS
    Drivers = {own, other}
    Own = own
    MaxFrames = 4
    MaxStale = 2
SPECIFICATION FairSpec
INVARIANTS
    TypeOK
    NoDanglingEntry
    UnmovedIsServed
    WorkStateIsLatest
PROPERTIES
    DaemonExits
CHECK_DEADLOCK FALSE
