CONSTANTS
    Protocols = {"TWS", "GF"}
    MaxQueries = 7
    MaxLate = 4
    ReopenAfter = 2
SPECIFICATION Spec
INVARIANTS
    TypeOK
    RoundIsNews
    CalmQueryGetsItsReply
    WrongRegisterNeedsThreeLate
PROPERTIES
    ImplementsCarryForward
