CONSTANTS
    PreWrite = 10
    Timeout = 300
    Select = 10
    Pause = 1000
    Reopen = 1000
    FailLimit = 5
    Lag = 50
    StaleMs = 3000
    ReplyTimes = {0, 100, 300}
    AcceptTimes = {0, 10}
    MaxMissed = 6
SPECIFICATION Spec
INVARIANTS OneMissTolerated ThreeMissesSeen
