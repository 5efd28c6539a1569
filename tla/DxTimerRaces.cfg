SPECIFICATION Spec
CONSTANTS
    Users = {u1}
    NumTimers = 1
    Periods = {1, 2}
    Ops = {"start", "stop", "reset"}
    QueueLen = 1
    CntMod = 4
    LastStart = 3
    MaxNow = 3
INVARIANTS TypeOK CaughtUp
PROPERTIES EarlyOnlyByOverlap
