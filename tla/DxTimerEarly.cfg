SPECIFICATION Spec
CONSTANTS
    Users = {u1}
    NumTimers = 1
    Periods = {1,2}
    Ops = {"start", "stop"}
    QueueLen = 2
    CntMod = 4
    LastStart = 2
    MaxNow = 3
PROPERTIES NotEarly
