SPECIFICATION FairSpec
CONSTANTS
    Users = {u1}
    NumTimers = 2
    Periods = {1}
    Ops = {"start"}
    QueueLen = 2
    CntMod = 8
    LastStart = 1
    MaxNow = 4
PROPERTIES FiresEventually
