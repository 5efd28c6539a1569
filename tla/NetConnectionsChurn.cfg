SPECIFICATION FairSpec
CONSTANTS
    Clients = {k1, k2, k3}
    Blocks = {b1, b2}
    Fds = {4, 5}
    MaxAsked = 2
    NoClient = NoClient
    NoBlock = NoBlock
INVARIANTS TypeOK LiveKept AnswersHome
PROPERTIES DroppedOnlyBehindClosed ClosedReclaimed
CHECK_DEADLOCK FALSE
