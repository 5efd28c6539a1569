SPECIFICATION FairSpec
CONSTANTS
    Writers = {ipc}
    Links = {serial, net}
    Commands = {"SetConfig", "DefaultConfig", "feedback"}
    MaySkip = TRUE
    MaxAsked = 3
INVARIANTS TypeOK SlotGuarded AnsweredInOrder
PROPERTIES EveryCommandAnswered
CHECK_DEADLOCK FALSE
