SPECIFICATION FairSpec
CONSTANTS
    Producers = {p1, p2}
    Consumers = {c1}
    Handles = {h1, h2, h3}
    Msgs = {m1, m2}
    OSA_MSGQ_LEN_MAX = 2
    NoHandle = NoHandle
    NoMsg = NoMsg
PROPERTIES ServesEventually BlockedSendersMove
