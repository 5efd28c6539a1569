SPECIFICATION Spec
CONSTANTS
    Producers = {p1, p2}
    Consumers = {c1, c2}
    Handles = {h1, h2, h3, h4}
    Msgs = {m1, m2}
    OSA_MSGQ_LEN_MAX = 2
    NoHandle = NoHandle
    NoMsg = NoMsg
SYMMETRY ThreadSymmetry
INVARIANTS TypeOK RingInv OneOwner NoLostWakeup
PROPERTIES ImplementsFifo
