SPECIFICATION Spec
CONSTANTS
    Modes = {"AUTOMTD", "PTZ"}
    Loops = {l1, l2}
    MaxSwitches = 3
SYMMETRY LoopSymmetry
INVARIANTS TypeOK SearchAlive
CHECK_DEADLOCK FALSE
