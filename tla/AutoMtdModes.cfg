SPECIFICATION FairSpec
CONSTANTS
    Modes = {"AUTOMTD", "MANUALMTD", "SCENETRK"}
    Loops = {l1}
    MaxSwitches = 2
INVARIANTS ImageFollows 
PROPERTIES SearchEnds
CHECK_DEADLOCK FALSE
