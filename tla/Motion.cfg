SPECIFICATION SpecOfParts
CONSTANTS
    Channels = {0, 1}
    Given <- MCGiven
    Varied <- MCVaried
    Choices <- MCChoices
    Zooms = {17, 105, 200}
    MaxChanges = 4
    JosParams <- MCJosParams
    PidParams <- MCPidParams
    Sticks <- MCSticks
    Errors <- MCErrors
    FrameNum = 2
    MaxInputs = 4
    Set = {"pan"}
    Positions = {0, 3000}
    Targets = {3000}
    MaxCalls = 2
    MaxLosses = 2
    MaxAnswers = 1
    Speeds = {0, 5}
    Values = {300}
    Queries = {3, 7}
INVARIANTS
    TypesOK
    
    
    UnitFollows
    MotionIsMotion

    
    
CHECK_DEADLOCK FALSE
