SPECIFICATION SpecOfParts
CONSTANTS
    Links = {"serial", "net"}
    Commands = {"SetCfg", "Trk", "TrkOutput", "SetZoom"}
    QueSize = 2
    MaxAsked = 3
    FrameContents <- MCFrameContents
    FrameNoise <- MCFrameNoise
    MaxFrames = 4
    LineContents <- MCLineContents
    LineNoise <- MCLineNoise
    Errors <- MCErrors
    Garbage = {77}
    Files <- MCFiles
    MaxLine = 3
    MaxStarts = 2
    Joysticks = {"js"}
    QueueLen = 2
    MaxPresses = 3
    Povs = {"released", "js_1", "js_3"}
    Buttons = {"released", "js_6", "js_11"}
    Heights = {"mid", "high"}
    LinkZooms = {1}
    MaxReports = 6
    MaxPending = 1
    Watched <- MCWatched
    SettingCommands <- MCSettingCommands
    Shipped <- MCShipped
    Factory <- MCFactory
    Positions = {9}
    Octet = 4
    MaxCommands = 2
INVARIANTS
    TypesOK
    CommandsAreFrames
    
    FollowsInput
    ReleasedMeansOff
    AnswersReachAsker
    SettingsHandled
    SettingsReturn
    
CHECK_DEADLOCK FALSE
