------------------------------ MODULE Commands ------------------------------
(***************************************************************************)
(* The ways a command takes into the program: the parser of the links'      *)
(* frames (FrameParser), the serial line of the image process (Uart803),    *)
(* the joystick (Joystick), the commands that change the mode (ModeInput),  *)
(* the requests that are answered (Requests) and the settings (Settings).   *)
(* None reads what another writes, so that one specification explores them *)
(* side by side: each behaviour moves the part that its first state names,  *)
(* and variables of the same name are that part's.                          *)
(***************************************************************************)
EXTENDS Requests

CONSTANTS FrameContents, FrameNoise, MaxFrames                  \* of FrameParser,
CONSTANTS LineContents, LineNoise, Errors, Garbage, Files,      \* Uart803,
          MaxLine, MaxStarts
CONSTANTS Joysticks, QueueLen, MaxPresses                       \* ModeInput,
CONSTANTS Povs, Buttons, Heights, LinkZooms, MaxReports, MaxPending   \* Joystick
CONSTANTS Watched, SettingCommands, Shipped, Factory, Positions,      \* and Settings
          Octet, MaxCommands

VARIABLE part
VARIABLES wire, buf, reading, good, sent, owner, mixed
VARIABLES trktime, file, told, com1, before, made
VARIABLES workmode, capturemode, at, captureModeBack, disp, msg,
          curState, workAck, presses, missed
VARIABLES report, todo, bak, index, Iris_Focus, zoomctrl, sectrkctrl, irisctrl,
          focusctrl, trken, setSpeed, reports, meddled
VARIABLES table, profile, ipc, image, status, platform, phase, doing, saver,
          commands, starts, during, marks

-----------------------------------------------------------------------------
Frames  == INSTANCE FrameParser WITH Contents <- FrameContents, Noise <- FrameNoise,
                                     MaxSent <- MaxFrames
Line803 == INSTANCE Uart803 WITH Contents <- LineContents, Noise <- LineNoise,
                                 MaxSent <- MaxLine
Mode    == INSTANCE ModeInput
Stick   == INSTANCE Joystick
Table   == INSTANCE Settings WITH Commands <- SettingCommands

CommandsAssumption ==
    /\ RequestsAssumption /\ Frames!ParserAssumption /\ Line803!Uart803Assumption
    /\ Mode!InputAssumption /\ Stick!JoystickAssumption /\ Table!SettingsAssumption
ASSUME CommandsAssumption

-----------------------------------------------------------------------------
bytesVars == <<wire, buf, reading, good, sent>>
linksVars == <<owner, mixed>>
lineVars == <<trktime, file, told, com1, before, made>>
runVars == <<phase, starts>>
doneVars == commands
messagesVars == queue
handlingVars == handled
modeVars == <<workmode, capturemode, at, captureModeBack, disp, msg, curState,
              workAck, presses, missed>>
stickVars == <<report, todo, bak, index, Iris_Focus, zoomctrl, sectrkctrl, irisctrl,
               focusctrl, trken, setSpeed, reports, meddled>>
askVars == <<comtype, field, vector, rx, dispatcher, permit, worker, exist, asked,
             answers, closed, crossed, undefined>>
tableVars == <<table, profile, ipc, image, status, platform, doing, saver, during,
               marks>>
allVars == <<part, bytesVars, linksVars, lineVars, runVars, doneVars, messagesVars,
             handlingVars, modeVars, stickVars, askVars, tableVars>>

\* The variables of the parts that do not move are 0.
NoBytes ==
    /\ wire = 0 /\ buf = 0 /\ reading = 0 /\ good = 0 /\ sent = 0
NoLinks ==
    /\ owner = 0 /\ mixed = 0
NoLine ==
    /\ trktime = 0 /\ file = 0 /\ told = 0 /\ com1 = 0 /\ before = 0 /\ made = 0
NoRun ==
    /\ phase = 0 /\ starts = 0
NoDone ==
    /\ commands = 0
NoMessages ==
    /\ queue = 0
NoHandling ==
    /\ handled = 0
NoMode ==
    /\ workmode = 0 /\ capturemode = 0 /\ at = 0 /\ captureModeBack = 0 /\ disp = 0
    /\ msg = 0 /\ curState = 0 /\ workAck = 0 /\ presses = 0 /\ missed = 0
NoStick ==
    /\ report = 0 /\ todo = 0 /\ bak = 0 /\ index = 0 /\ Iris_Focus = 0
    /\ zoomctrl = 0 /\ sectrkctrl = 0 /\ irisctrl = 0 /\ focusctrl = 0 /\ trken = 0
    /\ setSpeed = 0 /\ reports = 0 /\ meddled = 0
NoAsk ==
    /\ comtype = 0 /\ field = 0 /\ vector = 0 /\ rx = 0 /\ dispatcher = 0
    /\ permit = 0 /\ worker = 0 /\ exist = 0 /\ asked = 0 /\ answers = 0 /\ closed = 0
    /\ crossed = 0 /\ undefined = 0
NoTable ==
    /\ table = 0 /\ profile = 0 /\ ipc = 0 /\ image = 0 /\ status = 0 /\ platform = 0
    /\ doing = 0 /\ saver = 0 /\ during = 0 /\ marks = 0

InitPart ==
    \/ /\ part = "frames" /\ Frames!Init
       /\ NoLine /\ NoRun /\ NoMessages /\ NoHandling /\ NoMode /\ NoStick /\ NoAsk
       /\ NoTable
    \/ /\ part = "803" /\ Line803!Init
       /\ NoLinks /\ NoDone /\ NoMessages /\ NoHandling /\ NoMode /\ NoStick /\ NoAsk
       /\ NoTable
    \/ /\ part = "mode" /\ Mode!Init
       /\ NoBytes /\ NoLinks /\ NoLine /\ NoRun /\ NoDone /\ NoStick /\ NoAsk
       /\ NoTable
    \/ /\ part = "joystick" /\ Stick!Init
       /\ NoBytes /\ NoLinks /\ NoLine /\ NoRun /\ NoDone /\ NoHandling /\ NoMode
       /\ NoAsk /\ NoTable
    \/ /\ part = "requests" /\ Init
       /\ NoBytes /\ NoLinks /\ NoLine /\ NoRun /\ NoDone /\ NoMode /\ NoStick
       /\ NoTable
    \/ /\ part = "settings" /\ Table!Init
       /\ NoBytes /\ NoLinks /\ NoLine /\ NoMessages /\ NoHandling /\ NoMode
       /\ NoStick /\ NoAsk

NextOfPart ==
    /\ UNCHANGED part
    /\ \/ /\ part = "frames" /\ Frames!Next
          /\ UNCHANGED <<lineVars, runVars, messagesVars, handlingVars, modeVars,
                         stickVars, askVars, tableVars>>
       \/ /\ part = "803" /\ Line803!Next
          /\ UNCHANGED <<linksVars, doneVars, messagesVars, handlingVars, modeVars,
                         stickVars, askVars, tableVars>>
       \/ /\ part = "mode" /\ Mode!Next
          /\ UNCHANGED <<bytesVars, linksVars, lineVars, runVars, doneVars, stickVars,
                         askVars, tableVars>>
       \/ /\ part = "joystick" /\ Stick!Next
          /\ UNCHANGED <<bytesVars, linksVars, lineVars, runVars, doneVars,
                         handlingVars, modeVars, askVars, tableVars>>
       \/ /\ part = "requests" /\ Next
          /\ UNCHANGED <<bytesVars, linksVars, lineVars, runVars, doneVars, modeVars,
                         stickVars, tableVars>>
       \/ /\ part = "settings" /\ Table!Next
          /\ UNCHANGED <<bytesVars, linksVars, lineVars, messagesVars, handlingVars,
                         modeVars, stickVars, askVars>>

SpecOfParts == InitPart /\ [][NextOfPart]_allVars

-----------------------------------------------------------------------------
\* Each part has its types.
TypesOK ==
    CASE part = "frames"   -> Frames!TypeOK
      [] part = "803"      -> Line803!TypeOK
      [] part = "mode"     -> Mode!TypeOK
      [] part = "joystick" -> Stick!TypeOK
      [] part = "requests" -> TypeOK
      [] part = "settings" -> Table!TypeOK

\* Each link's commands are its good frames, in order, and the parser looks for a
\* head between frames (eventParsing.cpp).
CommandsAreFrames == part = "frames" => Frames!CommandsAreFrames /\ Frames!BackToHunt

\* The image process hears what the good frames of the serial line say and the
\* time of tracking it had before, and an error can be read back from its frame
\* (803uart.cpp).
Link803 == part = "803" => Line803!ImageHears /\ Line803!ErrorReadsBack

\* The mode is the one that the commands and presses ask for, and the work mode
\* reported is its own (EventManager.cpp).
FollowsInput == part = "mode" => Mode!FollowsInput /\ Mode!WorkAckTrue

\* With all buttons released nothing runs on (eventParsing.cpp).
ReleasedMeansOff == part = "joystick" => Stick!ReleasedMeansOff

\* An answer goes to the link that asked (EventManager.cpp).
AnswersReachAsker == part = "requests" => AnswersAsker

\* No setting is left behind between receivers and dispatcher (EventManager.cpp).
SettingsHandled == part = "requests" => NoSettingLeft

\* What was saved is there after a restart (SaveConfig, ReadConfigFile).
SettingsReturn == part = "settings" => Table!SavedSettingsReturn

\* The image process and the platform work with the settings of the table, and the
\* table has the status of the image process (SetConfig, updateparams, ipcProc.cpp).
SettingsReachUsers ==
    part = "settings" =>
        Table!ImageHasSettings /\ Table!PlatformHasTuning /\ Table!StatusIsImages
=============================================================================
