------------------------------ MODULE AutoMtd ------------------------------
(***************************************************************************)
(* The modes of operation and the automatic detection of moving targets    *)
(* (src/src/state).  Four kinds of threads meet in the State objects, with *)
(* no lock:                                                                *)
(*   - the dispatcher changes the mode (StateManger::To..., State::        *)
(*     ChangeState, OperationChangeState) and, in the manual detection     *)
(*     mode, opens and closes the detector;                                *)
(*   - detached threads autoMtdMainloop, started on each entry into        *)
(*     AUTOMTD and each time a track ends, switch the detector on and wait *)
(*     for a target;                                                       *)
(*   - the IPC thread brings the detections and track states of the image  *)
(*     process (mtdhandle, recvTrkmsg);                                    *)
(*   - the message thread of DxTimer ends a track (TimeCallback).          *)
(* ipcParam, through which every command to the image process passes, is a *)
(* field of the object: the loops, the dispatcher and outTrk share the one *)
(* of StateAuto_Mtd, prm here.  One action is one access to what is shared.*)
(*                                                                         *)
(* The image process is outside: what it has found and whether it tracks   *)
(* is any value at the moment it is read, and mtden follows the last mtd   *)
(* command some time later.                                                *)
(***************************************************************************)
EXTENDS Naturals, FiniteSets

CONSTANTS Modes,        \* the modes commands ask for
          Loops,        \* bound: threads autoMtdMainloop at one time
          MaxSwitches   \* bound: mode changes in a behaviour

\* The workmode each OperationChangeState sends to the image process.
WorkMode == [AUTOMTD |-> 2, SCENETRK |-> 3, PTZ |-> 4, BOX |-> 5,
             MANUALMTD |-> 6]

ASSUME ModeAssumption ==
    /\ Modes \subseteq DOMAIN WorkMode
    /\ IsFiniteSet(Loops)
    /\ MaxSwitches \in Nat

VARIABLES curState,             \* State::curState
          obj,                  \* the object StateManger::_state points to
          prm,                  \* ipcParam.intPrm[0] of StateAuto_Mtd
          haveobj,              \* m_haveobj of the two detecting modes
          mtdStatus,            \* of ManualMtdCapture
          timer,                \* status of timeAutoMtd
          disp, ipc, tmr, loop, \* each thread's place
          ipcObj,               \* the object the IPC thread has loaded
          imageMode, mtdSent,   \* the last workmode and mtd commands sent
          mtden                 \* CFGID_RTS_mtden of the shared memory

\* History: mode changes so far; a search was started while another one was
\* alive or starting; a loop has taken a target in this visit to AUTOMTD; a
\* loop has commanded the detector since the manual mode opened it.
VARIABLES switches, overlap, taken, disturbed

objects == <<curState, obj, prm, haveobj, mtdStatus>>
image   == <<imageMode, mtdSent, mtden>>
places  == <<disp, ipc, tmr, loop>>
history == <<switches, overlap, taken, disturbed>>
vars == <<objects, timer, places, ipcObj, image, history>>

DispPlaces == {"idle", "object", "workmode", "sendWorkmode", "mtdTest",
               "sendMtd", "spawn", "enter", "open", "clear"}
LoopPlaces == {"none", "prepos", "check", "on", "sendOn", "watch", "select",
               "off", "sendOff"}
Detecting  == {"AUTOMTD", "MANUALMTD"}

TypeOK ==
    /\ curState \in Modes \cup {"PTZ"}
    /\ obj \in Modes \cup {"LINKMANUAL"} /\ ipcObj \in Modes \cup {"LINKMANUAL"}
    /\ prm \in 0 .. 3
    /\ haveobj \in [Detecting -> BOOLEAN]
    /\ mtdStatus \in BOOLEAN /\ mtden \in BOOLEAN
    /\ timer \in {"Run", "Stop"}
    /\ disp \in DispPlaces
    /\ ipc \in {"idle", "det", "trk", "out"}
    /\ tmr \in {"idle", "stop", "out"}
    /\ loop \in [Loops -> LoopPlaces]
    /\ imageMode \in 0 .. 7
    /\ mtdSent \in 0 .. 3
    /\ switches \in 0 .. MaxSwitches
    /\ overlap \in BOOLEAN /\ taken \in BOOLEAN /\ disturbed \in BOOLEAN

Alive == {l \in Loops : loop[l] # "none"}

\* The StateManger starts with a StateLinkManual, whose handlers do nothing.
Init ==
    /\ curState = "PTZ"
    /\ obj = "LINKMANUAL"
    /\ prm = 0
    /\ haveobj = [m \in Detecting |-> FALSE]
    /\ mtdStatus = FALSE
    /\ timer = "Stop"
    /\ disp = "idle" /\ ipc = "idle" /\ tmr = "idle"
    /\ loop = [l \in Loops |-> "none"]
    /\ ipcObj = "LINKMANUAL"
    /\ imageMode = 0 /\ mtdSent = 0 /\ mtden = FALSE
    /\ switches = 0
    /\ overlap = FALSE /\ taken = FALSE /\ disturbed = FALSE

-----------------------------------------------------------------------------
(***************************************************************************)
(* Starting a search: OperationChangeState of AUTOMTD and outTrk store in  *)
(* ipcParam and create a thread.                                           *)
(***************************************************************************)
\* A search is alive or being started by one of the three threads that do it.
Searching ==
    \/ Alive # {}
    \/ disp \in {"workmode", "sendWorkmode", "mtdTest", "sendMtd", "spawn"}
    \/ ipc = "out"
    \/ tmr = "out"

BeginSearch == overlap' = (overlap \/ Searching)

\* Mutant: the guard the loop's static flag stands for, made to work.
Spawn_OnlyOne ==
    IF Alive # {} THEN UNCHANGED loop
    ELSE \E l \in Loops : loop' = [loop EXCEPT ![l] = "prepos"]
\* autoMtdMainloop tests a flag that no statement ever sets, so each creation
\* starts a loop whatever loops there are.
Spawn == \E l \in Loops : /\ loop[l] = "none"
                          /\ loop' = [loop EXCEPT ![l] = "prepos"]

-----------------------------------------------------------------------------
(***************************************************************************)
(* The dispatcher: MSG_WorkMode and MSG_CaptureMode change the mode.       *)
(***************************************************************************)
\* State::ChangeState stores curState, then the object.
ChangeState(m) ==
    /\ disp = "idle"
    /\ switches < MaxSwitches
    /\ switches' = switches + 1
    /\ curState' = m
    /\ disp' = "object"
    /\ taken' = FALSE
    /\ UNCHANGED <<obj, prm, haveobj, mtdStatus, timer, ipc, tmr, loop, ipcObj,
                   image, overlap, disturbed>>

ChangeObject ==
    /\ disp = "object"
    /\ obj' = curState
    /\ IF curState = "AUTOMTD" THEN disp' = "workmode" /\ BeginSearch
                               ELSE disp' = "enter" /\ UNCHANGED overlap
    /\ UNCHANGED <<curState, prm, haveobj, mtdStatus, timer, ipc, tmr, loop,
                   ipcObj, image, switches, taken, disturbed>>

\* Mutant: the workmode command is not sent.
EnterOther_Silent ==
    /\ disp = "enter"
    /\ mtdSent' = IF mtden THEN 0 ELSE mtdSent
    /\ disp' = IF curState = "MANUALMTD" THEN "open" ELSE "idle"
    /\ UNCHANGED <<objects, timer, ipc, tmr, loop, ipcObj, imageMode, mtden,
                   history>>
\* OperationChangeState of every mode but AUTOMTD: a workmode command, and
\* OperationInterface closes the detector if the image process has it open.
\* The ipcParam of these objects belongs to the dispatcher.
EnterOther ==
    /\ disp = "enter"
    /\ imageMode' = WorkMode[curState]
    /\ mtdSent' = IF mtden THEN 0 ELSE mtdSent
    /\ disp' = IF curState = "MANUALMTD" THEN "open" ELSE "idle"
    /\ UNCHANGED <<objects, timer, ipc, tmr, loop, ipcObj, mtden, history>>

\* ManualMtdCapture then opens the detector and forgets what it had found.
OpenMtd ==
    /\ disp = "open"
    /\ mtdSent' = 1
    /\ mtdStatus' = TRUE
    /\ disturbed' = FALSE
    /\ disp' = "clear"
    /\ UNCHANGED <<curState, obj, prm, haveobj, timer, ipc, tmr, loop, ipcObj,
                   imageMode, mtden, switches, overlap, taken>>

ClearFound ==
    /\ disp = "clear"
    /\ haveobj' = [haveobj EXCEPT !["MANUALMTD"] = FALSE]
    /\ disp' = "idle"
    /\ UNCHANGED <<curState, obj, prm, mtdStatus, timer, ipc, tmr, loop,
                   ipcObj, image, history>>

\* OperationChangeState of AUTOMTD, store by store and send by send.
EnterAuto ==
    /\ \/ /\ disp = "workmode" /\ disp' = "sendWorkmode"
          /\ prm' = 2
          /\ UNCHANGED <<imageMode, mtdSent, loop>>
       \/ /\ disp = "sendWorkmode" /\ disp' = "mtdTest"
          /\ imageMode' = prm
          /\ UNCHANGED <<prm, mtdSent, loop>>
       \/ /\ disp = "mtdTest"
          /\ IF mtden THEN prm' = 0 /\ disp' = "sendMtd"
                      ELSE UNCHANGED prm /\ disp' = "spawn"
          /\ UNCHANGED <<imageMode, mtdSent, loop>>
       \/ /\ disp = "sendMtd" /\ disp' = "spawn"
          /\ mtdSent' = prm
          /\ UNCHANGED <<prm, imageMode, loop>>
       \/ /\ disp = "spawn"   \* the image process tracks
          /\ prm' = 0
          /\ UNCHANGED <<imageMode, mtdSent, loop, disp>>
       \/ /\ disp = "spawn" /\ disp' = "idle"
          /\ prm' = 2
          /\ Spawn
          /\ UNCHANGED <<imageMode, mtdSent>>
    /\ UNCHANGED <<curState, obj, haveobj, mtdStatus, timer, ipc, tmr, ipcObj,
                   mtden, history>>

InManual == disp = "idle" /\ obj = "MANUALMTD"

ManualSets(flag) ==
    /\ mtdSent' = IF flag THEN 1 ELSE 0
    /\ mtdStatus' = flag
    /\ disturbed' = FALSE
    /\ UNCHANGED <<curState, obj, prm, haveobj, timer, places, ipcObj,
                   imageMode, mtden, switches, overlap, taken>>

\* ManualMtdCapture::TrkCtrl(1) takes what has been found and closes the
\* detector; TrkCtrl(0), or an axis at rest, opens it again; a moving axis
\* closes it.
TrkCtrlOn  == InManual /\ haveobj["MANUALMTD"] /\ ManualSets(FALSE)
TrkCtrlOff == InManual /\ ~mtdStatus /\ ManualSets(TRUE)
\* Mutant: the detector is closed and mtdStatus not told.
AxisMoves_NoStatus ==
    /\ InManual
    /\ mtdStatus
    /\ mtdSent' = 0
    /\ UNCHANGED <<objects, timer, places, ipcObj, imageMode, mtden, history>>
AxisMoves  == InManual /\ mtdStatus /\ ManualSets(FALSE)
AxisStops  == InManual /\ ~mtdStatus /\ ManualSets(TRUE)

\* StateSceneSelect::TrkCtrl: a workmode of its own while a scene is tracked.
SceneTrkCtrl ==
    /\ disp = "idle" /\ obj = "SCENETRK"
    /\ imageMode' \in {WorkMode["SCENETRK"], 7}
    /\ UNCHANGED <<objects, timer, places, ipcObj, mtdSent, mtden, history>>

Dispatcher == ChangeObject \/ EnterOther \/ OpenMtd \/ ClearFound \/ EnterAuto

-----------------------------------------------------------------------------
(***************************************************************************)
(* The IPC thread: the handler of a notification is called on the object   *)
(* that _state points to, and only two modes have handlers.                *)
(***************************************************************************)
IpcLoad ==
    /\ ipc = "idle"
    /\ obj \in Detecting
    /\ ipcObj' = obj
    /\ ipc' \in IF obj = "AUTOMTD" THEN {"det", "trk"} ELSE {"det"}
    /\ UNCHANGED <<objects, timer, disp, tmr, loop, image, history>>

MtdHandle(found) ==
    /\ ipc = "det"
    /\ haveobj' = [haveobj EXCEPT ![ipcObj] = found]
    /\ ipc' = "idle"
    /\ ipcObj' = "LINKMANUAL"
    /\ UNCHANGED <<curState, obj, prm, mtdStatus, timer, disp, tmr, loop,
                   image, history>>

\* recvTrkmsg(1) starts the timer of the track, recvTrkmsg(3) ends the track;
\* any other track state changes nothing.
RecvTrkmsg(arg) ==
    /\ ipc = "trk"
    /\ ipcObj' = "LINKMANUAL"
    /\ timer' = CASE arg = 1 -> "Run" [] arg = 3 -> "Stop" [] OTHER -> timer
    /\ IF arg = 3 THEN ipc' = "out" /\ BeginSearch
                  ELSE ipc' = "idle" /\ UNCHANGED overlap
    /\ UNCHANGED <<objects, disp, tmr, loop, image, switches, taken, disturbed>>

\* outTrk: a store in ipcParam if the image process tracks (its command has
\* been commented out), then a new loop.
OutTrk == prm' \in {0, prm} /\ Spawn

IpcOut ==
    /\ ipc = "out"
    /\ OutTrk
    /\ ipc' = "idle"
    /\ UNCHANGED <<curState, obj, haveobj, mtdStatus, timer, disp, tmr, ipcObj,
                   image, history>>

Ipc == (\E b \in BOOLEAN : MtdHandle(b)) \/ (\E a \in {0, 1, 3} : RecvTrkmsg(a))
       \/ IpcOut

-----------------------------------------------------------------------------
(***************************************************************************)
(* The timer, which no mode change stops: its cycle may elapse and         *)
(* TimeCallback runs in the message thread.                                *)
(***************************************************************************)
Elapse ==
    /\ timer = "Run"
    /\ tmr = "idle"
    /\ tmr' = "stop"
    /\ UNCHANGED <<objects, timer, disp, ipc, loop, ipcObj, image, history>>

CallbackStops ==
    /\ tmr = "stop"
    /\ timer' = "Stop"
    /\ tmr' = "out"
    /\ BeginSearch
    /\ UNCHANGED <<objects, disp, ipc, loop, ipcObj, image, switches, taken,
                   disturbed>>

CallbackOut ==
    /\ tmr = "out"
    /\ OutTrk
    /\ tmr' = "idle"
    /\ UNCHANGED <<curState, obj, haveobj, mtdStatus, timer, disp, ipc, ipcObj,
                   image, history>>

Timer == Elapse \/ CallbackStops \/ CallbackOut

-----------------------------------------------------------------------------
(***************************************************************************)
(* autoMtdMainloop.                                                        *)
(***************************************************************************)
Step(l, from, to) == loop[l] = from /\ loop' = [loop EXCEPT ![l] = to]

\* The platform runs to its preset place; runToPrepos(2) says whether it has
\* got there, and the loop asks as long as the mode is AUTOMTD.
Prepos(l) ==
    /\ Step(l, "prepos", "check")
    /\ UNCHANGED <<objects, timer, disp, ipc, tmr, ipcObj, image, history>>

\* Mutant: a loop that takes the detector to be on already.
Check_AlreadyOn(l) ==
    /\ Step(l, "check", IF curState = "AUTOMTD" THEN "watch" ELSE "none")
    /\ UNCHANGED <<objects, timer, disp, ipc, tmr, ipcObj, image, history>>
Check(l) ==
    /\ Step(l, "check", IF curState = "AUTOMTD" THEN "on" ELSE "none")
    /\ UNCHANGED <<objects, timer, disp, ipc, tmr, ipcObj, image, history>>

\* Mutant: the target after the last one is selected.
StorePrm_Beyond(l) ==
    /\ \/ Step(l, "on", "sendOn") /\ prm' = 1
       \/ Step(l, "select", "off") /\ prm' = 4
       \/ Step(l, "off", "sendOff") /\ prm' = 0
    /\ UNCHANGED <<curState, obj, haveobj, mtdStatus, timer, disp, ipc, tmr,
                   ipcObj, image, history>>
\* A store in ipcParam and the mtd command that reads it: the detector is
\* switched on, or a target is selected (the mtdSelect command in between
\* changes nothing of what is modelled) and the detector switched off.
StorePrm(l) ==
    /\ \/ Step(l, "on", "sendOn") /\ prm' = 1
       \/ Step(l, "select", "off") /\ prm' = 3
       \/ Step(l, "off", "sendOff") /\ prm' = 0
    /\ UNCHANGED <<curState, obj, haveobj, mtdStatus, timer, disp, ipc, tmr,
                   ipcObj, image, history>>

SendMtd(l) ==
    /\ Step(l, "sendOn", "watch") \/ Step(l, "sendOff", "none")
    /\ mtdSent' = prm
    /\ disturbed' = TRUE
    /\ UNCHANGED <<objects, timer, disp, ipc, tmr, ipcObj, imageMode, mtden,
                   switches, overlap, taken>>

\* Mutant: a loop that waits without looking at the mode.
Watch_IgnoresMode(l) ==
    /\ haveobj["AUTOMTD"]
    /\ Step(l, "watch", "none") \/ Step(l, "watch", "select")
    /\ taken' = TRUE
    /\ UNCHANGED <<objects, timer, disp, ipc, tmr, ipcObj, image, switches,
                   overlap, disturbed>>
\* Every 10 ms: the mode has changed, or a target has been found; if the image
\* process is tracking already the loop only ends.
Watch(l) ==
    /\ \/ Step(l, "watch", "none") /\ curState # "AUTOMTD" /\ UNCHANGED taken
       \/ /\ haveobj["AUTOMTD"]
          /\ Step(l, "watch", "none") \/ Step(l, "watch", "select")
          /\ taken' = TRUE
    /\ UNCHANGED <<objects, timer, disp, ipc, tmr, ipcObj, image, switches,
                   overlap, disturbed>>

Loop(l) == Prepos(l) \/ Check(l) \/ StorePrm(l) \/ SendMtd(l) \/ Watch(l)

\* The image process has taken the last mtd command.
ImageTakesMtd ==
    /\ mtden # (mtdSent # 0)
    /\ mtden' = (mtdSent # 0)
    /\ UNCHANGED <<objects, timer, places, ipcObj, imageMode, mtdSent, history>>

-----------------------------------------------------------------------------
Next ==
    \/ \E m \in Modes : ChangeState(m)
    \/ Dispatcher
    \/ TrkCtrlOn \/ TrkCtrlOff \/ AxisMoves \/ AxisStops \/ SceneTrkCtrl
    \/ IpcLoad \/ Ipc
    \/ Timer
    \/ \E l \in Loops : Loop(l)
    \/ ImageTakesMtd

Spec == Init /\ [][Next]_vars

\* A thread that can go on goes on and a timer that runs elapses; nobody has to
\* send a command or a notification.
Fairness == /\ WF_vars(Dispatcher)
            /\ WF_vars(Ipc)
            /\ WF_vars(Timer)
            /\ \A l \in Loops : WF_vars(Loop(l))

FairSpec == Spec /\ Fairness

-----------------------------------------------------------------------------
(***************************************************************************)
(* Properties.                                                             *)
(***************************************************************************)

\* Between commands the image process has been told the mode that the program
\* is in, unless two threads used the ipcParam of AUTOMTD at the same time.
ImageFollows ==
    disp = "idle" /\ obj = curState /\ (curState = "AUTOMTD" => ~overlap)
        => \/ imageMode = WorkMode[curState]
           \/ curState = "SCENETRK" /\ imageMode = 7

\* In AUTOMTD there is always a search, or a target has been taken since the
\* mode was entered: however fast the mode is left and entered again, no order
\* of the threads loses the loop.
SearchAlive ==
    obj = "AUTOMTD" /\ disp = "idle" => Searching \/ taken

\* In the manual mode the detector is as mtdStatus says, unless a loop that has
\* outlived AUTOMTD commanded it after the mode last did.  And a loop of AUTOMTD
\* that waits for a target has the detector on, as long as no search was started
\* while another was alive or starting.
MtdStatusTruthful ==
    /\ InManual /\ ~disturbed => mtdStatus = (mtdSent # 0)
    /\ ~overlap /\ curState = "AUTOMTD" /\ disp = "idle"
           => \A l \in Loops : loop[l] = "watch" => mtdSent # 0

\* Once AUTOMTD has been left for good its loops end and its timer stops.
SearchEnds ==
    <>[](curState # "AUTOMTD") => <>[](Alive = {} /\ timer = "Stop")
=============================================================================
