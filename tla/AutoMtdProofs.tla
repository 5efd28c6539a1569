--------------------------- MODULE AutoMtdProofs ---------------------------
(***************************************************************************)
(* Theorems about AutoMtd for any modes, any number of loops and of mode   *)
(* changes.                                                                *)
(***************************************************************************)
EXTENDS AutoMtd, TLAPS

InAuto == disp \in {"workmode", "sendWorkmode", "mtdTest", "sendMtd", "spawn"}

\* TypeOK in two halves: what is TRUE or FALSE, and the rest.
Flags ==
    /\ haveobj \in [Detecting -> BOOLEAN]
    /\ mtdStatus \in BOOLEAN /\ mtden \in BOOLEAN
    /\ overlap \in BOOLEAN /\ taken \in BOOLEAN /\ disturbed \in BOOLEAN
Values ==
    /\ curState \in Modes \cup {"PTZ"}
    /\ obj \in Modes \cup {"LINKMANUAL"} /\ ipcObj \in Modes \cup {"LINKMANUAL"}
    /\ prm \in 0 .. 3
    /\ timer \in {"Run", "Stop"}
    /\ disp \in DispPlaces
    /\ ipc \in {"idle", "det", "trk", "out"}
    /\ tmr \in {"idle", "stop", "out"}
    /\ loop \in [Loops -> LoopPlaces]
    /\ imageMode \in 0 .. 7
    /\ mtdSent \in 0 .. 3
    /\ switches \in 0 .. MaxSwitches

\* Where the dispatcher is says which mode is being entered; after the first
\* mode change the object is that mode's whenever the dispatcher is not between
\* its two stores.
Places ==
    /\ disp = "object" => curState \in Modes
    /\ disp \in {"workmode", "sendWorkmode", "mtdTest", "sendMtd", "spawn"}
          => curState = "AUTOMTD"
    /\ disp \in {"open", "clear"} => curState = "MANUALMTD"
    /\ disp = "enter" => curState # "AUTOMTD"
    /\ \/ disp = "object"
       \/ obj = curState
       \/ disp = "idle" /\ obj = "LINKMANUAL" /\ curState = "PTZ"

\* As long as no search was started while another was alive or starting, there is
\* at most one, so that the ipcParam of AUTOMTD is used by one thread at a time
\* and carries what that thread has stored.
OneSearch ==
    ~overlap =>
        /\ \A l, k \in Loops : loop[l] # "none" /\ loop[k] # "none" => l = k
        /\ InAuto => Alive = {} /\ ipc # "out" /\ tmr # "out"
        /\ ipc = "out" => Alive = {} /\ tmr # "out"
        /\ tmr = "out" => Alive = {}
        /\ disp = "sendWorkmode" => prm = 2
        /\ \A l \in Loops : loop[l] = "sendOn" => prm = 1

\* The workmode command has been sent by the end of the entry into a mode.
ModeSent ==
    /\ disp \in {"mtdTest", "sendMtd", "spawn"} /\ ~overlap => imageMode = 2
    /\ disp \in {"open", "clear"} => imageMode = WorkMode[curState]

\* The detector commands that mtdStatus speaks of.
DetectorSent ==
    /\ disp = "clear" /\ ~disturbed => mtdStatus = (mtdSent # 0)

\* A loop that has not taken a target yet.
Fresh(l) == loop[l] \in {"prepos", "check", "on", "sendOn", "watch"}
FreshLoop ==
    curState = "AUTOMTD" /\ disp = "idle" => taken \/ \E l \in Loops : Fresh(l)

IInv == /\ Flags /\ Values /\ Places /\ OneSearch /\ ModeSent /\ DetectorSent /\ FreshLoop
        /\ ImageFollows /\ MtdStatusTruthful

-----------------------------------------------------------------------------
LEMMA WorkModes ==
    /\ WorkMode["AUTOMTD"] = 2 /\ WorkMode["SCENETRK"] = 3 /\ WorkMode["PTZ"] = 4
    /\ WorkMode["BOX"] = 5 /\ WorkMode["MANUALMTD"] = 6
    /\ \A m \in DOMAIN WorkMode : WorkMode[m] \in 2 .. 6
BY DEF WorkMode

LEMMA ModesHaveWorkMode ==
    ASSUME ModeAssumption, NEW m \in Modes \cup {"PTZ"}
    PROVE  m \in DOMAIN WorkMode
BY DEF ModeAssumption, WorkMode

LEMMA TypesApart == TypeOK <=> Flags /\ Values
BY DEF TypeOK, Flags, Values

LEMMA InvHolds == ASSUME ModeAssumption, Init PROVE IInv
<1> USE DEF Init, Alive
<1>0. Flags
    BY DEF Flags
<1>1. Values
    BY DEF ModeAssumption, Values, DispPlaces, LoopPlaces
<1>2. Places /\ OneSearch /\ ModeSent /\ DetectorSent /\ FreshLoop
    BY DEF Places, OneSearch, InAuto, ModeSent, DetectorSent, FreshLoop
<1>3. ImageFollows /\ MtdStatusTruthful
    BY DEF ImageFollows, MtdStatusTruthful, InManual
<1> QED  BY <1>0, <1>1, <1>2, <1>3 DEF IInv

LEMMA InvKept == ASSUME ModeAssumption, IInv, [Next]_vars PROVE IInv'
<1> USE DEF IInv, objects, image, places, history, Alive
<1>1. CASE \E m \in Modes : ChangeState(m)
  <2> PICK m \in Modes : ChangeState(m)
      BY <1>1
  <2>1. Flags'
      BY DEF ChangeState, Flags
  <2>2. Values'
      BY DEF ChangeState, Values, DispPlaces, LoopPlaces
  <2>3. Places' /\ ModeSent' /\ DetectorSent'
      BY WorkModes DEF ChangeState, Places, ModeSent, DetectorSent
  <2>4. OneSearch' /\ FreshLoop'
      BY DEF ChangeState, Values, Places, OneSearch, FreshLoop, Fresh,
         InAuto
  <2>5. ImageFollows' /\ MtdStatusTruthful'
      BY WorkModes DEF ChangeState, Values, Places, OneSearch, ModeSent,
         DetectorSent, ImageFollows, MtdStatusTruthful, InManual, InAuto
  <2> QED  BY <2>1, <2>2, <2>3, <2>4, <2>5
<1>2. CASE ChangeObject
  <2>1. Flags'
      BY <1>2 DEF ChangeObject, BeginSearch, Searching, Flags
  <2>2. Values'
      BY <1>2 DEF ChangeObject, BeginSearch, Searching, Places, Values,
         DispPlaces, LoopPlaces
  <2>3. Places' /\ ModeSent' /\ DetectorSent'
      BY <1>2, WorkModes DEF ChangeObject, BeginSearch, Searching,
         Places, ModeSent, DetectorSent
  <2>4. OneSearch' /\ FreshLoop'
      BY <1>2 DEF ChangeObject, BeginSearch, Searching, Values, Places,
         OneSearch, FreshLoop, Fresh, InAuto
  <2>5. ImageFollows' /\ MtdStatusTruthful'
      BY <1>2, WorkModes DEF ChangeObject, BeginSearch, Searching,
         Values, Places, OneSearch, ModeSent, DetectorSent,
         ImageFollows, MtdStatusTruthful, InManual, InAuto
  <2> QED  BY <2>1, <2>2, <2>3, <2>4, <2>5
<1>3. CASE EnterOther
  <2>1. Flags'
      BY <1>3, ModesHaveWorkMode DEF EnterOther, Flags
  <2>2. Values'
      BY <1>3, ModesHaveWorkMode, WorkModes DEF EnterOther, Values,
         DispPlaces, LoopPlaces
  <2>3. Places' /\ ModeSent' /\ DetectorSent'
      BY <1>3, WorkModes DEF EnterOther, Places, ModeSent, DetectorSent
  <2>4. OneSearch' /\ FreshLoop'
      BY <1>3 DEF EnterOther, Values, Places, OneSearch, FreshLoop,
         Fresh, InAuto
  <2>5. ImageFollows' /\ MtdStatusTruthful'
      BY <1>3, WorkModes DEF EnterOther, Values, Places, OneSearch,
         ModeSent, DetectorSent, ImageFollows, MtdStatusTruthful,
         InManual, InAuto
  <2> QED  BY <2>1, <2>2, <2>3, <2>4, <2>5
<1>4. CASE OpenMtd
  <2>1. Flags'
      BY <1>4 DEF OpenMtd, Flags
  <2>2. Values'
      BY <1>4 DEF OpenMtd, Values, DispPlaces, LoopPlaces
  <2>3. Places' /\ ModeSent'
      BY <1>4, WorkModes DEF OpenMtd, Places, ModeSent
  <2>4. DetectorSent'
    <3>1. mtdStatus' = TRUE
        BY <1>4 DEF OpenMtd
    <3>2. (mtdSent' # 0) = TRUE
        BY <1>4 DEF OpenMtd
    <3> QED  BY <3>1, <3>2 DEF DetectorSent
  <2>5. OneSearch' /\ FreshLoop'
      BY <1>4 DEF OpenMtd, Values, Places, OneSearch, FreshLoop, Fresh,
         InAuto
  <2>6. ImageFollows' /\ MtdStatusTruthful'
      BY <1>4, WorkModes DEF OpenMtd, Values, Places, OneSearch,
         ModeSent, DetectorSent, ImageFollows, MtdStatusTruthful,
         InManual, InAuto
  <2> QED  BY <2>1, <2>2, <2>3, <2>4, <2>5, <2>6
<1>5. CASE ClearFound
  <2>1. Flags'
      BY <1>5 DEF ClearFound, Flags
  <2>2. Values'
      BY <1>5 DEF ClearFound, Values, DispPlaces, LoopPlaces
  <2>3. Places' /\ ModeSent' /\ DetectorSent'
      BY <1>5, WorkModes DEF ClearFound, Places, ModeSent, DetectorSent
  <2>4. OneSearch' /\ FreshLoop'
      BY <1>5 DEF ClearFound, Values, Places, OneSearch, FreshLoop,
         Fresh, InAuto
  <2>5. ImageFollows' /\ MtdStatusTruthful'
      BY <1>5, WorkModes DEF ClearFound, Values, Places, OneSearch,
         ModeSent, DetectorSent, ImageFollows, MtdStatusTruthful,
         InManual, InAuto
  <2> QED  BY <2>1, <2>2, <2>3, <2>4, <2>5
<1>6. CASE EnterAuto
  <2>1. Flags'
      BY <1>6, ModesHaveWorkMode DEF EnterAuto, Spawn, Flags
  <2>2. Values'
      BY <1>6, ModesHaveWorkMode DEF EnterAuto, Spawn, Values,
         DispPlaces, LoopPlaces
  <2>3. Places' /\ DetectorSent'
      BY <1>6 DEF EnterAuto, Spawn, Places, DetectorSent
  <2>4. ModeSent'
      BY <1>6, WorkModes DEF EnterAuto, Spawn, ModeSent, Places,
         OneSearch, InAuto
  <2>5. OneSearch' /\ FreshLoop'
      BY <1>6 DEF EnterAuto, Spawn, Values, Places, OneSearch,
         FreshLoop, Fresh, InAuto
  <2>6. ImageFollows' /\ MtdStatusTruthful'
      BY <1>6, WorkModes DEF EnterAuto, Spawn, Values, Places,
         OneSearch, ModeSent, DetectorSent, ImageFollows,
         MtdStatusTruthful, InManual, InAuto
  <2> QED  BY <2>1, <2>2, <2>3, <2>4, <2>5, <2>6
<1>7. CASE TrkCtrlOn \/ TrkCtrlOff \/ AxisMoves \/ AxisStops
  <2>1. Flags'
      BY <1>7 DEF TrkCtrlOn, TrkCtrlOff, AxisMoves, AxisStops,
         ManualSets, InManual, Flags
  <2>2. Values'
      BY <1>7 DEF TrkCtrlOn, TrkCtrlOff, AxisMoves, AxisStops,
         ManualSets, InManual, Values, DispPlaces, LoopPlaces
  <2>3. Places' /\ ModeSent' /\ DetectorSent'
      BY <1>7, WorkModes DEF TrkCtrlOn, TrkCtrlOff, AxisMoves,
         AxisStops, ManualSets, InManual, Places, ModeSent, DetectorSent
  <2>4. OneSearch' /\ FreshLoop'
      BY <1>7 DEF TrkCtrlOn, TrkCtrlOff, AxisMoves, AxisStops,
         ManualSets, InManual, Values, Places, OneSearch, FreshLoop,
         Fresh, InAuto
  <2>5. ImageFollows'
      BY <1>7, WorkModes DEF TrkCtrlOn, TrkCtrlOff, AxisMoves,
         AxisStops, ManualSets, InManual, Places, ImageFollows
  <2>6. MtdStatusTruthful'
    <3>1. \/ mtdStatus' = TRUE /\ mtdSent' = 1
          \/ mtdStatus' = FALSE /\ mtdSent' = 0
        BY <1>7 DEF TrkCtrlOn, TrkCtrlOff, AxisMoves, AxisStops, ManualSets
    <3>2. mtdStatus' = (mtdSent' # 0)
      <4>1. CASE mtdStatus' = TRUE /\ mtdSent' = 1
        <5>1. (mtdSent' # 0) = TRUE
            BY <4>1
        <5> QED  BY <4>1, <5>1
      <4>2. CASE mtdStatus' = FALSE /\ mtdSent' = 0
        <5>1. (mtdSent' # 0) = FALSE
            BY <4>2
        <5> QED  BY <4>2, <5>1
      <4> QED  BY <3>1, <4>1, <4>2
    <3>3. curState' # "AUTOMTD"
        BY <1>7 DEF TrkCtrlOn, TrkCtrlOff, AxisMoves, AxisStops, ManualSets, InManual,
                    Places
    <3> QED  BY <3>2, <3>3 DEF MtdStatusTruthful
  <2> QED  BY <2>1, <2>2, <2>3, <2>4, <2>5, <2>6
<1>8. CASE SceneTrkCtrl
  <2>1. Flags'
      BY <1>8, ModesHaveWorkMode DEF SceneTrkCtrl, Flags
  <2>2. Values'
      BY <1>8, ModesHaveWorkMode, WorkModes DEF SceneTrkCtrl, Values,
         DispPlaces, LoopPlaces
  <2>3. Places' /\ ModeSent' /\ DetectorSent'
      BY <1>8, ModesHaveWorkMode, WorkModes DEF SceneTrkCtrl, Places,
         ModeSent, DetectorSent
  <2>4. OneSearch' /\ FreshLoop'
      BY <1>8, ModesHaveWorkMode DEF SceneTrkCtrl, Values, Places,
         OneSearch, FreshLoop, Fresh, InAuto
  <2>5. ImageFollows' /\ MtdStatusTruthful'
      BY <1>8, ModesHaveWorkMode, WorkModes DEF SceneTrkCtrl, Values,
         Places, OneSearch, ModeSent, DetectorSent, ImageFollows,
         MtdStatusTruthful, InManual, InAuto
  <2> QED  BY <2>1, <2>2, <2>3, <2>4, <2>5
<1>9. CASE IpcLoad
  <2>1. Flags'
      BY <1>9 DEF IpcLoad, Flags
  <2>2. Values'
      BY <1>9 DEF IpcLoad, Values, DispPlaces, LoopPlaces
  <2>3. Places' /\ ModeSent' /\ DetectorSent'
      BY <1>9, WorkModes DEF IpcLoad, Places, ModeSent, DetectorSent
  <2>4. OneSearch' /\ FreshLoop'
      BY <1>9 DEF IpcLoad, Values, Places, OneSearch, FreshLoop, Fresh,
         InAuto
  <2>5. ImageFollows' /\ MtdStatusTruthful'
      BY <1>9, WorkModes DEF IpcLoad, Values, Places, OneSearch,
         ModeSent, DetectorSent, ImageFollows, MtdStatusTruthful,
         InManual, InAuto
  <2> QED  BY <2>1, <2>2, <2>3, <2>4, <2>5
<1>10. CASE \E b \in BOOLEAN : MtdHandle(b)
  <2> PICK b \in BOOLEAN : MtdHandle(b)
      BY <1>10
  <2>1. Flags'
      BY DEF MtdHandle, Flags
  <2>2. Values'
      BY DEF MtdHandle, Values, DispPlaces, LoopPlaces
  <2>3. Places' /\ ModeSent' /\ DetectorSent'
      BY WorkModes DEF MtdHandle, Places, ModeSent, DetectorSent
  <2>4. OneSearch' /\ FreshLoop'
      BY DEF MtdHandle, Values, Places, OneSearch, FreshLoop, Fresh,
         InAuto
  <2>5. ImageFollows' /\ MtdStatusTruthful'
      BY WorkModes DEF MtdHandle, Values, Places, OneSearch, ModeSent,
         DetectorSent, ImageFollows, MtdStatusTruthful, InManual, InAuto
  <2> QED  BY <2>1, <2>2, <2>3, <2>4, <2>5
<1>11. CASE \E a \in {0, 1, 3} : RecvTrkmsg(a)
  <2> PICK a \in {0, 1, 3} : RecvTrkmsg(a)
      BY <1>11
  <2>1. Flags'
      BY DEF RecvTrkmsg, BeginSearch, Searching, Flags
  <2>2. Values'
      BY DEF RecvTrkmsg, BeginSearch, Searching, Values, DispPlaces,
         LoopPlaces
  <2>3. Places' /\ ModeSent' /\ DetectorSent'
      BY WorkModes DEF RecvTrkmsg, BeginSearch, Searching, Places,
         ModeSent, DetectorSent
  <2>4. OneSearch' /\ FreshLoop'
      BY DEF RecvTrkmsg, BeginSearch, Searching, Values, Places,
         OneSearch, FreshLoop, Fresh, InAuto
  <2>5. ImageFollows' /\ MtdStatusTruthful'
      BY WorkModes DEF RecvTrkmsg, BeginSearch, Searching, Values,
         Places, OneSearch, ModeSent, DetectorSent, ImageFollows,
         MtdStatusTruthful, InManual, InAuto
  <2> QED  BY <2>1, <2>2, <2>3, <2>4, <2>5
<1>12. CASE IpcOut
  <2>1. Flags'
      BY <1>12 DEF IpcOut, OutTrk, Spawn, Flags
  <2>2. Values'
      BY <1>12 DEF IpcOut, OutTrk, Spawn, Values, DispPlaces, LoopPlaces
  <2>3. Places' /\ ModeSent' /\ DetectorSent'
      BY <1>12, WorkModes DEF IpcOut, OutTrk, Spawn, Places, ModeSent,
         DetectorSent
  <2>4. OneSearch' /\ FreshLoop'
      BY <1>12 DEF IpcOut, OutTrk, Spawn, Values, Places, OneSearch,
         FreshLoop, Fresh, InAuto
  <2>5. ImageFollows' /\ MtdStatusTruthful'
      BY <1>12, WorkModes DEF IpcOut, OutTrk, Spawn, Values, Places,
         OneSearch, ModeSent, DetectorSent, ImageFollows,
         MtdStatusTruthful, InManual, InAuto
  <2> QED  BY <2>1, <2>2, <2>3, <2>4, <2>5
<1>13. CASE Elapse
  <2>1. Flags'
      BY <1>13 DEF Elapse, Flags
  <2>2. Values'
      BY <1>13 DEF Elapse, Values, DispPlaces, LoopPlaces
  <2>3. Places' /\ ModeSent' /\ DetectorSent'
      BY <1>13, WorkModes DEF Elapse, Places, ModeSent, DetectorSent
  <2>4. OneSearch' /\ FreshLoop'
      BY <1>13 DEF Elapse, Values, Places, OneSearch, FreshLoop, Fresh,
         InAuto
  <2>5. ImageFollows' /\ MtdStatusTruthful'
      BY <1>13, WorkModes DEF Elapse, Values, Places, OneSearch,
         ModeSent, DetectorSent, ImageFollows, MtdStatusTruthful,
         InManual, InAuto
  <2> QED  BY <2>1, <2>2, <2>3, <2>4, <2>5
<1>14. CASE CallbackStops
  <2>1. Flags'
      BY <1>14 DEF CallbackStops, BeginSearch, Searching, Flags
  <2>2. Values'
      BY <1>14 DEF CallbackStops, BeginSearch, Searching, Values,
         DispPlaces, LoopPlaces
  <2>3. Places' /\ ModeSent' /\ DetectorSent'
      BY <1>14, WorkModes DEF CallbackStops, BeginSearch, Searching,
         Places, ModeSent, DetectorSent
  <2>4. OneSearch' /\ FreshLoop'
      BY <1>14 DEF CallbackStops, BeginSearch, Searching, Values,
         Places, OneSearch, FreshLoop, Fresh, InAuto
  <2>5. ImageFollows' /\ MtdStatusTruthful'
      BY <1>14, WorkModes DEF CallbackStops, BeginSearch, Searching,
         Values, Places, OneSearch, ModeSent, DetectorSent,
         ImageFollows, MtdStatusTruthful, InManual, InAuto
  <2> QED  BY <2>1, <2>2, <2>3, <2>4, <2>5
<1>15. CASE CallbackOut
  <2>1. Flags'
      BY <1>15 DEF CallbackOut, OutTrk, Spawn, Flags
  <2>2. Values'
      BY <1>15 DEF CallbackOut, OutTrk, Spawn, Values, DispPlaces,
         LoopPlaces
  <2>3. Places' /\ ModeSent' /\ DetectorSent'
      BY <1>15, WorkModes DEF CallbackOut, OutTrk, Spawn, Places,
         ModeSent, DetectorSent
  <2>4. OneSearch' /\ FreshLoop'
      BY <1>15 DEF CallbackOut, OutTrk, Spawn, Values, Places,
         OneSearch, FreshLoop, Fresh, InAuto
  <2>5. ImageFollows' /\ MtdStatusTruthful'
      BY <1>15, WorkModes DEF CallbackOut, OutTrk, Spawn, Values,
         Places, OneSearch, ModeSent, DetectorSent, ImageFollows,
         MtdStatusTruthful, InManual, InAuto
  <2> QED  BY <2>1, <2>2, <2>3, <2>4, <2>5
<1>16. CASE \E l \in Loops : Prepos(l)
  <2> PICK l \in Loops : Prepos(l)
      BY <1>16
  <2>1. Flags'
      BY DEF Prepos, Step, Flags
  <2>2. Values'
      BY DEF Prepos, Step, Values, DispPlaces, LoopPlaces
  <2>3. Places' /\ ModeSent' /\ DetectorSent'
      BY WorkModes DEF Prepos, Step, Places, ModeSent, DetectorSent
  <2>4. OneSearch' /\ FreshLoop'
      BY DEF Prepos, Step, Values, Places, OneSearch, FreshLoop, Fresh,
         InAuto
  <2>5. ImageFollows' /\ MtdStatusTruthful'
      BY WorkModes DEF Prepos, Step, Values, Places, OneSearch,
         ModeSent, DetectorSent, ImageFollows, MtdStatusTruthful,
         InManual, InAuto
  <2> QED  BY <2>1, <2>2, <2>3, <2>4, <2>5
<1>17. CASE \E l \in Loops : Check(l)
  <2> PICK l \in Loops : Check(l)
      BY <1>17
  <2>1. Flags'
      BY DEF Check, Step, Flags
  <2>2. Values'
      BY DEF Check, Step, Values, DispPlaces, LoopPlaces
  <2>3. Places' /\ ModeSent' /\ DetectorSent'
      BY WorkModes DEF Check, Step, Places, ModeSent, DetectorSent
  <2>4. OneSearch' /\ FreshLoop'
      BY DEF Check, Step, Values, Places, OneSearch, FreshLoop, Fresh,
         InAuto
  <2>5. ImageFollows' /\ MtdStatusTruthful'
      BY WorkModes DEF Check, Step, Values, Places, OneSearch, ModeSent,
         DetectorSent, ImageFollows, MtdStatusTruthful, InManual, InAuto
  <2> QED  BY <2>1, <2>2, <2>3, <2>4, <2>5
<1>18. CASE \E l \in Loops : StorePrm(l)
  <2> PICK l \in Loops : StorePrm(l)
      BY <1>18
  <2>1. Flags'
      BY DEF StorePrm, Step, Flags
  <2>2. Values'
      BY DEF StorePrm, Step, Values, DispPlaces, LoopPlaces
  <2>3. Places' /\ ModeSent' /\ DetectorSent'
      BY WorkModes DEF StorePrm, Step, Places, ModeSent, DetectorSent
  <2>4. OneSearch' /\ FreshLoop'
      BY DEF StorePrm, Step, Values, Places, OneSearch, FreshLoop,
         Fresh, InAuto
  <2>5. ImageFollows' /\ MtdStatusTruthful'
      BY WorkModes DEF StorePrm, Step, Values, Places, OneSearch,
         ModeSent, DetectorSent, ImageFollows, MtdStatusTruthful,
         InManual, InAuto
  <2> QED  BY <2>1, <2>2, <2>3, <2>4, <2>5
<1>19. CASE \E l \in Loops : SendMtd(l)
  <2> PICK l \in Loops : SendMtd(l)
      BY <1>19
  <2>1. Flags'
      BY DEF SendMtd, Step, Flags
  <2>2. Values'
      BY DEF SendMtd, Step, Values, DispPlaces, LoopPlaces
  <2>3. Places' /\ ModeSent' /\ DetectorSent'
      BY WorkModes DEF SendMtd, Step, Places, ModeSent, DetectorSent
  <2>4. OneSearch' /\ FreshLoop'
      BY DEF SendMtd, Step, Values, Places, OneSearch, FreshLoop, Fresh,
         InAuto
  <2>5. ImageFollows' /\ MtdStatusTruthful'
      BY WorkModes DEF SendMtd, Step, Values, Places, OneSearch,
         ModeSent, DetectorSent, ImageFollows, MtdStatusTruthful,
         InManual, InAuto
  <2> QED  BY <2>1, <2>2, <2>3, <2>4, <2>5
<1>20. CASE \E l \in Loops : Watch(l)
  <2> PICK l \in Loops : Watch(l)
      BY <1>20
  <2>1. Flags'
      BY DEF Watch, Step, Flags
  <2>2. Values'
      BY DEF Watch, Step, Values, DispPlaces, LoopPlaces
  <2>3. Places' /\ ModeSent' /\ DetectorSent'
      BY WorkModes DEF Watch, Step, Places, ModeSent, DetectorSent
  <2>4. OneSearch' /\ FreshLoop'
      BY DEF Watch, Step, Values, Places, OneSearch, FreshLoop, Fresh,
         InAuto
  <2>5. ImageFollows' /\ MtdStatusTruthful'
      BY WorkModes DEF Watch, Step, Values, Places, OneSearch, ModeSent,
         DetectorSent, ImageFollows, MtdStatusTruthful, InManual, InAuto
  <2> QED  BY <2>1, <2>2, <2>3, <2>4, <2>5
<1>21. CASE ImageTakesMtd
  <2>1. Flags'
      BY <1>21 DEF ImageTakesMtd, Flags
  <2>2. Values'
      BY <1>21 DEF ImageTakesMtd, Values, DispPlaces, LoopPlaces
  <2>3. Places' /\ ModeSent' /\ DetectorSent'
      BY <1>21, WorkModes DEF ImageTakesMtd, Places, ModeSent,
         DetectorSent
  <2>4. OneSearch' /\ FreshLoop'
      BY <1>21 DEF ImageTakesMtd, Values, Places, OneSearch, FreshLoop,
         Fresh, InAuto
  <2>5. ImageFollows' /\ MtdStatusTruthful'
      BY <1>21, WorkModes DEF ImageTakesMtd, Values, Places, OneSearch,
         ModeSent, DetectorSent, ImageFollows, MtdStatusTruthful,
         InManual, InAuto
  <2> QED  BY <2>1, <2>2, <2>3, <2>4, <2>5
<1>22. CASE UNCHANGED vars
  <2>1. Flags'
      BY <1>22 DEF vars, Flags
  <2>2. Values'
      BY <1>22 DEF vars, Values, DispPlaces, LoopPlaces
  <2>3. Places' /\ ModeSent' /\ DetectorSent'
      BY <1>22, WorkModes DEF vars, Places, ModeSent, DetectorSent
  <2>4. OneSearch' /\ FreshLoop'
      BY <1>22 DEF vars, Values, Places, OneSearch, FreshLoop, Fresh,
         InAuto
  <2>5. ImageFollows' /\ MtdStatusTruthful'
      BY <1>22, WorkModes DEF vars, Values, Places, OneSearch, ModeSent,
         DetectorSent, ImageFollows, MtdStatusTruthful, InManual, InAuto
  <2> QED  BY <2>1, <2>2, <2>3, <2>4, <2>5
<1> QED
    BY <1>1, <1>2, <1>3, <1>4, <1>5, <1>6, <1>7, <1>8, <1>9, <1>10, <1>11,
       <1>12, <1>13, <1>14, <1>15, <1>16, <1>17, <1>18, <1>19, <1>20,
       <1>21, <1>22 DEF Next, Dispatcher, Ipc, Timer, Loop

-----------------------------------------------------------------------------
(***************************************************************************)
(* Theorems.                                                               *)
(***************************************************************************)
LEMMA SpecInv == ASSUME ModeAssumption PROVE Spec => []IInv
<1>1. Init => IInv
    BY InvHolds
<1>2. IInv /\ [Next]_vars => IInv'
    BY InvKept
<1> QED  BY <1>1, <1>2, PTL DEF Spec

\* Every thread is at a place of its code and every parameter sent to the image
\* process is one that a command has, whatever is interleaved (state_AutoMtd.cpp,
\* state_manualMtd.cpp).
THEOREM TypesCorrect == ASSUME ModeAssumption PROVE Spec => []TypeOK
<1>1. IInv => TypeOK
    BY TypesApart DEF IInv
<1> QED  BY <1>1, SpecInv, PTL

\* In AUTOMTD a search is alive or starting, or a target has been taken since the
\* mode was entered, however fast the mode is left and entered again: a loop that
\* ends because it saw another mode (autoMtdMainloop) is always followed by the
\* one that the next entry starts.
THEOREM SearchStaysAlive == ASSUME ModeAssumption PROVE Spec => []SearchAlive
<1>1. IInv => SearchAlive
    BY DEF IInv, Places, FreshLoop, Fresh, SearchAlive, Searching, Alive
<1> QED  BY <1>1, SpecInv, PTL

\* The image process has been told the mode the program is in (the workmode command
\* of OperationChangeState), unless two threads met in the ipcParam of AUTOMTD.
THEOREM ImageIsTold == ASSUME ModeAssumption PROVE Spec => []ImageFollows
<1>1. IInv => ImageFollows
    BY DEF IInv
<1> QED  BY <1>1, SpecInv, PTL

\* The detector is as mtdStatus of ManualMtdCapture says unless a loop that outlived
\* AUTOMTD has commanded it, and a loop that waits for a target in AUTOMTD has it on
\* unless searches have overlapped.
THEOREM DetectorIsTold == ASSUME ModeAssumption PROVE Spec => []MtdStatusTruthful
<1>1. IInv => MtdStatusTruthful
    BY DEF IInv
<1> QED  BY <1>1, SpecInv, PTL
=============================================================================
