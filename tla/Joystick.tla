------------------------------ MODULE Joystick ------------------------------
(***************************************************************************)
(* The joystick's reports (eventParsing.cpp, parsingJostickEvent) and what *)
(* the dispatcher does with them (EventManager.cpp).  A report says which   *)
(* buttons are held.  The joystick thread compares it with the last one    *)
(* and toggles fields of ComParams, once for the press and once more for   *)
(* the release; the dispatcher reads the fields, and clears one of them;   *)
(* commands of the links store into them too.  The keys for the modes are  *)
(* in ModeInput.                                                           *)
(***************************************************************************)
EXTENDS Integers, Sequences

CONSTANTS Povs, Buttons,    \* what the two bytes of buttons may say
          Heights,          \* the stick: below 0x40, between, above 0xb0
          LinkZooms,        \* zoom commands of the links
          MaxReports,       \* bounds: reports and commands in a behaviour,
          MaxPending        \* messages not handled when the next one comes

Released == "released"
Steers   == {"left", "right", "up", "down", "js_1", "js_2"}
Zoomers  == {"js_3", "js_4"}

JoystickAssumption ==
    /\ Released \in Povs /\ Povs \subseteq {Released} \cup Steers \cup Zoomers
    /\ Released \in Buttons
    /\ Buttons \subseteq {Released, "js_5", "js_6", "js_7", "js_9", "js_11"}
    /\ LinkZooms \subseteq 0 .. 2
    /\ "mid" \in Heights /\ Heights \subseteq {"low", "mid", "high"}
    /\ MaxReports \in Nat /\ MaxPending \in Nat

VARIABLES report,           \* jos_data
          todo,             \* the parts of it still to be looked at
          bak,              \* povbak, butbak, yBak
          index,            \* the two statics index: the press to be undone
          Iris_Focus,       \* static of parsingJostickButtonData
          zoomctrl, sectrkctrl, irisctrl, focusctrl,    \* fields of ComParams
          queue,            \* messages to the dispatcher
          trken,            \* CFGID_RTS_trken
          setSpeed          \* m_iSetZoomSpeed, m_iSetIrisSpeed, m_iSetFocusFarSpeed

\* History: reports and commands so far, and whether something came between a
\* press and its release.
VARIABLES reports, meddled

fields == <<zoomctrl, sectrkctrl, irisctrl, focusctrl>>
static == <<bak, index, Iris_Focus>>
vars   == <<report, todo, static, fields, queue, trken, setSpeed, reports, meddled>>

Rest == [pov |-> Released, but |-> Released, y |-> "mid"]

TypeOK ==
    /\ report \in [pov : Povs, but : Buttons, y : Heights]
    /\ bak \in [pov : Povs \cup {"up"}, but : Buttons, y : Heights \cup {"low"}]
    /\ todo \in {"nothing", "pov", "but", "axis"}
    /\ index.pov \in {0, 3, 4} /\ index.but \in {0, 6}
    /\ Iris_Focus \in 0 .. 2
    /\ zoomctrl \in 0 .. 2 /\ sectrkctrl \in 0 .. 2
    /\ irisctrl \in {0, 3} /\ focusctrl \in {0, 3}
    /\ queue \in Seq({"zoom", "search", "irisFocus", "jos", "other"})
    /\ {trken, meddled} \subseteq BOOLEAN
    /\ setSpeed \in [{"zoom", "iris", "focus"} -> -1 .. 1]
    /\ reports \in 0 .. MaxReports

\* The first report is compared with zeros: the hat up, the stick low.
Init ==
    /\ report = Rest
    /\ todo = "pov"
    /\ bak = [pov |-> "up", but |-> Released, y |-> "low"]
    /\ index = [pov |-> 0, but |-> 0]
    /\ Iris_Focus = 0
    /\ zoomctrl = 0 /\ sectrkctrl = 0 /\ irisctrl = 0 /\ focusctrl = 0
    /\ queue = <<>>
    /\ trken \in BOOLEAN
    /\ setSpeed = [s \in {"zoom", "iris", "focus"} |-> 0]
    /\ reports = 0
    /\ meddled = FALSE

-----------------------------------------------------------------------------
(***************************************************************************)
(* The joystick thread.  Storing a field and sending its message is one    *)
(* step: who reads the field in between has an older message of its kind   *)
(* to read it for.                                                         *)
(***************************************************************************)
\* What comes between: a zoom key after another key and no release, or the key for
\* iris and focus or the one for the search while the stick is out, or back but its
\* message not handled yet.
StickWaits == \E i \in DOMAIN queue : queue[i] = "jos"
Meddles(r) ==
    \/ r.pov \in Zoomers \ {report.pov} /\ index.pov # 0
    \/ r.but # report.but /\ (r.y # "mid" \/ report.y # "mid" \/ StickWaits)
    \/ r.but # Released /\ report.but # Released /\ r.but # report.but

Counted == /\ reports < MaxReports /\ Len(queue) <= MaxPending
           /\ reports' = reports + 1

\* JoystickProcess waits for a report.
NextReport(r) ==
    /\ todo = "nothing" /\ Counted
    /\ r # report
    /\ report' = r
    /\ todo' = "pov"
    /\ meddled' = (meddled \/ Meddles(r))
    /\ UNCHANGED <<static, fields, queue, trken, setSpeed>>

\* Mutant: the key always starts.
Toggle_On(ctrl, on) == on
Toggle(ctrl, on) == IF ctrl = 0 THEN on ELSE 0
Send(msg) == queue' = Append(queue, msg)

\* buttonStopHandle: what a press did is done once more.
buttonStopHandle(i) ==
    /\ zoomctrl' = CASE i = 3 -> Toggle(zoomctrl, 2)
                     [] i = 4 -> Toggle(zoomctrl, 1)
                     [] OTHER -> zoomctrl
    /\ sectrkctrl' = IF i = 6 THEN (sectrkctrl % 2) + 1 ELSE sectrkctrl
    /\ CASE i \in {3, 4} -> Send("zoom")
         [] i = 6 -> Send("search")
         [] OTHER -> UNCHANGED queue

\* parsingJostickPovData: buttons 1 to 4 and the hat.
PovPressed(b) ==
    CASE b \in Steers -> Send("other") /\ UNCHANGED <<index, zoomctrl, sectrkctrl>>
      [] b = "js_3" -> /\ zoomctrl' = Toggle(zoomctrl, 2) /\ Send("zoom")
                       /\ index' = [index EXCEPT !.pov = 3]
                       /\ UNCHANGED sectrkctrl
      [] b = "js_4" -> /\ zoomctrl' = Toggle(zoomctrl, 1) /\ Send("zoom")
                       /\ index' = [index EXCEPT !.pov = 4]
                       /\ UNCHANGED sectrkctrl
      [] OTHER -> buttonStopHandle(index.pov) /\ index' = [index EXCEPT !.pov = 0]

parsingJostickPovData ==
    /\ todo = "pov" /\ todo' = "but"
    /\ IF report.pov # bak.pov THEN PovPressed(report.pov)
       ELSE UNCHANGED <<index, zoomctrl, sectrkctrl, queue>>
    /\ bak' = [bak EXCEPT !.pov = report.pov]
    /\ UNCHANGED <<report, Iris_Focus, irisctrl, focusctrl, trken, setSpeed, reports, meddled>>

\* parsingJostickButtonData: buttons 5 to 12.
ButtonPressed(b) ==
    CASE b = "js_6" -> /\ sectrkctrl' = (sectrkctrl % 2) + 1 /\ Send("search")
                       /\ index' = [index EXCEPT !.but = 6]
                       /\ UNCHANGED <<zoomctrl, irisctrl, focusctrl, Iris_Focus>>
      [] b = "js_11" -> /\ Iris_Focus' = (Iris_Focus + 1) % 3
                        /\ irisctrl' = IF Iris_Focus' = 1 THEN 3 ELSE 0
                        /\ focusctrl' = IF Iris_Focus' = 2 THEN 3 ELSE 0
                        /\ Send("irisFocus")
                        /\ UNCHANGED <<zoomctrl, sectrkctrl, index>>
      [] b \in {"js_5", "js_9"} -> /\ Send("other")
                                   /\ UNCHANGED <<index, fields, Iris_Focus>>
      [] b = "js_7" -> UNCHANGED <<index, fields, Iris_Focus, queue>>
      [] OTHER -> /\ buttonStopHandle(index.but)
                  /\ index' = [index EXCEPT !.but = 0]
                  /\ UNCHANGED <<irisctrl, focusctrl, Iris_Focus>>

parsingJostickButtonData ==
    /\ todo = "but" /\ todo' = "axis"
    /\ IF report.but # bak.but THEN ButtonPressed(report.but)
       ELSE UNCHANGED <<index, fields, Iris_Focus, queue>>
    /\ bak' = [bak EXCEPT !.but = report.but]
    /\ UNCHANGED <<report, trken, setSpeed, reports, meddled>>

\* parsingJostickAxisData.
parsingJostickAxisData ==
    /\ todo = "axis" /\ todo' = "nothing"
    /\ IF report.y # bak.y THEN Send("jos") ELSE UNCHANGED queue
    /\ bak' = [bak EXCEPT !.y = report.y]
    /\ UNCHANGED <<report, index, Iris_Focus, fields, trken, setSpeed, reports, meddled>>

-----------------------------------------------------------------------------
(***************************************************************************)
(* A link, the image process and the dispatcher.                           *)
(***************************************************************************)
\* A zoom command; it comes between if a zoom key is or will be held.
LinkZoom(v) ==
    /\ Counted
    /\ zoomctrl' = v
    /\ Send("zoom")
    /\ meddled' = TRUE
    /\ UNCHANGED <<report, todo, static, sectrkctrl, irisctrl, focusctrl, trken, setSpeed>>

ImageTracks ==
    /\ Counted
    /\ trken' = ~trken
    /\ UNCHANGED <<report, todo, static, fields, queue, setSpeed, meddled>>

Handle(msg) ==
    /\ queue # <<>> /\ Head(queue) = msg
    /\ queue' = Tail(queue)
    /\ UNCHANGED <<report, todo, static, zoomctrl, irisctrl, focusctrl, trken, reports>>

\* MSG_Com_ZoomCtrl, State::ZoomCtrl.
HandleZoom ==
    /\ Handle("zoom")
    /\ setSpeed' = [setSpeed EXCEPT !.zoom = CASE zoomctrl = 1 -> -1
                                               [] zoomctrl = 2 -> 1
                                               [] OTHER -> 0]
    /\ UNCHANGED <<sectrkctrl, meddled>>

\* MSG_TrkSearch: no search without tracking; the release will take what is
\* cleared here for released already.
Cleared == /\ sectrkctrl' = IF trken THEN sectrkctrl ELSE 0
           /\ meddled' = (meddled \/ sectrkctrl # sectrkctrl')
HandleSearch == Handle("search") /\ Cleared /\ UNCHANGED setSpeed

\* MSG_IrisAndFocus: only when neither is chosen any more are both stopped.
HandleIrisFocus ==
    /\ Handle("irisFocus")
    /\ setSpeed' = IF irisctrl = 0 /\ focusctrl = 0
                   THEN [setSpeed EXCEPT !.iris = 0, !.focus = 0] ELSE setSpeed
    /\ UNCHANGED <<sectrkctrl, meddled>>

\* MSG_JosPos: the stick moves the search box, or the iris, or the focus, or the
\* platform, which is not shown here.
Dir == CASE report.y = "high" -> -1 [] report.y = "low" -> 1 [] OTHER -> 0
HandleJosPos ==
    /\ Handle("jos")
    /\ IF sectrkctrl = 1 THEN Cleared /\ UNCHANGED setSpeed
       ELSE /\ setSpeed' = IF irisctrl = 3 THEN [setSpeed EXCEPT !.iris = Dir]
                           ELSE IF focusctrl = 3 THEN [setSpeed EXCEPT !.focus = Dir]
                           ELSE setSpeed
            /\ UNCHANGED <<sectrkctrl, meddled>>

HandleOther == Handle("other") /\ UNCHANGED <<sectrkctrl, setSpeed, meddled>>

-----------------------------------------------------------------------------
Next ==
    \/ \E r \in [pov : Povs, but : Buttons, y : Heights] : NextReport(r)
    \/ parsingJostickPovData \/ parsingJostickButtonData \/ parsingJostickAxisData
    \/ \E v \in LinkZooms : LinkZoom(v)
    \/ ImageTracks
    \/ HandleZoom \/ HandleSearch \/ HandleIrisFocus \/ HandleJosPos \/ HandleOther

Spec == Init /\ [][Next]_vars

-----------------------------------------------------------------------------
\* With all buttons released, the stick in the middle and all messages handled,
\* nothing runs on: zoom, iris and focus stand and the stick does not move the
\* search box.  Presses and releases are told apart only by the fields they
\* toggle (buttonStopHandle), so this is lost when something came between a press
\* and its release: a second press, a link's zoom command, the dispatcher
\* clearing sectrkctrl, or a key that gives the stick another meaning while it is
\* out or its last message waits for the dispatcher.
ReleasedMeansOff ==
    (report = Rest /\ todo = "nothing" /\ queue = <<>> /\ ~meddled) =>
        /\ setSpeed = [s \in {"zoom", "iris", "focus"} |-> 0]
        /\ sectrkctrl # 1

=============================================================================
