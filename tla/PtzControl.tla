----------------------------- MODULE PtzControl -----------------------------
(***************************************************************************)
(* CPTZControl (PTZ_control.cpp): the pan-tilt unit on a serial line.      *)
(* The mover sends the speeds that others set, each change three times.    *)
(* Every other request, from whatever thread, is built in the one buffer   *)
(* m_pReq before the mutex is taken to send it: a stop, a position or a    *)
(* zoom to go to, asked for again and again until the unit reports it or a *)
(* timer elapses, and the zoom server's and the workers' queries.  The     *)
(* receiver takes the answers, while one is expected.                      *)
(***************************************************************************)
EXTENDS Pelco

CONSTANTS Varied,       \* the speeds that are set
          Positions,    \* where the unit may be,
          Targets,      \* and may be sent
          MaxCalls, MaxLosses, MaxAnswers   \* bounds of a behaviour

SpeedFields == {"pan", "tilt", "zoom", "iris", "focusNear", "focusFar"}
Axes        == {"pan", "tilt", "zoom"}
Timed       == {"pan", "tilt"}
Threads     == {"stop", "position", "zoomPos", "query", "zoomServer"}

PtzControlAssumption ==
    /\ Varied \subseteq SpeedFields
    /\ Positions \subseteq {p \in Nat : p < 36000} /\ Positions \ Targets # {}
    /\ Targets \subseteq {p \in Positions : p >= 2849}
    /\ {MaxCalls, MaxLosses, MaxAnswers} \subseteq Nat

VARIABLES wanted, cur,  \* m_iSet...Speed and m_iCur...Speed
          change, num,  \* m_change; the rounds since the last one
          mover,        \* what the mover does next
          req,          \* m_pReq
          job,          \* per thread: where it is, the request and the axis it is at
          bak,          \* posx_bak, posy_bak, zoom_bak
          exitQuery,    \* exitQuery_X, _Y and zoom
          timer,        \* the two timers: off, on, or elapsed with a callback due
          got,          \* sync_pan, sync_Tilt
          sync,         \* m_sync_pos
          response,     \* m_tResponse
          answers       \* what the unit has answered and was not received yet

\* The unit: how it moves, where it goes, where it is.
VARIABLES unit

\* History: calls and losses; a speed was set between the steps of a stop, the
\* speeds came back after one before the mover looked, or a request was sent that
\* another thread had written into; per axis, whether since the call a report or a
\* callback ended the search for the position, and whether one ever came when
\* nobody searched; a stop has changed the speeds and the mover has not looked.
VARIABLES calls, losses, disturbed, ended, late, halted

speeds == <<wanted, cur, change, num, mover>>
loops  == <<bak, exitQuery, timer>>
recv   == <<got, sync>>
counts == <<calls, losses>>
vars == <<speeds, req, job, loops, recv, response, answers, unit, counts,
          disturbed, ended, late, halted>>

Nowhere == -1
AtRest  == [f \in SpeedFields |-> 0]
Counted == 3        \* 10 in the code; three rounds are told from more
Ask(axis) == CASE axis = "pan"  -> QueryPanPos
               [] axis = "tilt" -> QueryTiltPos
               [] axis = "zoom" -> QueryZoomPos
GoTo(axis, v) == CASE axis = "pan"  -> MakeSetPanPos(v)
                   [] axis = "tilt" -> MakeSetTilPos(v)
                   [] axis = "zoom" -> MakeSetZoomPos(v)
AllStop == PktFormat({}, {}, 0, 0)
Asks(p) == {axis \in Axes : p.cmd2 = Ask(axis).cmd2}
Goes(p) == {axis \in Axes : p.cmd2 = GoTo(axis, 2849).cmd2}

Idle == [at |-> "idle", pkt |-> AllStop, axis |-> "pan", want |-> Nowhere]

-----------------------------------------------------------------------------
\* What a thread works on, and what the unit does.
Jobs  == [at : {"idle", "reset", "cmd", "data", "send", "loop"}, pkt : Packets,
          axis : Axes, want : Positions \cup {Nowhere}]
Units == [cmd1 : SUBSET (0 .. 7), cmd2 : SUBSET (0 .. 7),
          aim : [Axes -> Nat \cup {Nowhere}], pos : [Axes -> Positions]]

TypeOK ==
    /\ wanted \in [SpeedFields -> -1 .. 1] /\ cur \in [SpeedFields -> -1 .. 1]
    /\ change \in BOOLEAN /\ num \in 0 .. Counted /\ mover \in {"Move", "MoveSync"}
    /\ req \in Packets /\ job \in [Threads -> Jobs]
    /\ bak \in [Axes -> Positions \cup {0}]
    /\ exitQuery \in [Axes -> BOOLEAN]
    /\ timer \in [Timed -> {"off", "on", "due"}]
    /\ got \in [Timed -> BOOLEAN]
    /\ sync \in BOOLEAN /\ disturbed \in BOOLEAN /\ halted \in BOOLEAN
    /\ response \in {"Null", "Extended", "General"}
    /\ answers \in Seq(Axes \X (Positions \cup {Nowhere})) /\ Len(answers) <= MaxAnswers
    /\ unit \in Units
    /\ calls \in 0 .. MaxCalls /\ losses \in 0 .. MaxLosses
    /\ ended \in [Axes -> BOOLEAN] /\ late \in [Axes -> BOOLEAN]

\* When the mover has made its first rounds.  The constructor leaves bak as it is.
Init ==
    /\ wanted = AtRest /\ cur = wanted
    /\ change = FALSE /\ num = Counted /\ mover = "Move"
    /\ req = AllStop
    /\ job = [t \in Threads |-> Idle]
    /\ bak \in {[a \in Axes |-> p] : p \in Positions}
    /\ exitQuery = [a \in Axes |-> FALSE]
    /\ timer = [a \in Timed |-> "off"]
    /\ got = [a \in Timed |-> FALSE]
    /\ sync = FALSE
    /\ response = "Null"
    /\ answers = <<>>
    /\ unit = [cmd1 |-> {}, cmd2 |-> {}, aim |-> [a \in Axes |-> Nowhere],
               pos |-> [a \in Axes |-> CHOOSE p \in Positions \ Targets : TRUE]]
    /\ calls = 0 /\ losses = 0
    /\ disturbed = FALSE
    /\ ended = [a \in Axes |-> FALSE] /\ late = ended /\ halted = FALSE

-----------------------------------------------------------------------------
(***************************************************************************)
(* The unit and the line.                                                  *)
(***************************************************************************)
\* A motion or a stop ends what the unit does; a position is gone to; a question
\* is answered, unless the unit has enough to do.
Takes(p) ==
    /\ unit' = IF ~Extended(p)
               THEN [unit EXCEPT !.cmd1 = p.cmd1, !.cmd2 = p.cmd2,
                                 !.aim = [a \in Axes |-> Nowhere]]
               ELSE [unit EXCEPT !.aim = [a \in Axes |->
                        IF a \in Goes(p) THEN 256 * p.data1 + p.data2 ELSE @[a]]]
    /\ \/ UNCHANGED answers
       \/ \E a \in Asks(p) : /\ Len(answers) < MaxAnswers
                             /\ answers' = Append(answers, <<a, unit.pos[a]>>)

\* sendCmd: a motion may be lost on the line.  So may any other request: a unit
\* that does not answer or does not arrive stands for it.
sendCmd(p, tResp) ==
    /\ response' = tResp
    /\ \/ /\ losses < MaxLosses /\ ~Extended(p)
          /\ losses' = losses + 1
          /\ UNCHANGED <<unit, answers>>
       \/ UNCHANGED losses /\ Takes(p)

\* The unit gets to where it was told to go.
UnitArrives(a) ==
    /\ unit.aim[a] \in Positions
    /\ unit' = [unit EXCEPT !.pos[a] = unit.aim[a], !.aim[a] = Nowhere]
    /\ UNCHANGED <<speeds, req, job, loops, recv, response, answers, counts,
                   disturbed, ended, late, halted>>

-----------------------------------------------------------------------------
(***************************************************************************)
(* The mover.                                                              *)
(***************************************************************************)
\* Speeds that change while they are copied are seen in the next round; rounds
\* that find and send nothing are left out.
Move ==
    /\ mover = "Move" /\ mover' = "MoveSync"
    /\ cur # wanted \/ num < Counted
    /\ change' = (change \/ cur # wanted)
    /\ cur' = wanted
    /\ halted' = FALSE
    /\ UNCHANGED <<wanted, num, req, job, loops, recv, response, answers, unit,
                   counts, disturbed, ended, late>>

\* The bits of the speeds; a far focus is near for the unit, and a near one, which
\* nothing sets, is far.
Cmd1(s) == (IF s.focusNear <= 0 /\ s.focusFar < 0 THEN {NearOf("D")} ELSE {})
             \cup (CASE s.iris > 0 -> {IrisOpen("D")} [] s.iris < 0 -> {IrisClose("D")}
                     [] OTHER -> {})
Cmd2(s) == (IF s.focusNear > 0 THEN {FarOfD} ELSE {})
             \cup (CASE s.zoom > 0 -> {Tele} [] s.zoom < 0 -> {Wide} [] OTHER -> {})
             \cup (CASE s.pan > 0 -> {Right} [] s.pan < 0 -> {Left} [] OTHER -> {})
             \cup (CASE s.tilt > 0 -> {Down} [] s.tilt < 0 -> {Up} [] OTHER -> {})
Amount(v) == IF v < 0 THEN -v ELSE v
MoveRequest(s) == PktFormat(Cmd1(s), Cmd2(s), Clamped(Amount(s.pan), 0, 63),
                            Clamped(Amount(s.tilt), 0, 63))

Rounds == IF change THEN 0 ELSE IF num < Counted THEN num + 1 ELSE num
\* Mutant: a change is sent once less.
Repeats_Less(n) == n < 2
Repeats(n) == n < 3

MoveSync ==
    /\ mover = "MoveSync" /\ mover' = "Move"
    /\ num' = Rounds
    /\ IF Repeats(Rounds)
       THEN sendCmd(MoveRequest(cur), "Null") /\ change' = FALSE
       ELSE UNCHANGED <<change, response, losses, unit, answers>>
    /\ UNCHANGED <<wanted, cur, req, job, loops, recv, calls, disturbed, ended, late, halted>>

-----------------------------------------------------------------------------
(***************************************************************************)
(* Calls.                                                                  *)
(***************************************************************************)
Stopping == job["stop"].at # "idle"

\* setPanSpeed and the others; setFocusNearSpeed sets the far one.
SetSpeed(f, v) ==
    /\ calls < MaxCalls /\ calls' = calls + 1
    /\ wanted[f] # v
    /\ wanted' = [wanted EXCEPT ![IF f = "focusNear" THEN "focusFar" ELSE f] = v]
    /\ disturbed' = (disturbed \/ Stopping \/ (halted /\ wanted' = cur))
    /\ UNCHANGED <<cur, change, num, mover, req, job, loops, recv, response,
                   answers, unit, losses, ended, late, halted>>

\* Bound: of the calls that search one runs at a time.
Searches == {"position", "zoomPos", "query"}
Call(t, j) ==
    /\ job[t].at = "idle"
    /\ t \in Searches => \A u \in Searches : job[u].at = "idle"
    /\ calls < MaxCalls /\ calls' = calls + 1
    /\ job' = [job EXCEPT ![t] = j]
    /\ UNCHANGED <<speeds, req, response, answers, unit, losses, disturbed, late, halted>>

ptzStop ==
    /\ Call("stop", [Idle EXCEPT !.at = "reset"])
    /\ UNCHANGED <<loops, recv, ended>>

\* resetPtz
ResetPtz ==
    /\ job["stop"].at = "reset"
    /\ job' = [job EXCEPT !["stop"].at = "cmd"]
    /\ wanted' = AtRest
    /\ halted' = (cur # AtRest)
    /\ UNCHANGED <<cur, change, num, mover, req, loops, recv, response, answers,
                   unit, counts, disturbed, ended, late>>

\* ptzSetPos remembers both positions at once, setZoomPos the zoom.
ptzSetPos ==
    \E x \in Targets :
        /\ Call("position", [at |-> "cmd", pkt |-> GoTo("pan", x), axis |-> "pan", want |-> x])
        /\ bak' = [bak EXCEPT !["pan"] = x, !["tilt"] = x]
        /\ ended' = [ended EXCEPT !["pan"] = FALSE, !["tilt"] = FALSE]
        /\ UNCHANGED <<exitQuery, timer, recv>>

setZoomPos ==
    \E x \in Targets :
        /\ Call("zoomPos", [at |-> "cmd", pkt |-> GoTo("zoom", x), axis |-> "zoom", want |-> x])
        /\ bak' = [bak EXCEPT !["zoom"] = x]
        /\ ended' = [ended EXCEPT !["zoom"] = FALSE]
        /\ UNCHANGED <<exitQuery, timer, recv>>

\* queryPos; setPrepos and judgepos begin with a preset, which only the unit sees.
queryPos ==
    /\ Call("query", [Idle EXCEPT !.at = "cmd", !.pkt = QueryPanPos])
    /\ sync' = TRUE
    /\ UNCHANGED <<loops, got, ended>>

\* simpleQueryZoom, of State::zoomServer again and again; each time is a call here.
zoomServer ==
    /\ Call("zoomServer", [Idle EXCEPT !.at = "cmd", !.pkt = QueryZoomPos, !.axis = "zoom"])
    /\ UNCHANGED <<loops, recv, ended>>

-----------------------------------------------------------------------------
(***************************************************************************)
(* A request is written into the buffer, command first, and then sent as   *)
(* the buffer is by then.                                                  *)
(***************************************************************************)
Build(t) ==
    /\ \/ /\ job[t].at = "cmd"
          /\ req' = [req EXCEPT !.cmd1 = job[t].pkt.cmd1, !.cmd2 = job[t].pkt.cmd2]
          /\ job' = [job EXCEPT ![t].at = "data"]
       \/ /\ job[t].at = "data"
          /\ req' = [req EXCEPT !.data1 = job[t].pkt.data1, !.data2 = job[t].pkt.data2]
          /\ job' = [job EXCEPT ![t].at = "send"]
    /\ UNCHANGED <<speeds, loops, recv, response, answers, unit, counts,
                   disturbed, ended, late, halted>>

\* After the request to go somewhere the timer is started.
Send(t) ==
    /\ job[t].at = "send"
    /\ sendCmd(req, IF Asks(job[t].pkt) = {} THEN "Null" ELSE "Extended")
    /\ disturbed' = (disturbed \/ req # job[t].pkt)
    /\ job' = [job EXCEPT ![t] = IF t \in {"stop", "zoomServer"} THEN Idle
                                 ELSE [@ EXCEPT !.at = "loop"]]
    /\ timer' = [a \in Timed |-> IF a \in Goes(job[t].pkt) /\ timer[a] = "off"
                                 THEN "on" ELSE timer[a]]
    /\ UNCHANGED <<speeds, req, bak, exitQuery, recv, calls, ended, late, halted>>

\* Mutant: the flag is left as it is.
Leaves_Flag(a) == exitQuery
Leaves(a) == [exitQuery EXCEPT ![a] = FALSE]
StopTimer(a) == [b \in Timed |-> IF b = a /\ timer[b] = "on" THEN "off" ELSE timer[b]]

Loop(t) ==
    /\ t \in {"position", "zoomPos"} /\ job[t].at = "loop"
    /\ LET axis == job[t].axis IN
       IF exitQuery[axis]
       THEN /\ exitQuery' = Leaves(axis)
            /\ timer' = StopTimer(axis)
            /\ job' = [job EXCEPT ![t] =
                         IF axis # "pan" THEN Idle
                         ELSE [@ EXCEPT !.at = "cmd", !.axis = "tilt",
                                        !.pkt = GoTo("tilt", job[t].want)]]
       ELSE /\ job' = [job EXCEPT ![t].at = "cmd", ![t].pkt = Ask(axis)]
            /\ UNCHANGED <<exitQuery, timer>>
    /\ UNCHANGED <<speeds, req, bak, recv, response, answers, unit, counts,
                   disturbed, ended, late, halted>>

\* queryPos asks for pan and tilt until an answer to each has come.
QueryLoop ==
    /\ job["query"].at = "loop"
    /\ job' = [job EXCEPT !["query"] =
                 IF @.axis = "pan"
                 THEN [@ EXCEPT !.at = "cmd", !.axis = "tilt", !.pkt = QueryTiltPos]
                 ELSE IF sync
                 THEN [@ EXCEPT !.at = "cmd", !.axis = "pan", !.pkt = QueryPanPos]
                 ELSE Idle]
    /\ UNCHANGED <<speeds, req, loops, recv, response, answers, unit, counts,
                   disturbed, ended, late, halted>>

-----------------------------------------------------------------------------
(***************************************************************************)
(* The receiver and the timers.                                            *)
(***************************************************************************)
Searching(a) == \E t \in {"position", "zoomPos"} : job[t].at # "idle" /\ job[t].axis = a
\* The search for a is over.
Ends(a) == /\ ended' = [ended EXCEPT ![a] = TRUE]
           /\ late' = [late EXCEPT ![a] = @ \/ ~Searching(a)]

Far(v, w) == Amount(v - w) >= 700
There(a, v) == IF a = "zoom" THEN ~Far(bak[a], v) ELSE bak[a] = v

\* While none is expected the first byte of an answer is passed over, and with it
\* the answer.
RecvByte ==
    /\ answers # <<>>
    /\ answers' = Tail(answers)
    /\ IF response = "Null" THEN UNCHANGED <<bak, exitQuery, recv, ended, late>>
       ELSE LET a == Head(answers)[1]
                v == Head(answers)[2]
                g == IF a \in Timed THEN [got EXCEPT ![a] = TRUE] ELSE got
            IN
            /\ IF There(a, v)
               THEN /\ exitQuery' = [exitQuery EXCEPT ![a] = TRUE]
                    /\ bak' = [bak EXCEPT ![a] = 0]
                    /\ Ends(a)
               ELSE UNCHANGED <<exitQuery, bak, ended, late>>
            /\ IF g["pan"] /\ g["tilt"]
               THEN sync' = FALSE /\ got' = [b \in Timed |-> FALSE]
               ELSE got' = g /\ UNCHANGED sync
    /\ UNCHANGED <<speeds, req, job, timer, response, unit, counts, disturbed, halted>>

Elapse(a) ==
    /\ timer[a] = "on"
    /\ timer' = [timer EXCEPT ![a] = "due"]
    /\ UNCHANGED <<speeds, req, job, bak, exitQuery, recv, response, answers, unit,
                   counts, disturbed, ended, late, halted>>

\* Mutant: both callbacks end the search for the pan position.
Axis_Pan(a) == "pan"
Axis(a) == a

\* Tcallback_QueryX, Tcallback_QueryY
Callback(a) ==
    /\ timer[a] = "due"
    /\ timer' = [timer EXCEPT ![a] = "off"]
    /\ exitQuery' = [exitQuery EXCEPT ![Axis(a)] = TRUE]
    /\ Ends(a)
    /\ UNCHANGED <<speeds, req, job, bak, recv, response, answers, unit, counts,
                   disturbed, halted>>

-----------------------------------------------------------------------------
Threaded(t) == Build(t) \/ Send(t) \/ Loop(t)
Next ==
    \/ Move \/ MoveSync
    \/ \E f \in Varied, v \in -1 .. 1 : SetSpeed(f, v)
    \/ ptzStop \/ ResetPtz \/ ptzSetPos \/ setZoomPos \/ queryPos \/ zoomServer
    \/ \E t \in Threads : Threaded(t)
    \/ QueryLoop
    \/ \E a \in Axes : UnitArrives(a)
    \/ RecvByte
    \/ \E a \in Timed : Elapse(a) \/ Callback(a)

Spec == Init /\ [][Next]_vars

-----------------------------------------------------------------------------
(***************************************************************************)
(* Properties.                                                             *)
(***************************************************************************)
Quiet == mover = "Move" /\ cur = wanted /\ ~change /\ ~Repeats(num) /\ ~Stopping

\* When nothing changes any more the unit moves as the speeds say, whatever stops
\* were sent meanwhile and though fewer requests were lost than the mover repeats;
\* unless a speed was set between the two halves of a stop, the speeds before it
\* were set again before the mover saw the stop, or a request of another thread
\* got into its own.
UnitFollows ==
    Quiet /\ ~disturbed => unit.cmd1 = Cmd1(wanted) /\ unit.cmd2 = Cmd2(wanted)

\* ptzSetPos goes on to the tilt angle, and it and setZoomPos return, when since
\* the call the unit has reported what was asked for or the time is over; unless a
\* report or a callback had come too late for an earlier call, or too early.
GoesOn ==
    \A t \in {"position", "zoomPos"} :
        LET a == job[t].axis IN
        job[t].at = "loop" /\ job'[t] # job[t] /\ (job'[t].at = "idle" \/ job'[t].axis # a)
            => ended[a] \/ late[a]
GoesOnWhenThere == [][GoesOn]_vars

\* ptzSetPos never waits for nothing: its search for an angle is over, or the timer
\* that ends it runs, whatever earlier calls and late callbacks have done to it.
WaitHasEnd ==
    job["position"].at # "idle" /\ Goes(job["position"].pkt) = {} =>
        LET a == job["position"].axis IN exitQuery[a] \/ timer[a] # "off"
=============================================================================
