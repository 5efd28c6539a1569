------------------------------ MODULE Platform ------------------------------
(***************************************************************************)
(* The platform control (platformControl.cpp, platformFilter.cpp,          *)
(* deviceUser.cpp) and the table of speeds (PTZ_speedTransfer.cpp): what   *)
(* the stick, or the error the tracker reports, makes of the speed of the  *)
(* pan-tilt unit.  Three threads meet in it.  The dispatcher handles stick *)
(* commands and tracking reports; the thread of the image's events stores  *)
(* the report the dispatcher will read later; the thread of the image's    *)
(* display (ipcGst) stores reports of its own, resets the filters and      *)
(* stops the unit, at any time.                                            *)
(* Fractions are kept in tenths, and what a division leaves is dropped.    *)
(***************************************************************************)
EXTENDS Integers, Sequences, FiniteSetsExt

CONSTANTS Sticks,       \* positions of the stick along x, in tenths
          Errors,       \* errors the tracker reports along x
          JosParams,    \* settings of the stick,
          PidParams,    \* and of the filter, in tenths
          FrameNum,     \* m_frameNum: 50
          MaxInputs     \* bound: commands, reports and settings in a behaviour

Settings == [dead : Int, cut1 : Int, cut2 : Int, gain1 : Nat, gain2 : Nat]

PlatformAssumption ==
    /\ Sticks \subseteq -10 .. 10 /\ 0 \in Sticks
    /\ Errors \subseteq Int
    /\ JosParams \subseteq Settings
    /\ PidParams \subseteq [Kp : Nat, Ki : Nat, Kd : Nat, K : 0 .. 10]
    /\ FrameNum \in Nat /\ MaxInputs \in Nat

VARIABLES jos, pid,     \* joystickRateDemandParam; the filters' Kp, Ki, Kd, K
          filter,       \* per axis: what the filter remembers
          virtalInput,  \* the stick, as last given to the platform
          demand,       \* curRateDemandX, Y
          bakState,     \* iTrkAlgStateBak
          speed,        \* m_iSetPanSpeed, m_iSetTiltSpeed
          busy          \* the filters as the dispatcher found them, while it is in pidAlg

\* Around it: the receivers' ComParams, the queue, and the image's reports.
VARIABLES stick,        \* ComParams.platspeedx, y
          queue,        \* the commands and reports to be handled
          trk,          \* CFGID_RTS_trkstat, trkerrx, trkerry
          pixelErr,     \* m_pixelErr
          receiving     \* the report the event thread is copying, if any

\* History: inputs so far, a stick command was ignored while tracking, the
\* filters were reset while pidAlg ran.
VARIABLES inputs, ignored, torn

plant == <<jos, pid, filter, virtalInput, demand, bakState, busy>>
world == <<stick, queue, trk, pixelErr, receiving>>
hist  == <<inputs, ignored, torn>>
vars  == <<plant, speed, world, hist>>

Axes     == {"x", "y"}
Acquire  == 0
Trk_Lock == 1
Break_Lock_1 == 2
Break_Lock_2 == 3
States   == Acquire .. Break_Lock_2
None     == <<>>

Sign(n) == IF n < 0 THEN -1 ELSE IF n > 0 THEN 1 ELSE 0
Abs(n)  == IF n < 0 THEN -n ELSE n
Lower(a, b)  == IF a < b THEN a ELSE b
Higher(a, b) == IF a < b THEN b ELSE a

\* Division of numbers of either sign, towards zero.
Cut(n, d) == Sign(n) * (Abs(n) \div d)

-----------------------------------------------------------------------------
(***************************************************************************)
(* From the stick to a demand.                                             *)
(***************************************************************************)
\* DeviceUser_Get: what input u makes of a value, cur being the one it kept; and
\* the inputs of the stick, as PlatformCtrl_CreateParams_Init sets them up.
DeviceUser_Get(u, cur, value) ==
    LET kept == IF u.method = "Absolute" THEN value
                ELSE IF u.gain = "Incremental" THEN cur + value * u.fGain
                ELSE cur + value
    IN  IF u.gain = "Universal" THEN kept * u.fGain ELSE kept
StickUser == [method |-> "Absolute", gain |-> "Incremental", fGain |-> 1]

\* Mutant: dead is not held to cut1.
joyParamProcHandle_NoDead(p) ==
    [p EXCEPT !.dead = Higher(p.dead, 0),
              !.cut1 = Higher(Lower(p.cut1, p.cut2), 0),
              !.cut2 = Higher(Lower(p.cut2, 10), 0)]
\* joyParamProcHandle for one axis.  dead is held to cut1 before cut1 is held to
\* cut2, so it may take another call until all three are in order.
joyParamProcHandle(p) ==
    [p EXCEPT !.dead = Higher(Lower(p.dead, p.cut1), 0),
              !.cut1 = Higher(Lower(p.cut1, p.cut2), 0),
              !.cut2 = Higher(Lower(p.cut2, 10), 0)]

\* joyXHandle and joyYHandle: three slopes, the last of which ends at 1.
TwoSlopes(p, a) == p.gain1 * (p.cut1 - p.dead) + p.gain2 * (a - p.cut1)
LastSlope(p, a) ==
    TwoSlopes(p, a) + (IF p.cut2 = 10 THEN 0
                       ELSE Cut((100 - TwoSlopes(p, a)) * (a - p.cut2), 10 - p.cut2))
Shaped(p, in) ==
    LET a == IF Abs(in) < p.dead THEN 0 ELSE Abs(in)
    IN  IF a < p.cut1 THEN IF a = 0 THEN 0 ELSE p.gain1 * (a - p.dead)
        ELSE IF a < p.cut2 THEN TwoSlopes(p, a)
        ELSE IF a = 0 THEN 0 ELSE LastSlope(p, a)

\* 50 is fPlatformAcquisitionModeGain, 5000, for a number in hundredths.
joyHandle(p, in) == 50 * (IF in < 0 THEN -Shaped(p, in) ELSE Shaped(p, in))

\* PlatformCtrl_PlatformCompensation.
DemandMax == 8000
Deadband  == 30
Compensated(d) == IF Abs(d) > DemandMax THEN Sign(d) * DemandMax
                  ELSE IF Abs(d) < Deadband THEN 0 ELSE d

-----------------------------------------------------------------------------
(***************************************************************************)
(* From a demand to a speed.                                               *)
(***************************************************************************)
\* UpdateParams.
SpeedLevel == [x |-> <<65, 111, 418, 824, 1339, 2029, 3046, 4812, 8000>>,
               y |-> <<158, 209, 639, 1312, 1733, 2448, 3687, 5269, 8000>>]

\* From the last level on, 0/0 is converted to an int: 0 or the lowest there is.
Converted == {0, -2147483647 - 1}

\* GetPanSpeed and GetTiltSpeed: the speeds that may come of a demand.
GetSpeed(a, d) ==
    LET L == SpeedLevel[a]
        level == Abs(d)
        dir == IF d < 0 THEN -1 ELSE 1
        i == Max({n \in 1 .. 9 : L[n] <= level})
        width == L[i + 1] - L[i]
    IN  IF level < L[1] THEN {0}
        ELSE IF level >= L[9] THEN {dir * (64 + n) : n \in Converted}
        ELSE {dir * (8 * (i - 1) + (16 * (level - L[i]) + width) \div (2 * width))}

-----------------------------------------------------------------------------
(***************************************************************************)
(* The filter of an axis.                                                  *)
(***************************************************************************)
\* PlatformFilter_Create, and PlatformFilter_Reset, which spares the parameters,
\* and stable and count are among them.
NewFilter == [Xc |-> <<0, 0, 0>>, Yc |-> 0, Uc |-> 0, out |-> 0,
              buf |-> <<0, 0, 0, 0, 0, 0, 0, 0>>, stable |-> FALSE, count |-> 0]
\* Mutant: the sum of the errors is kept.
PlatformFilter_Reset_Part(f) == [f EXCEPT !.Yc = 0, !.Xc = <<0, 0, 0>>]
PlatformFilter_Reset(f) == [NewFilter EXCEPT !.stable = f.stable, !.count = f.count]

PlatformFilter_reset4trk(f) ==
    [f EXCEPT !.Xc = <<0, 0, 0>>, !.Yc = f.out, !.Uc = 0, !.stable = FALSE, !.count = 0]

\* Mutant: the oldest rate is not given up.
calcCurPlatAvrRate_Keeps(f, rate) == [f EXCEPT !.buf = <<rate>> \o f.buf]
calcCurPlatAvrRate(f, rate) ==
    LET b == f.buf
    IN  [f EXCEPT !.buf = <<rate, b[1], b[2], b[3], b[4], b[5], b[6], b[7]>>,
                  !.out = Cut(rate + b[1] + b[2] + b[3] + b[4] + b[5] + b[6] + b[7], 8)]

\* Until the error has jumped twice the history does not move.
Shifted(f, cur) ==
    IF f.Xc[2] = 0 /\ f.Xc[3] = 0 /\ Abs(f.Xc[1] - cur) <= 1
    THEN [f.Xc EXCEPT ![1] = cur]
    ELSE <<cur, f.Xc[1], f.Xc[2]>>

SpeedDiff2Integral == 5
SpeedDiff2Count == 1
SpeedMax == 1200

\* pidAlg, but for its result, which is the new Yc.
pidAlg(f, p, cur) ==
    LET Xc == Shifted(f, cur)
        quiet == ~f.stable /\ Xc[2] = 0 /\ Xc[3] = 0
        sums == f.stable \/ (~quiet /\ Abs(Xc[1] - Xc[2]) < SpeedDiff2Integral)
        count == IF ~f.stable /\ ~quiet /\ Abs(cur) > SpeedDiff2Count
                 THEN f.count + 1 ELSE f.count
        Uc == f.Uc + (IF sums THEN cur ELSE 0)
        rate == Cut(p.Kp * cur + (IF quiet THEN 0
                                  ELSE p.Ki * Uc + p.Kd * (cur - Xc[2])), 10)
        ret == Cut(p.K * f.Yc + (10 - p.K) * rate, 10)
    IN  [f EXCEPT !.Xc = Xc, !.Uc = Uc, !.count = count,
                  !.stable = @ \/ (~quiet /\ (Abs(cur) <= SpeedDiff2Count \/ count > FrameNum)),
                  !.Yc = IF Abs(ret) > SpeedMax THEN Sign(ret) * SpeedMax ELSE ret]

-----------------------------------------------------------------------------
Filters ==
    [Xc : Int \X Int \X Int, Yc : Int, Uc : Int, out : Int,
     buf : Int \X Int \X Int \X Int \X Int \X Int \X Int \X Int,
     stable : BOOLEAN, count : Nat]

Reports == [status : States, err : Int]

\* The levels of the unit, or more when the demand is the highest one.
UnitSpeeds == -64 .. 64 \cup {d * (64 + n) : d \in {-1, 1}, n \in Converted}

TypeOK ==
    /\ jos \in [Axes -> Settings] /\ pid \in PidParams
    /\ filter \in [Axes -> Filters]
    /\ virtalInput \in [Axes -> Sticks] /\ stick \in [Axes -> Sticks]
    /\ demand \in [Axes -> Int] /\ speed \in [Axes -> UnitSpeeds]
    /\ bakState \in States
    /\ queue \in Seq({"jos", "speed", "trk", "start", "stop"})
    /\ trk \in Reports /\ pixelErr \in Reports
    /\ receiving \in {"no", "told", "copied"}
    /\ inputs \in 0 .. MaxInputs
    /\ ignored \in BOOLEAN /\ torn \in BOOLEAN
    /\ busy = None \/ busy \in [Axes -> Filters]

Centre  == [a \in Axes |-> 0]
NoError == [status |-> Acquire, err |-> 0]

\* PlatformCtrl_Create, from what PlatformCtrl_CreateParams_Init took from the
\* settings.
Init ==
    /\ \E p \in JosParams : jos = [a \in Axes |-> p]
    /\ pid \in PidParams
    /\ filter = [a \in Axes |-> NewFilter]
    /\ virtalInput = Centre /\ stick = Centre
    /\ demand = Centre /\ speed = Centre
    /\ bakState = Acquire
    /\ busy = None
    /\ queue = <<>>
    /\ trk = NoError /\ pixelErr = NoError
    /\ receiving = "no"
    /\ inputs = 0 /\ ignored = FALSE /\ torn = FALSE

-----------------------------------------------------------------------------
(***************************************************************************)
(* Commands, settings and reports.                                         *)
(***************************************************************************)
Counted == inputs < MaxInputs /\ inputs' = inputs + 1

\* A receiver stores the stick's position and sends MSGID_EXT_INPUT_JOSPOS, or
\* MSGID_COM_INPUT_SETPLATSPEED if it came over a link.
MoveStick(v, cmd) ==
    /\ Counted /\ v # stick.x
    /\ stick' = [stick EXCEPT !.x = v]
    /\ queue' = Append(queue, cmd)
    /\ UNCHANGED <<plant, speed, trk, pixelErr, receiving, ignored, torn>>

\* A receiver sends MSGID_EXT_INPUT_TRACKCTRL.
TrackCommand(cmd) ==
    /\ Counted
    /\ queue' = Append(queue, cmd)
    /\ UNCHANGED <<plant, speed, stick, trk, pixelErr, receiving, ignored, torn>>

\* The image process writes the state of the tracker and its error, and tells;
\* it may have changed them again before it is read.
Report(s, e) ==
    /\ Counted
    /\ trk' = [status |-> s, err |-> e]
    /\ receiving' = IF receiving = "no" THEN "told" ELSE receiving
    /\ UNCHANGED <<plant, speed, stick, queue, pixelErr, ignored, torn>>

\* thread_ipcEvent copies the state, then the errors, and sends.
CopyStatus ==
    /\ receiving = "told"
    /\ pixelErr' = [pixelErr EXCEPT !.status = trk.status]
    /\ receiving' = "copied"
    /\ UNCHANGED <<plant, speed, stick, queue, trk, hist>>

CopyError ==
    /\ receiving = "copied"
    /\ pixelErr' = [pixelErr EXCEPT !.err = trk.err]
    /\ queue' = Append(queue, "trk")
    /\ receiving' = "no"
    /\ UNCHANGED <<plant, speed, stick, trk, hist>>

\* thread_ipcGstEvent: a new track resets the filters, whatever the dispatcher is
\* doing with them; the end of a track stops the unit.
GstReset ==
    /\ Counted
    /\ filter' = [a \in Axes |-> PlatformFilter_reset4trk(filter[a])]
    /\ torn' = (torn \/ busy # None)
    /\ UNCHANGED <<jos, pid, virtalInput, demand, bakState, busy, speed, world, ignored>>

\* It also hands on reports of its own; that another thread may store one half of
\* another report in between is shown by CopyStatus and CopyError.
GstReport(s, e) ==
    /\ Counted
    /\ pixelErr' = [status |-> s, err |-> e]
    /\ queue' = Append(queue, "trk")
    /\ UNCHANGED <<plant, speed, stick, trk, receiving, ignored, torn>>

GstStop ==
    /\ Counted
    /\ speed' = Centre
    /\ UNCHANGED <<plant, world, ignored, torn>>

-----------------------------------------------------------------------------
(***************************************************************************)
(* The dispatcher.                                                         *)
(***************************************************************************)
Next1(cmd) == busy = None /\ queue # <<>> /\ Head(queue) = cmd /\ queue' = Tail(queue)

\* setPanSpeed and setTiltSpeed with what the demand is worth.
SetSpeeds(d) == \E n \in GetSpeed("x", Compensated(d.x)), m \in GetSpeed("y", Compensated(d.y)) :
                    speed' = [x |-> n, y |-> m]

\* PlatformCtrl_OutPlatformDemand in Acquire: the shaped stick, but after any
\* other state nothing once, and the filters reset.
OutAcquire(in) ==
    LET p == [a \in Axes |-> joyParamProcHandle(jos[a])]
        d == [a \in Axes |-> joyHandle(p[a], DeviceUser_Get(StickUser, 0, in[a]))]
    IN  /\ jos' = p
        /\ virtalInput' = in
        /\ IF bakState # Acquire
           THEN /\ filter' = [a \in Axes |-> PlatformFilter_Reset(filter[a])]
                /\ demand' = Centre
           ELSE /\ filter' = [a \in Axes |-> calcCurPlatAvrRate(filter[a], d[a])]
                /\ demand' = d
        /\ bakState' = Acquire
        /\ SetSpeeds(demand')
        /\ UNCHANGED <<pid, busy>>

\* Mutant: a stick in the middle is not handed on.
AxisMove_OffCentre ==
    /\ IF stick # Centre THEN OutAcquire(stick) ELSE UNCHANGED <<plant, speed>>
    /\ UNCHANGED <<stick, trk, pixelErr, receiving, inputs, ignored, torn>>
\* axisMove_interface.
AxisMove ==
    /\ OutAcquire(stick)
    /\ UNCHANGED <<stick, trk, pixelErr, receiving, inputs, ignored, torn>>

\* MSG_JosPos: a stick is ignored while the image says it tracks.
HandleJos ==
    /\ Next1("jos")
    /\ IF trk.status # Acquire
       THEN /\ ignored' = TRUE
            /\ UNCHANGED <<plant, speed, stick, trk, pixelErr, receiving, inputs, torn>>
       ELSE AxisMove

\* MSG_Com_SetPlatSpeed: a link's is not.
HandleSpeed == Next1("speed") /\ AxisMove

\* MSG_Com_TrkMovControl, trkMovControl: with what m_pixelErr has by now.
HandleAcquire ==
    /\ Next1("trk") /\ pixelErr.status = Acquire
    /\ OutAcquire(virtalInput)
    /\ UNCHANGED <<stick, trk, pixelErr, receiving, inputs, ignored, torn>>

HandleBreak1 ==
    /\ Next1("trk") /\ pixelErr.status = Break_Lock_1
    /\ bakState' = Break_Lock_1
    /\ SetSpeeds(demand)
    /\ UNCHANGED <<jos, pid, filter, virtalInput, demand, busy, stick, trk, pixelErr,
                   receiving, hist>>

HandleBreak2 ==
    /\ Next1("trk") /\ pixelErr.status = Break_Lock_2
    /\ filter' = [a \in Axes |-> PlatformFilter_Reset(filter[a])]
    /\ demand' = Centre
    /\ bakState' = Break_Lock_2
    /\ SetSpeeds(demand')
    /\ UNCHANGED <<jos, pid, virtalInput, busy, stick, trk, pixelErr, receiving, inputs,
                   ignored, torn>>

\* An error of a pixel or less is none.  The width of the picture is taken to be
\* its field of view.
ErrorX(e) == IF Abs(e) <= 1 THEN 0 ELSE e

\* Into pidAlg, with the filters as they are.
HandleLock ==
    /\ Next1("trk") /\ pixelErr.status = Trk_Lock
    /\ busy' = filter
    /\ torn' = FALSE
    /\ UNCHANGED <<jos, pid, filter, virtalInput, demand, bakState, speed, stick, trk,
                   pixelErr, receiving, inputs, ignored>>

\* And out of it.  If the filters were reset meanwhile, any field may have either
\* value.
Input(a) == IF a = "x" THEN ErrorX(pixelErr.err) ELSE 0
Either(f, g, added) ==
    {[f EXCEPT !.Uc = u, !.Xc = c, !.stable = s, !.count = n] :
        u \in {f.Uc, g.Uc, added}, c \in {f.Xc, g.Xc}, s \in {f.stable, g.stable},
        n \in {f.count, g.count}}

FinishLock ==
    /\ busy # None
    /\ LET done == [a \in Axes |-> pidAlg(busy[a], pid, Input(a))]
       IN  /\ IF torn
              THEN \E f \in Either(done.x, filter.x, done.x.Uc - busy.x.Uc) :
                      filter' = [done EXCEPT !.x = f]
              ELSE filter' = done
           /\ demand' = [a \in Axes |-> done[a].Yc]
    /\ SetSpeeds(demand')
    /\ bakState' = Trk_Lock
    /\ busy' = None
    /\ UNCHANGED <<jos, pid, virtalInput, world, inputs, ignored, torn>>

\* State::TrkCtrl.
HandleStart ==
    /\ Next1("start")
    /\ filter' = [a \in Axes |-> PlatformFilter_reset4trk(filter[a])]
    /\ UNCHANGED <<jos, pid, virtalInput, demand, bakState, busy, speed, stick, trk,
                   pixelErr, receiving, inputs, ignored, torn>>

HandleStop ==
    /\ Next1("stop")
    /\ speed' = Centre
    /\ UNCHANGED <<plant, stick, trk, pixelErr, receiving, hist>>

\* PlatformCtrl_updateJosparam and updatePIDparam: as they were stored.
UpdateJosparam(p) ==
    /\ Counted /\ busy = None
    /\ jos' = [a \in Axes |-> p]
    /\ UNCHANGED <<pid, filter, virtalInput, demand, bakState, busy, speed, world, ignored,
                   torn>>

UpdatePIDparam(p) ==
    /\ Counted /\ busy = None
    /\ pid' = p
    /\ UNCHANGED <<jos, filter, virtalInput, demand, bakState, busy, speed, world, ignored,
                   torn>>

-----------------------------------------------------------------------------
Next ==
    \/ \E v \in Sticks, cmd \in {"jos", "speed"} : MoveStick(v, cmd)
    \/ \E cmd \in {"start", "stop"} : TrackCommand(cmd)
    \/ \E s \in States, e \in Errors : Report(s, e) \/ GstReport(s, e)
    \/ CopyStatus \/ CopyError \/ GstReset \/ GstStop
    \/ HandleJos \/ HandleSpeed \/ HandleAcquire \/ HandleBreak1 \/ HandleBreak2
    \/ HandleLock \/ FinishLock \/ HandleStart \/ HandleStop
    \/ \E p \in JosParams : UpdateJosparam(p)
    \/ \E p \in PidParams : UpdatePIDparam(p)

Spec == Init /\ [][Next]_vars

-----------------------------------------------------------------------------
(***************************************************************************)
(* What the platform promises.                                             *)
(***************************************************************************)
\* A stick command, or the end of a track, turns the unit the way the stick points
\* or not at all, however the stick's settings were set: unless they are not yet in
\* order, which two calls of joyParamProcHandle make them, or the demand is the
\* highest one (axisMove_interface, PlatformCtrl_AcqRateDemand, GetPanSpeed).
TurnsWithStick ==
    (bakState' = Acquire /\ <<speed, virtalInput>>' # <<speed, virtalInput>>) =>
        \A a \in Axes :
            (joyParamProcHandle(jos'[a]) = jos'[a] /\ Abs(demand'[a]) < DemandMax) =>
                speed'[a] = 0 \/ Sign(speed'[a]) = Sign(virtalInput'[a])
FollowsStick == [][TurnsWithStick]_vars

\* With the stick in the middle and all commands and reports handled, the unit
\* stands, unless it tracks or MSG_JosPos ignored the stick while it did: then
\* the platform keeps the position the stick had before, and the second report
\* that the track is over turns the unit again.
StandsWhenCentred ==
    (stick = Centre /\ queue = <<>> /\ bakState = Acquire /\ ~ignored) => speed = Centre

\* Between two tracks the filters hold nothing of the last one: neither errors
\* that were summed nor ones to compare the next with (PlatformFilter_Reset,
\* reset4trk, pidAlg).
NoOldIntegral ==
    bakState \in {Acquire, Break_Lock_2} =>
        \A a \in Axes : filter[a].Uc = 0 /\ filter[a].Xc = <<0, 0, 0>>

=============================================================================
