------------------------------- MODULE Optics -------------------------------
(***************************************************************************)
(* The field of view and the boresight (sensorComp.cpp).  Both are         *)
(* computed from the settings of the current input: a fixed value, a value *)
(* per class, or a value interpolated by the zoom position.  The sensor    *)
(* component works on copies of the settings, one per kind of optics       *)
(* (m_viewParam), refreshed by updateFov; the platform keeps the result.   *)
(* Two threads refresh them: the dispatcher, when a setting is stored or   *)
(* the input is switched, and the thread that reads the camera's answers,  *)
(* when the zoom has moved (notifyzoomchange).  One action is one access.  *)
(***************************************************************************)
EXTENDS ConfigTable, Integers

CONSTANTS Channels,     \* the inputs used, numbered from 0
          Given,        \* the settings at first, per address of their blocks
          Varied,       \* the addresses that commands set,
          Choices,      \* and to what
          Zooms,        \* positions the zoom reports
          MaxChanges    \* bound: settings, switches and moves in a behaviour

\* The addresses that the optics of an input are computed from.
Used(b) == {FOVTYPE(b), FOVCLASS(b)}
               \cup UNION {{FOVX(b, n), Feedback(b, n), boresightX(b, n)} : n \in Levels}

ASSUME OpticsAssumption ==
    /\ Channels \subseteq 0 .. 4
    /\ \A ch \in Channels : Used(SensorBaseAddress(ch)) \subseteq DOMAIN Given
    /\ Varied \subseteq DOMAIN Given /\ \A a \in DOMAIN Given : Given[a] \in Nat
    /\ \A a \in Varied : Choices[a] \subseteq Nat
    /\ Zooms \subseteq Nat /\ MaxChanges \in Nat

VARIABLES settings,     \* the varied part of the table
          mainch,       \* CFGID_RTS_mainch, written by the image process
          chosen,       \* selectch.idx: the input last asked for, if any was
          copy,         \* m_viewParam: what each kind of optics was copied from
          fov,          \* privates.fovX
          bore,         \* CFGID_INPUT_CURBOREX of the input it was computed for
          zoom,         \* m_iZoomPos
          job,          \* what the two threads have yet to do
          refreshed     \* the copies and fov were refreshed since the start

\* History: changes so far, and whether one began before another was done with.
VARIABLES changes, overlapped

vars == <<settings, mainch, chosen, copy, fov, bore, zoom, job, refreshed,
          changes, overlapped>>

Threads == {"dispatcher", "camera"}
Kinds   == 0 .. 2               \* fixed, switched, continuous
Current == -1                   \* the default of the parameter chid
Unknown == -1                   \* a variable that was not initialised
NoJob   == [todo |-> <<>>, zoom |-> 0, ch |-> Current]

-----------------------------------------------------------------------------
(***************************************************************************)
(* Looking a value up, in the settings s.                                  *)
(***************************************************************************)
At(s, a) == IF a \in Varied THEN s[a] ELSE Given[a]

Base(ch) == SensorBaseAddress(IF ch = Current THEN mainch ELSE ch)
Kind(ch) == At(settings, FOVTYPE(Base(ch)))

\* Classes are 0 .. 4.
Class(ch) == LET c == At(settings, FOVCLASS(Base(ch)))
             IN  IF c < 0 THEN 0 ELSE IF c > 4 THEN 4 ELSE c

\* Two levels at the same position give no number.
linear_interpolation(x0, x1, y0, y1, x) ==
    IF x1 = x0 THEN Unknown ELSE y0 + ((y1 - y0) * (x - x0)) \div (x1 - x0)

\* The level at whose interval the zoom position lies, and the value there.
Interpolate(s, b, Value(_, _), n, z) ==
    linear_interpolation(At(s, Feedback(b, n)), At(s, Feedback(b, n + 1)),
                         At(s, Value(b, n)), At(s, Value(b, n + 1)), z)

\* ZoomLevelFovCompensation: the first interval that has z, ends included; for
\* a position in none the result is not initialised.
FovIntervals(s, b, z) ==
    {n \in 1 .. 12 : At(s, Feedback(b, n)) <= z /\ z <= At(s, Feedback(b, n + 1))}
Lowest(S) == CHOOSE n \in S : \A m \in S : n <= m

ContinuousFov(s, b, z) ==
    IF z = 0 THEN At(s, FOVX(b, 1))
    ELSE IF FovIntervals(s, b, z) = {} THEN Unknown
    ELSE Interpolate(s, b, FOVX, Lowest(FovIntervals(s, b, z)), z)

\* dynamicSendBoresightPosX: the last interval that has z, its upper end left
\* out; the last level for a position in none.
BoreIntervals(s, b, z) ==
    {n \in 1 .. 12 : At(s, Feedback(b, n)) <= z /\ z < At(s, Feedback(b, n + 1))}
Highest(S) == CHOOSE n \in S : \A m \in S : m <= n

ContinuousBoresight(s, b, z) ==
    IF z = 0 THEN At(s, boresightX(b, 1))
    ELSE IF BoreIntervals(s, b, z) = {} THEN At(s, boresightX(b, 13))
    ELSE Interpolate(s, b, boresightX, Highest(BoreIntervals(s, b, z)), z)

\* The field of view for optics of a kind whose settings were copied as s.
FovOf(kind, s, ch, z) ==
    CASE kind = 0 -> At(s, FOVX(Base(ch), 1))
      [] kind = 1 -> At(s, FOVX(Base(ch), Class(ch) + 1))
      [] kind = 2 -> ContinuousFov(s, Base(ch), z)

\* getBoresight takes fixed and switched values from the table itself, and
\* continuous ones from the copy.
BoresightOf(kind, s, ch, z) ==
    CASE kind = 0 -> At(settings, boresightX(Base(ch), 1))
      [] kind = 1 -> At(settings, boresightX(Base(ch), Class(ch) + 1))
      [] kind = 2 -> ContinuousBoresight(s, Base(ch), z)

-----------------------------------------------------------------------------
Jobs == [todo : {<<>>, <<"fov">>, <<"bore">>, <<"fov", "bore">>, <<"bore", "fov">>},
         zoom : Zooms \cup {0}, ch : Channels \cup {Current}]

TypeOK ==
    /\ settings \in [Varied -> Nat]
    /\ \A a \in Varied : settings[a] \in Choices[a] \cup {Given[a]}
    /\ mainch \in Channels /\ chosen \in Channels
    /\ copy \in [Kinds -> [Varied -> Int]]
    /\ fov \in Int
    /\ bore \in [value : Int, ch : Channels \cup {Current}]
    /\ zoom \in Zooms \cup {0}
    /\ job \in [Threads -> Jobs]
    /\ refreshed \in BOOLEAN /\ overlapped \in BOOLEAN
    /\ changes \in 0 .. MaxChanges

\* State::platformCreate: the copy for the kind of the current input is made,
\* and the platform starts with the fixed field of view, which may not be there.
Init ==
    LET given == [a \in Varied |-> Given[a]] IN
    /\ settings = given
    /\ mainch \in Channels
    /\ chosen = mainch
    /\ copy = [k \in Kinds |-> IF k = Kind(Current) THEN given
                                                    ELSE [a \in Varied |-> Unknown]]
    /\ fov = IF Kind(Current) = 0 THEN FovOf(0, given, mainch, 0) ELSE Unknown
    /\ bore = [value |-> Unknown, ch |-> Current]
    /\ zoom = 0
    /\ job = [t \in Threads |-> NoJob]
    /\ refreshed = FALSE
    /\ changes = 0
    /\ overlapped = FALSE

Busy == \E t \in Threads : job[t] # NoJob

\* A thread begins to work on a change.
Begin(t, j) ==
    /\ changes < MaxChanges
    /\ changes' = changes + 1
    /\ job[t] = NoJob
    /\ job' = [job EXCEPT ![t] = IF j.todo = <<>> THEN NoJob ELSE j]
    /\ overlapped' = (overlapped \/ Busy \/ mainch # chosen)

\* Mutant: what the field of view depends on is not asked for.
ToDo_NoFov(a) ==
    IF isRelation2boresight(BaseAddress(mainch), a) THEN <<"bore">> ELSE <<>>
\* What updateparams does for a field, of the input that is current.
ToDo(a) ==
    (IF isRelation2fov(BaseAddress(mainch), a) THEN <<"fov">> ELSE <<>>)
        \o (IF isRelation2boresight(BaseAddress(mainch), a) THEN <<"bore">> ELSE <<>>)

\* SetConfig, and updateparams up to getzoom.
SetSetting(a) ==
    /\ \E v \in Choices[a] : settings' = [settings EXCEPT ![a] = v]
    /\ Begin("dispatcher", [todo |-> ToDo(a), zoom |-> zoom, ch |-> Current])
    /\ UNCHANGED <<mainch, chosen, copy, fov, bore, zoom, refreshed>>

\* switchSensor_interface with an input; the image process is told to switch.
SwitchSensor(ch) ==
    /\ chosen' = ch
    /\ Begin("dispatcher", [todo |-> <<"bore", "fov">>, zoom |-> zoom, ch |-> ch])
    /\ UNCHANGED <<settings, mainch, copy, fov, bore, zoom, refreshed>>

\* And it does so in its own time.
ImageSwitches ==
    /\ mainch # chosen
    /\ mainch' = chosen
    /\ overlapped' = (overlapped \/ \E t \in Threads : job[t].ch = Current /\ job[t] # NoJob)
    /\ UNCHANGED <<settings, chosen, copy, fov, bore, zoom, job, refreshed, changes>>

\* The zoom has moved: notifyzoomchange.
ZoomMoved(z) ==
    /\ z # zoom
    /\ zoom' = z
    /\ Begin("camera", [todo |-> <<"bore", "fov">>, zoom |-> z, ch |-> Current])
    /\ UNCHANGED <<settings, mainch, chosen, copy, fov, bore, refreshed>>

Channel(ch) == IF ch = Current THEN mainch ELSE ch

\* The class for a kind of optics fetches all of its settings again.
Refreshed(kind) == [copy EXCEPT ![kind] = settings]

\* CSensorComp::updateFov; another kind than the three changes nothing.
UpdateFov(j) ==
    LET kind == Kind(j.ch) IN
    /\ IF kind \in Kinds
       THEN /\ copy' = Refreshed(kind)
            /\ fov' = FovOf(kind, settings, j.ch, j.zoom)
            /\ refreshed' = TRUE
       ELSE UNCHANGED <<copy, fov, refreshed>>
    /\ UNCHANGED <<settings, bore>>

\* Mutant: a switched boresight is taken one class too low.
GetBoresight_Class(j) ==
    LET kind == Kind(j.ch) IN
    /\ bore' = [value |-> IF kind = 1 THEN At(settings, boresightX(Base(j.ch), 1))
                          ELSE IF kind \in Kinds
                          THEN BoresightOf(kind, copy[kind], j.ch, j.zoom) ELSE Unknown,
                ch |-> Channel(j.ch)]
    /\ UNCHANGED <<copy, fov, refreshed, settings>>
\* CSensorComp::getBoresight; for another kind the result is not initialised.
GetBoresight(j) ==
    LET kind == Kind(j.ch) IN
    /\ bore' = [value |-> IF kind \in Kinds
                          THEN BoresightOf(kind, copy[kind], j.ch, j.zoom) ELSE Unknown,
                ch |-> Channel(j.ch)]
    /\ UNCHANGED <<copy, fov, refreshed, settings>>

\* What is left of a job when the first thing to do is done.
Rest(j) == IF Len(j.todo) = 1 THEN NoJob ELSE [j EXCEPT !.todo = Tail(j.todo)]

Step(t) ==
    /\ job[t] # NoJob
    /\ IF Head(job[t].todo) = "fov" THEN UpdateFov(job[t]) ELSE GetBoresight(job[t])
    /\ job' = [job EXCEPT ![t] = Rest(job[t])]
    /\ UNCHANGED <<mainch, chosen, zoom, changes, overlapped>>

Next ==
    \/ \E a \in Varied : SetSetting(a)
    \/ \E ch \in Channels : SwitchSensor(ch)
    \/ ImageSwitches
    \/ \E z \in Zooms : ZoomMoved(z)
    \/ \E t \in Threads : Step(t)

Spec == Init /\ [][Next]_vars

-----------------------------------------------------------------------------
(***************************************************************************)
(* Properties.                                                             *)
(***************************************************************************)
Settled == ~Busy /\ mainch = chosen /\ ~overlapped /\ refreshed

\* When all has been done the platform computes with the field of view that the
\* settings give for the input and the zoom position, whatever the order in
\* which settings, input and zoom changed, as long as one change was done with
\* before the next.
FovFollows ==
    Settled /\ Kind(Current) \in Kinds =>
        fov = FovOf(Kind(Current), settings, Current, zoom)

\* So is the boresight reported for the input, if its optics are not continuous.
BoresightFollows ==
    Settled /\ Kind(Current) \in 0 .. 1 /\ bore.ch = mainch =>
        bore.value = BoresightOf(Kind(Current), settings, Current, zoom)
=============================================================================
