---------------------------- MODULE PelcoPackets ----------------------------
(***************************************************************************)
(* One request buffer used for command after command, in both formats.     *)
(***************************************************************************)
EXTENDS Pelco

CONSTANTS Speeds, Values, Queries

PelcoPacketsAssumption ==
    Speeds \subseteq 0 .. 63 /\ Values \subseteq Word /\ Queries \subseteq 0 .. 255

VARIABLES packet,   \* per format, the buffer
          asked     \* the command it was last used for

vars == <<packet, asked>>

NoMotion == [do |-> "other", bit |-> 0]

Init ==
    /\ packet = [f \in Formats |-> PktFormat({}, {}, 0, 0)]
    /\ asked = NoMotion

Make(Packet(_, _), command) ==
    /\ packet' = [f \in Formats |-> Packet(f, packet[f])]
    /\ asked' = command

Move ==
    \E d \in {Up, Down, Left, Right}, s \in Speeds, clear \in BOOLEAN :
        Make(LAMBDA f, p : MakeMove(p, d, s, clear), [do |-> "move", bit |-> d])
Stop ==
    \E clear \in BOOLEAN :
        Make(LAMBDA f, p : MakeMove(p, Halt, 0, clear), NoMotion)
Zoom ==
    \/ Make(LAMBDA f, p : MakeZoomWide(p), [do |-> "zoom", bit |-> Wide])
    \/ Make(LAMBDA f, p : MakeZoomTele(p), [do |-> "zoom", bit |-> Tele])
    \/ Make(LAMBDA f, p : MakeZoomStop(p), NoMotion)
Focus ==
    \/ Make(LAMBDA f, p : MakeFocusFar(f, p), [do |-> "focus", bit |-> 1])
    \/ Make(LAMBDA f, p : MakeFocusNear(f, p), [do |-> "focus", bit |-> 0])
    \/ Make(LAMBDA f, p : MakeFocusStop(f, p), NoMotion)
Iris ==
    \/ Make(LAMBDA f, p : MakeIrisOpen(f, p), NoMotion)
    \/ Make(LAMBDA f, p : MakeIrisClose(f, p), NoMotion)
Camera ==
    \/ Make(LAMBDA f, p : MakeCameraOn, NoMotion)
    \/ Make(LAMBDA f, p : MakeCameraOff, NoMotion)
    \/ Make(LAMBDA f, p : MakeAutoScan(f, p), NoMotion)
    \/ Make(LAMBDA f, p : MakeRemoteReset, NoMotion)
\* P has none of these; its buffer stays as it was.
OnlyD(f, p, q) == IF f = "D" THEN q ELSE p
Ask ==
    \/ Make(LAMBDA f, p : OnlyD(f, p, QueryPanPos), NoMotion)
    \/ Make(LAMBDA f, p : OnlyD(f, p, QueryTiltPos), NoMotion)
    \/ Make(LAMBDA f, p : OnlyD(f, p, QueryZoomPos), NoMotion)
    \/ Make(LAMBDA f, p : OnlyD(f, p, MakeDummy), NoMotion)
Go ==
    \E v \in Values :
        \/ Make(LAMBDA f, p : OnlyD(f, p, MakeSetPanPos(v)), NoMotion)
        \/ Make(LAMBDA f, p : OnlyD(f, p, MakeSetTilPos(v)), NoMotion)
        \/ Make(LAMBDA f, p : OnlyD(f, p, MakeSetZoomPos(v)), NoMotion)
Extend ==
    \E c \in Queries, s \in Speeds :
        \/ Make(LAMBDA f, p : MakeExtCommand(c, s, 0), NoMotion)
        \/ Make(LAMBDA f, p : MakePresetCtrl(c, s), NoMotion)
        \/ Make(LAMBDA f, p : MakeSetZoomSpeed(s), NoMotion)
        \/ Make(LAMBDA f, p : MakeSetFocusSpeed(s), NoMotion)

Next == Move \/ Stop \/ Zoom \/ Focus \/ Iris \/ Camera \/ Ask \/ Go \/ Extend

Spec == Init /\ [][Next]_vars

-----------------------------------------------------------------------------
TypeOK == packet \in [Formats -> Packets]

\* What the buffer held before, a motion, a query or a position, never makes a
\* motion command into something else: the unit takes it for a motion, it has
\* the part that was asked for and nothing that contradicts it.
MotionIsMotion ==
    asked.do # "other" =>
        \A f \in Formats :
            LET p == packet[f] IN
            /\ ~Extended(p)
            /\ \A pair \in Opposites \cup {{Tele, Wide}} : ~(pair \subseteq p.cmd2)
            /\ ~(FarBit(f, p) /\ NearOf(f) \in p.cmd1)
            /\ IF asked.do # "focus" THEN asked.bit \in p.cmd2
               ELSE IF asked.bit = 1 THEN FarBit(f, p)
               ELSE NearOf(f) \in p.cmd1
=============================================================================
