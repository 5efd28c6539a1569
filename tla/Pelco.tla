-------------------------------- MODULE Pelco -------------------------------
(***************************************************************************)
(* Requests to the pan-tilt unit in the two Pelco formats (pelcoDformat.cpp *)
(* and pelcoPformat.cpp).  A request is kept in a buffer from one command  *)
(* to the next, and most commands change a part of it.  A command byte is  *)
(* the set of its bits; the address, the frame and the check sum, which    *)
(* every Make function brings up to date at its end, are left out.         *)
(***************************************************************************)
EXTENDS Integers, Sequences

Formats == {"D", "P"}
Weight  == <<1, 2, 4, 8, 16, 32, 64, 128>>
Byte(n) == {b \in 0 .. 7 : (n \div Weight[b + 1]) % 2 = 1}
Word    == {n \in Nat : n < 65536}

\* data1 and data2: the two speeds, or the two bytes of a position.
Packets == [cmd1 : SUBSET (0 .. 7), cmd2 : SUBSET (0 .. 7),
            data1 : 0 .. 255, data2 : 0 .. 255]

\* tCmd2, the same in both formats but for the far focus of D; tCmd1.
Reserved == 0
Right == 1
Left == 2
Up == 3
Down == 4
Tele == 5
Wide == 6
FarOfD == 7
NearOf(f)     == IF f = "D" THEN 0 ELSE 1
FarOfP == 0
IrisOpen(f)   == IF f = "D" THEN 1 ELSE 2
IrisClose(f)  == IF f = "D" THEN 2 ELSE 3
AutoScan(f)   == IF f = "D" THEN 4 ELSE 5

\* PTZ_MOVE_Stop
Halt == 0

Opposites == {{Right, Left}, {Up, Down}}

-----------------------------------------------------------------------------
PktFormat(cmd1, cmd2, data1, data2) ==
    [cmd1 |-> cmd1, cmd2 |-> cmd2, data1 |-> data1, data2 |-> data2]

\* MakePresetCtrl, MakePatternCtrl (not in P), MakeExtCommand and the commands
\* with a number of their own.
MakeExtCommand(nCmdType, byValue, byDataExt) ==
    PktFormat({}, Byte(nCmdType), byDataExt, byValue)
MakePresetCtrl(nCtrlType, byValue) == MakeExtCommand(nCtrlType, byValue, 0)
MakeSetZoomSpeed(byValue)  == MakeExtCommand(37, byValue, 0)
MakeSetFocusSpeed(byValue) == MakeExtCommand(39, byValue, 0)
MakeRemoteReset == MakeExtCommand(15, 0, 0)
MakeDummy       == MakeExtCommand(13, 0, 0)
MakeCameraOn    == PktFormat(Byte(136), {}, 0, 0)
MakeCameraOff   == PktFormat(Byte(8), {}, 0, 0)

QueryPanPos  == MakeExtCommand(81, 0, 0)
QueryTiltPos == MakeExtCommand(83, 0, 0)
QueryZoomPos == MakeExtCommand(85, 0, 0)

\* D only; P leaves the buffer alone.
Position(code, value) ==
    PktFormat({}, Byte(code), (value \div 256) % 256, value % 256)
Clamped(value, low, high) ==
    IF value > high THEN high ELSE IF value < low THEN low ELSE value
MakeSetPanPos(value)  == Position(75, Clamped(value, 0, 35999))
MakeSetTilPos(value)  == Position(77, Clamped(value, 0, 35999))
MakeSetZoomPos(value) == Position(79, Clamped(value, 2849, 65535))

-----------------------------------------------------------------------------
(***************************************************************************)
(* Commands that change a part of the buffer p.                            *)
(***************************************************************************)
\* What is kept of the second byte: nothing of an extended command, of zooming,
\* of focusing far or of opposite directions.
Kept(cmd2) ==
    IF cmd2 \cap Byte(225) # {} \/ \E pair \in Opposites : pair \subseteq cmd2
    THEN {} ELSE cmd2

\* Mutant: the opposite direction is kept.
MakeMove_KeepOther(p, direction, speed, clear) ==
    LET q == IF clear THEN PktFormat({}, {}, 0, 0)
                      ELSE [p EXCEPT !.cmd1 = {}, !.cmd2 = Kept(@)]
    IN  CASE direction = Halt -> PktFormat({}, {}, 0, 0)
          [] direction \in {Up, Down} ->
                 [q EXCEPT !.cmd2 = @ \cup {direction}, !.data2 = speed]
          [] direction \in {Left, Right} ->
                 [q EXCEPT !.cmd2 = @ \cup {direction}, !.data1 = speed]
MakeMove(p, direction, speed, clear) ==
    LET q == IF clear THEN PktFormat({}, {}, 0, 0)
                      ELSE [p EXCEPT !.cmd1 = {}, !.cmd2 = Kept(@)]
    IN  CASE direction = Halt -> PktFormat({}, {}, 0, 0)
          [] direction \in {Up, Down} ->
                 [q EXCEPT !.cmd2 = (@ \ {Up, Down}) \cup {direction}, !.data2 = speed]
          [] direction \in {Left, Right} ->
                 [q EXCEPT !.cmd2 = (@ \ {Left, Right}) \cup {direction}, !.data1 = speed]

MakeZoomWide(p) == [p EXCEPT !.cmd2 = (Kept(@) \cup {Wide}) \ {Tele}]
\* Mutant: the rest of an extended command is not taken away.
MakeZoomTele_Keep(p) == [p EXCEPT !.cmd2 = (@ \cup {Tele}) \ {Wide}]
MakeZoomTele(p) == [p EXCEPT !.cmd2 = (Kept(@) \cup {Tele}) \ {Wide}]
MakeZoomStop(p) == [p EXCEPT !.cmd2 = @ \ {Tele, Wide}]

MakeFocusFar(f, p) ==
    IF f = "D"
    THEN [p EXCEPT !.cmd1 = @ \ {NearOf(f)}, !.cmd2 = Kept(@) \cup {FarOfD}]
    ELSE [p EXCEPT !.cmd1 = (@ \ {NearOf(f)}) \cup {FarOfP}, !.cmd2 = Kept(@)]
MakeFocusNear(f, p) ==
    IF f = "D"
    THEN [p EXCEPT !.cmd1 = @ \cup {NearOf(f)}, !.cmd2 = Kept(@) \ {FarOfD}]
    ELSE [p EXCEPT !.cmd1 = (@ \cup {NearOf(f)}) \ {FarOfP}, !.cmd2 = Kept(@)]
MakeFocusStop(f, p) ==
    IF f = "D" THEN [p EXCEPT !.cmd1 = @ \ {NearOf(f)}, !.cmd2 = @ \ {FarOfD}]
               ELSE [p EXCEPT !.cmd1 = {}]

MakeIrisOpen(f, p)  == [p EXCEPT !.cmd1 = {IrisOpen(f)}]
MakeIrisClose(f, p) == [p EXCEPT !.cmd1 = {IrisClose(f)}]
MakeAutoScan(f, p)  == [p EXCEPT !.cmd1 = {AutoScan(f)}, !.cmd2 = {}]

-----------------------------------------------------------------------------
(***************************************************************************)
(* What a unit makes of a request.                                         *)
(***************************************************************************)
Extended(p) == Reserved \in p.cmd2
FarBit(f, p) == IF f = "D" THEN FarOfD \in p.cmd2 ELSE FarOfP \in p.cmd1
=============================================================================
