---------------------------- MODULE ConfigTable ----------------------------
(***************************************************************************)
(* The configuration table: 128 blocks of 16 fields (configtable.h), and   *)
(* what EventManager.cpp knows of an address: how it is written to the     *)
(* profile, whether a command may set it and to what, and whether the      *)
(* field of view or the boresight depends on it.                           *)
(***************************************************************************)
EXTENDS Naturals, Sequences

\* CFGID_*_BKID
Block == [JOS |-> 0, PTZ |-> 1, RTS |-> 2, TRK |-> 3, OSD |-> 6, OSD2 |-> 29,
          OUTPUT |-> 50, PREPOS |-> 54, PID |-> 100]
InputBlock == <<22, 55, 62, 69, 76>>
Inputs     == {InputBlock[i] : i \in 1 .. 5}

\* CFGID_BUILD, for fields below 16, and CFGID_blkId
Address(block, offset) == ((16 * block) % 4096) + offset
BlockOf(a) == (a \div 16) % 256

Fields(block, fields) == {Address(block, f) : f \in fields}

-----------------------------------------------------------------------------
(***************************************************************************)
(* The blocks of an input, from block b on.                                *)
(***************************************************************************)
Levels == 1 .. 13

FOVTYPE(b)  == Address(b, 5)
FOVCLASS(b) == Address(b + 1, 0)
CURBORE(b)  == Address(b + 5, 14)
AIMLV(b)    == Address(b + 6, 0)

FOVX(b, n) == IF n <= 7 THEN Address(b + 1, 2 * n) ELSE Address(b + 2, 2 * (n - 8))
FOVY(b, n) == FOVX(b, n) + 1

boresightX(b, n) == IF n <= 8 THEN Address(b + 4, 2 * (n - 1))
                              ELSE Address(b + 5, 2 * (n - 9))
boresightY(b, n) == boresightX(b, n) + 1

Feedback(b, n) == Address(b + 3, n + 2)

\* CFGID_INPUT_FIXAIMW, FIXAIMH, SWAIMW and SWAIMH
AimSizes(b) == Fields(b + 6, 2 .. 9)

-----------------------------------------------------------------------------
(***************************************************************************)
(* How a value is written to the profile.                                  *)
(***************************************************************************)
\* CFGID_OSD_CONTENT, CFGID_OSD2_CONTENT: the table has no value, usr_value a
\* text
IsText(a) == \E b \in {Block.OSD, Block.OSD2}, id \in 0 .. 15 :
                a = Address(b + id, 4)

IsIp(a) == a \in {Address(Block.PTZ, 6), Address(Block.OUTPUT, 8)}

\* is_float: the joystick, the stop bits, the tracker's three blocks,
PlatformFloats == Fields(Block.JOS, 1 .. 6) \cup Fields(Block.JOS, 9 .. 12)
                      \cup Fields(Block.PTZ, {4})
TrackerFloats  == UNION {Fields(Block.TRK + k, 0 .. 15) : k \in 0 .. 2}

\* the levels of each input, listed for one input after the other,
OpticsFloats(b) ==
    UNION {{FOVX(b, n), FOVY(b, n), Feedback(b, n), boresightX(b, n),
            boresightY(b, n)} : n \in Levels}
Input1Floats == OpticsFloats(InputBlock[1])
Input2Floats == OpticsFloats(InputBlock[2])
Input3Floats == OpticsFloats(InputBlock[3])
Input4Floats == OpticsFloats(InputBlock[4])
Input5Floats == OpticsFloats(InputBlock[5])

\* and the PID gains.
PidFloats == Fields(Block.PID, 1 .. 8)

is_float(a) ==
    \E list \in {PlatformFloats, TrackerFloats, Input1Floats, Input2Floats,
                 Input3Floats, Input4Floats, Input5Floats, PidFloats} : a \in list

Form(a) == CASE IsText(a)   -> "text"
             [] IsIp(a)     -> "dots"
             [] is_float(a) -> "float"
             [] OTHER       -> "int"

-----------------------------------------------------------------------------
(***************************************************************************)
(* What a command may set.                                                 *)
(***************************************************************************)
Invalid_Config_Value(a, value) ==
    \E b \in Inputs : \/ a \in AimSizes(b) /\ value < 5
                      \/ a = AIMLV(b) /\ value \notin 1 .. 3

\* The tracker's own values and the stored position.
Ignored == Fields(Block.TRK, {1} \cup 3 .. 14)
               \cup Fields(Block.TRK + 1, 0 .. 4 \cup 7 .. 15)
               \cup Fields(Block.TRK + 2, 0 .. 15)
               \cup Fields(Block.PREPOS, 0 .. 2)

IgnoreConfig(a, value) == Invalid_Config_Value(a, value) \/ a \in Ignored

-----------------------------------------------------------------------------
(***************************************************************************)
(* What a setting changes for the input whose blocks begin at base.        *)
(***************************************************************************)
isRelation2fov(base, a) ==
    \/ a \in {FOVTYPE(base), FOVCLASS(base)}
    \/ a \in FOVX(base, 1) .. FOVY(base, 13)
    \/ a \in Feedback(base, 1) .. Feedback(base, 13)

\* Both comparisons of the last line ask for "at least".
isRelation2boresight(base, a) ==
    \/ a \in {FOVTYPE(base), FOVCLASS(base)}
    \/ a \in boresightX(base, 1) .. boresightY(base, 13)
    \/ a >= Feedback(base, 1) /\ a >= Feedback(base, 13)

\* CEventManager::getBaseAddress, and CSensorComp's, which takes another input
\* when the channel is none.
BaseAddress(ch)       == IF ch \in 0 .. 4 THEN InputBlock[ch + 1] ELSE InputBlock[4]
SensorBaseAddress(ch) == IF ch \in 0 .. 4 THEN InputBlock[ch + 1] ELSE InputBlock[2]
=============================================================================
