------------------------------ MODULE MCMotion ------------------------------
(***************************************************************************)
(* An instance of Motion for TLC; what is not here the .cfg file gives.    *)
(***************************************************************************)
EXTENDS Motion

\* Optics: a continuous and a switched input, with tables of thirteen levels; of
\* every kind of setting one is varied.
b1 == InputBlock[1]
b2 == InputBlock[2]

\* Field o of an input: fields of view fall and positions rise from level to level.
ValueOf(b, o) == CASE o = 5         -> IF b = b1 THEN 2 ELSE 1
                   [] o = 16        -> 1
                   [] o \in 18 .. 47 -> 300 - 2 * o
                   [] o \in 51 .. 63 -> 10 * (o - 50)
                   [] OTHER         -> o + b
MCGiven == [a \in Address(b1, 0) .. Address(b2 + 7, 0) |->
    IF a < Address(b2, 0) THEN ValueOf(b1, a - Address(b1, 0))
                          ELSE ValueOf(b2, a - Address(b2, 0))]

MCVaried == {FOVTYPE(b1), FOVCLASS(b1), FOVX(b1, 10), FOVX(b2, 2),
             Feedback(b1, 2), boresightX(b2, 2)}
MCChoices == [a \in MCVaried |->
    CASE a = FOVTYPE(b1) -> {0, 1, 3} [] a = FOVCLASS(b1) -> {5} [] OTHER -> {15}]

\* A stick whose settings are in order, and one whose are not; an error that the
\* filter takes for none and one that it sums up.
MCJosParams ==
    {[dead |-> 1, cut1 |-> 7, cut2 |-> 9, gain1 |-> 40, gain2 |-> 3],
     [dead |-> 5, cut1 |-> 4, cut2 |-> 3, gain1 |-> 50, gain2 |-> 1]}
MCPidParams == {[Kp |-> 10, Ki |-> 5, Kd |-> 2, K |-> 3]}
MCSticks == {-10, 0, 5}
MCErrors == {-30, 1}
=============================================================================
