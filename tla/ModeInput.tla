----------------------------- MODULE ModeInput -----------------------------
(***************************************************************************)
(* From a key press to a mode.  The joystick thread and the serial and     *)
(* network threads write workmode and capturemode of the one global        *)
(* ComParams and send a message that carries only a pointer to it; the     *)
(* dispatcher reads the fields when it comes to the message                *)
(* (MSG_WorkMode, MSG_CaptureMode), field by field and possibly after      *)
(* other presses, and writes capturemode back itself.  One action is one   *)
(* access to ComParams or one use of the queue, which is what BoundedFifo  *)
(* promises.                                                               *)
(***************************************************************************)
EXTENDS Naturals, Sequences

CONSTANTS Joysticks,    \* threads whose press adds one to a field
          Links,        \* threads whose command stores a value
          QueueLen,     \* OSA_MSGQ_LEN_MAX
          MaxPresses    \* bound: presses and commands in a behaviour

Inputs == Joysticks \cup Links

InputAssumption ==
    /\ Joysticks \cap Links = {}
    /\ QueueLen \in Nat \ {0}
    /\ MaxPresses \in Nat

VARIABLES workmode, capturemode,   \* fields of ComParams
          at,                      \* what each input thread is about to do
          queue,                   \* messages to the dispatcher
          captureModeBack,         \* static of MSG_CaptureMode
          disp, msg,               \* the dispatcher's place and message
          curState,                \* the mode, as StateManger tells it
          workAck,                 \* the last work mode reported
          presses, handled, missed \* history: presses; a message has been
                                   \* handled; one matched no comparison

vars == <<workmode, capturemode, at, queue, captureModeBack, disp, msg,
          curState, workAck, presses, handled, missed>>
dispatching == <<captureModeBack, disp, msg, curState, workAck, handled, missed>>

Fields == {"workMode", "captureMode"}
Idle   == [do |-> "idle", field |-> "workMode", value |-> 0]
Routine == [c \in 0 .. 2 |-> CASE c = 0 -> "PTZ"
                               [] c = 1 -> "BOX"
                               [] c = 2 -> "MANUALMTD"]
RoutineModes == {Routine[c] : c \in 0 .. 2}

TypeOK ==
    /\ workmode \in 0 .. 2
    /\ capturemode \in 0 .. 2
    /\ captureModeBack \in 0 .. 2
    /\ at \in [Inputs -> [do : {"idle", "store", "send"}, field : Fields,
                          value : 0 .. 2]]
    /\ queue \in Seq(Fields) /\ Len(queue) <= QueueLen
    /\ disp \in {"idle", "test", "is0", "is1", "is2", "isAuto", "isScene",
                 "back", "restore", "feedback"}
    /\ msg \in Fields
    /\ curState \in RoutineModes \cup {"AUTOMTD", "SCENETRK", "none"}
    /\ workAck \in 0 .. 3
    /\ presses \in 0 .. MaxPresses
    /\ {handled, missed} \subseteq BOOLEAN

Init ==
    /\ workmode = 0
    /\ capturemode = 0
    /\ at = [t \in Inputs |-> Idle]
    /\ queue = <<>>
    /\ captureModeBack = 0
    /\ disp = "idle"
    /\ msg = "workMode"
    /\ curState = "none"
    /\ workAck = 0
    /\ presses = 0
    /\ handled = FALSE
    /\ missed = FALSE

-----------------------------------------------------------------------------
(***************************************************************************)
(* The input threads.                                                      *)
(***************************************************************************)
ValueOf(field) == IF field = "workMode" THEN workmode ELSE capturemode

\* Mutant: the keys go on counting.
NextMode_NoWrap(v) == v + 1
NextMode(v) == (v + 1) % 3

\* Links ask for the modes the protocol numbers.
Press(t, field) ==
    /\ at[t] = Idle
    /\ presses < MaxPresses
    /\ presses' = presses + 1
    /\ \E v \in IF t \in Joysticks THEN {NextMode(ValueOf(field))} ELSE 0 .. 2 :
          at' = [at EXCEPT ![t] = [do |-> "store", field |-> field, value |-> v]]
    /\ UNCHANGED <<workmode, capturemode, queue, dispatching>>

Store(t) ==
    /\ at[t].do = "store"
    /\ IF at[t].field = "workMode"
       THEN workmode' = at[t].value /\ UNCHANGED capturemode
       ELSE capturemode' = at[t].value /\ UNCHANGED workmode
    /\ at' = [at EXCEPT ![t].do = "send"]
    /\ UNCHANGED <<queue, presses, dispatching>>

\* MSGDRIV_send waits while the queue is full.
Send(t) ==
    /\ at[t].do = "send"
    /\ Len(queue) < QueueLen
    /\ queue' = Append(queue, at[t].field)
    /\ at' = [at EXCEPT ![t] = Idle]
    /\ UNCHANGED <<workmode, capturemode, presses, dispatching>>

-----------------------------------------------------------------------------
(***************************************************************************)
(* The dispatcher.                                                         *)
(***************************************************************************)
Take ==
    /\ disp = "idle"
    /\ queue # <<>>
    /\ msg' = Head(queue)
    /\ queue' = Tail(queue)
    /\ disp' = "test"
    /\ UNCHANGED <<workmode, capturemode, at, captureModeBack, curState,
                   workAck, presses, handled, missed>>

\* workmode == ROUTINE_STATE
Test ==
    /\ disp = "test"
    /\ disp' = IF workmode = 0 THEN "is0"
               ELSE IF msg = "captureMode" THEN "restore" ELSE "isAuto"
    /\ UNCHANGED <<workmode, capturemode, at, queue, captureModeBack, msg,
                   curState, workAck, presses, handled, missed>>

AfterSwitch == IF msg = "captureMode" THEN "back" ELSE "feedback"

\* capturemode is read again for each comparison.
Is(c, place, next) ==
    /\ disp = place
    /\ IF capturemode = c THEN curState' = Routine[c] /\ disp' = AfterSwitch
                          ELSE UNCHANGED curState /\ disp' = next
    /\ missed' = (missed \/ (c = 2 /\ capturemode # c))
    /\ UNCHANGED <<workmode, capturemode, at, queue, captureModeBack, msg,
                   workAck, presses, handled>>

\* Mutant: the last capture mode is left out.
Capture_NoManual == \/ Is(0, "is0", "is1")
                    \/ Is(1, "is1", AfterSwitch)
Capture == \/ Is(0, "is0", "is1")
           \/ Is(1, "is1", "is2")
           \/ Is(2, "is2", AfterSwitch)

\* And so is workmode.
IsWork(m, place, mode, next) ==
    /\ disp = place
    /\ IF workmode = m THEN curState' = mode /\ disp' = "feedback"
                       ELSE UNCHANGED curState /\ disp' = next
    /\ missed' = (missed \/ (m = 2 /\ workmode # m))
    /\ UNCHANGED <<workmode, capturemode, at, queue, captureModeBack, msg,
                   workAck, presses, handled>>

Work == \/ IsWork(1, "isAuto", "AUTOMTD", "isScene")
        \/ IsWork(2, "isScene", "SCENETRK", "feedback")

\* captureModeBack keeps the last capture mode asked for in ROUTINE; in other
\* work modes the press is taken back.
Back ==
    /\ disp = "back"
    /\ captureModeBack' = capturemode
    /\ disp' = "feedback"
    /\ UNCHANGED <<workmode, capturemode, at, queue, msg, curState, workAck,
                   presses, handled, missed>>

Restore ==
    /\ disp = "restore"
    /\ capturemode' = captureModeBack
    /\ disp' = "feedback"
    /\ UNCHANGED <<workmode, at, queue, captureModeBack, msg, curState, workAck,
                   presses, handled, missed>>

\* Mutant: the scene mode is reported as a routine mode.
Reported_NoScene(mode) == CASE mode = "AUTOMTD" -> {2}
                            [] mode = "none"    -> 0 .. 3
                            [] OTHER            -> {1}
\* What MSG_WorkMode answers.  Before the first mode the field is not
\* initialised, since StateLinkManual::curStateInterface returns nothing.
Reported(mode) == CASE mode = "AUTOMTD"  -> {2}
                    [] mode = "SCENETRK" -> {3}
                    [] mode = "none"     -> 0 .. 3
                    [] OTHER             -> {1}

Feedback ==
    /\ disp = "feedback"
    /\ IF msg = "workMode" THEN workAck' \in Reported(curState)
                           ELSE UNCHANGED workAck
    /\ handled' = TRUE
    /\ disp' = "idle"
    /\ msg' = "workMode"
    /\ UNCHANGED <<workmode, capturemode, at, queue, captureModeBack, curState,
                   presses, missed>>

-----------------------------------------------------------------------------
Next ==
    \/ \E t \in Inputs, f \in Fields : Press(t, f)
    \/ \E t \in Inputs : Store(t) \/ Send(t)
    \/ Take \/ Test \/ Capture \/ Work \/ Back \/ Restore \/ Feedback

Spec == Init /\ [][Next]_vars

-----------------------------------------------------------------------------
(***************************************************************************)
(* Properties.                                                             *)
(***************************************************************************)
Quiet == queue = <<>> /\ disp = "idle" /\ \A t \in Inputs : at[t] = Idle

\* When everything has been handled the mode is the one that the fields of
\* ComParams ask for, in whatever order the threads wrote them, messages were
\* read late, presses were taken back and fields changed between two reads.
FollowsInput ==
    Quiet /\ handled =>
        curState = CASE workmode = 1 -> "AUTOMTD"
                     [] workmode = 2 -> "SCENETRK"
                     [] OTHER        -> Routine[capturemode]

\* And the work mode last reported, if any was, is that of the mode, as long as
\* no field changed under the comparisons so that none of them matched: a
\* capture command that is handled later then changes the mode unreported.
WorkAckTrue ==
    Quiet /\ ~missed /\ workAck # 0 =>
        /\ workAck = 2 <=> curState = "AUTOMTD"
        /\ workAck = 3 <=> curState = "SCENETRK"
=============================================================================
