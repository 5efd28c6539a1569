------------------------------- MODULE Motion -------------------------------
(***************************************************************************)
(* What turns and focuses the camera: the field of view and the boresight  *)
(* (Optics), the platform's filters (Platform), the control of the         *)
(* pan-tilt unit (PtzControl) and its packets (PelcoPackets).  None reads  *)
(* what another writes, so that one specification explores them side by    *)
(* side: each behaviour moves the part that its first state names.         *)
(***************************************************************************)
EXTENDS Optics

CONSTANTS Sticks, Errors, JosParams, PidParams, FrameNum, MaxInputs  \* of Platform,
CONSTANTS Set, Positions, Targets, MaxCalls, MaxLosses, MaxAnswers   \* PtzControl
CONSTANTS Speeds, Values, Queries                                    \* and PelcoPackets

VARIABLE part
VARIABLES jos, pid, filter, virtalInput, demand, bakState, speed, busy, stick,
          queue, trk, pixelErr, receiving, inputs, ignored, torn
VARIABLES wanted, cur, change, num, mover, req, threads, bak, exitQuery, timer,
          got, sync, response, answers, unit, calls, losses, disturbed, ended, late, halted
VARIABLES packet, asked

-----------------------------------------------------------------------------
Plat    == INSTANCE Platform
Unit    == INSTANCE PtzControl WITH job <- threads, Varied <- Set
Packets == INSTANCE PelcoPackets

MotionAssumption == /\ Plat!PlatformAssumption /\ Unit!PtzControlAssumption
                    /\ Packets!PelcoPacketsAssumption
ASSUME MotionAssumption

-----------------------------------------------------------------------------
platformVars == <<jos, pid, filter, virtalInput, demand, bakState, speed, busy, stick,
                  queue, trk, pixelErr, receiving, inputs, ignored, torn>>
unitVars == <<wanted, cur, change, num, mover, req, threads, bak, exitQuery, timer,
              got, sync, response, answers, unit, calls, losses, disturbed, ended, late, halted>>
packetVars == <<packet, asked>>
allVars == <<part, vars, platformVars, unitVars, packetVars>>

\* The variables of the parts that do not move are 0.
NoOptics ==
    /\ settings = 0 /\ mainch = 0 /\ chosen = 0 /\ copy = 0 /\ fov = 0 /\ bore = 0
    /\ zoom = 0 /\ job = 0 /\ refreshed = 0 /\ changes = 0 /\ overlapped = 0
NoPlatform ==
    /\ jos = 0 /\ pid = 0 /\ filter = 0 /\ virtalInput = 0 /\ demand = 0
    /\ bakState = 0 /\ speed = 0 /\ busy = 0 /\ stick = 0 /\ queue = 0 /\ trk = 0
    /\ pixelErr = 0 /\ receiving = 0 /\ inputs = 0 /\ ignored = 0 /\ torn = 0
NoUnit ==
    /\ wanted = 0 /\ cur = 0 /\ change = 0 /\ num = 0 /\ mover = 0 /\ req = 0
    /\ threads = 0 /\ bak = 0 /\ exitQuery = 0 /\ timer = 0 /\ got = 0 /\ sync = 0 /\ response = 0
    /\ answers = 0 /\ unit = 0 /\ calls = 0 /\ losses = 0 /\ disturbed = 0
    /\ ended = 0 /\ late = 0 /\ halted = 0
NoPacket ==
    /\ packet = 0 /\ asked = 0

InitPart ==
    \/ /\ part = "optics" /\ Init
       /\ NoPlatform /\ NoUnit /\ NoPacket
    \/ /\ part = "platform" /\ Plat!Init
       /\ NoOptics /\ NoUnit /\ NoPacket
    \/ /\ part = "ptz" /\ Unit!Init
       /\ NoOptics /\ NoPlatform /\ NoPacket
    \/ /\ part = "packets" /\ Packets!Init
       /\ NoOptics /\ NoPlatform /\ NoUnit

NextOfPart ==
    /\ UNCHANGED part
    /\ \/ /\ part = "optics" /\ Next
          /\ UNCHANGED <<platformVars, unitVars, packetVars>>
       \/ /\ part = "platform" /\ Plat!Next
          /\ UNCHANGED <<vars, unitVars, packetVars>>
       \/ /\ part = "ptz" /\ Unit!Next
          /\ UNCHANGED <<vars, platformVars, packetVars>>
       \/ /\ part = "packets" /\ Packets!Next
          /\ UNCHANGED <<vars, platformVars, unitVars>>

SpecOfParts == InitPart /\ [][NextOfPart]_allVars

-----------------------------------------------------------------------------
\* Each part has its types.
TypesOK ==
    CASE part = "optics"   -> TypeOK
      [] part = "platform" -> Plat!TypeOK
      [] part = "ptz"      -> Unit!TypeOK
      [] part = "packets"  -> Packets!TypeOK

\* Field of view and boresight are what the settings give for the input and the
\* zoom (sensorComp.cpp).
OpticsFollow == part = "optics" => FovFollows /\ BoresightFollows

\* A stick command turns the unit the way the stick points (platformControl.cpp).
FollowsStick == [][part = "platform" => Plat!TurnsWithStick]_platformVars

\* With the stick in the middle and between two tracks the unit stands and the
\* filters hold nothing of the last track (platformControl.cpp, platformFilter.cpp).
StandsWhenCentred == part = "platform" => Plat!StandsWhenCentred /\ Plat!NoOldIntegral

\* The unit moves as the speeds say when nothing changes (PTZ_control.cpp).
UnitFollows == part = "ptz" => Unit!UnitFollows

\* A search for a position has an end, and ends for a reason (PTZ_control.cpp).
WaitsEnd == /\ [](part = "ptz" => Unit!WaitHasEnd)
            /\ [][part = "ptz" => Unit!GoesOn]_unitVars

\* A motion command is taken for a motion (pelcoDformat.cpp, pelcoPformat.cpp).
MotionIsMotion == part = "packets" => Packets!MotionIsMotion
=============================================================================
