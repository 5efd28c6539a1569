---------------------------- MODULE DxTimerProofs ----------------------------
(***************************************************************************)
(* Theorems about DxTimer for any number of timers, cycles, callers, queue *)
(* length and width of the counters.                                       *)
(***************************************************************************)
EXTENDS DxTimer, TLAPS

\* The loop's places while it is at a timer.
AtTimer == {"while", "send", "load", "store"}

TInv == TypeOK /\ (loop \in AtTimer => i # NumTimers)

LEMMA TimersExist == 0 \in Timers
BY TimerAssumption DEF Timers

LEMMA TypesHold == Init => TInv
<1> SUFFICES ASSUME Init PROVE TInv
    OBVIOUS
<1> USE TimerAssumption, TimersExist
<1>1. /\ now \in 0 .. MaxNow /\ i \in 0 .. NumTimers
      /\ curTM \in 0 .. now /\ loaded \in 0 .. CntMod - 1
    BY DEF Init
<1>2. /\ tmReg \in [Timers -> Periods \cup {0}]
      /\ tmBegen \in [Timers -> 0 .. MaxNow]
      /\ tmCnt \in [Timers -> 0 .. CntMod - 1]
      /\ nStat \in [Timers -> {"Run", "Stop"}]
    BY DEF Init
<1>3. /\ pc \in [Callers -> CallPlaces] /\ tid \in [Callers -> Timers]
      /\ nMs \in [Callers -> Periods \cup {0}]
    BY DEF Init, CallPlaces
<1>4. pending \in Seq(Timers) /\ Len(pending) <= QueueLen
    BY DEF Init
<1>5. /\ asked \in [Timers -> 0 .. MaxNow]
      /\ cycle \in [Timers -> Periods \cup {0}] /\ touched \subseteq Timers
    BY DEF Init
<1> QED  BY <1>1, <1>2, <1>3, <1>4, <1>5 DEF Init, TInv, TypeOK, AtTimer

LEMMA SuccInRange == ASSUME NEW n \in 0 .. CntMod - 1 PROVE Succ(n) \in 0 .. CntMod - 1
BY TimerAssumption DEF Succ

-----------------------------------------------------------------------------
LEMMA EnterTypes ==
    ASSUME TypeOK, NEW c \in Callers, NEW place \in CallPlaces, NEW t \in Timers,
           NEW ms \in Periods \cup {0}, Enter(c, place, t, ms)
    PROVE  /\ pc' \in [Callers -> CallPlaces] /\ tid' \in [Callers -> Timers]
           /\ nMs' \in [Callers -> Periods \cup {0}] /\ touched' \subseteq Timers
BY DEF TypeOK, Enter

LEMMA GotoTypes ==
    ASSUME TypeOK, NEW c \in Callers, NEW place \in CallPlaces, Goto(c, place)
    PROVE  /\ pc' \in [Callers -> CallPlaces] /\ tid' \in [Callers -> Timers]
           /\ nMs' \in [Callers -> Periods \cup {0}]
BY TimersExist DEF TypeOK, Goto

LEMMA CallTypes ==
    ASSUME TInv, NEW c \in Callers, CallStep(c)
    PROVE  TInv'
<1> USE DEF TInv, TypeOK, CallPlaces
<1> DEFINE t == tid[c]
<1>1. t \in Timers /\ nMs[c] \in Periods \cup {0}
    OBVIOUS
<1>2. CASE StartTest(c)
    BY <1>1, <1>2, GotoTypes DEF StartTest, table, looping
<1>3. CASE SetReg(c)
    BY <1>1, <1>3, GotoTypes DEF SetReg, looping, history
<1>4. CASE SetBegen(c)
    BY <1>1, <1>4, GotoTypes DEF SetBegen, looping, history
<1>5. CASE SetCnt(c)
    <2>1. tmCnt' \in [Timers -> 0 .. CntMod - 1]
        BY <1>1, <1>5, TimerAssumption DEF SetCnt
    <2> QED  BY <1>5, <2>1, GotoTypes DEF SetCnt, looping, history
<1>6. CASE SetRun(c)
    BY <1>1, <1>6, GotoTypes DEF SetRun, looping, history
<1>7. CASE StopTest(c)
    <2> DEFINE place == IF nStat[t] = "Run" THEN "clearReg"
                        ELSE IF nMs[c] > 0 THEN "start" ELSE "idle"
    <2>1. place \in CallPlaces /\ Goto(c, place)
        BY <1>7 DEF StopTest
    <2> HIDE DEF place
    <2> QED  BY <1>7, <2>1, GotoTypes DEF StopTest, table, looping, history
<1>8. CASE ClearReg(c)
    BY <1>1, <1>8, GotoTypes DEF ClearReg, looping, history
<1>9. CASE SetStop(c)
    <2> DEFINE place == IF nMs[c] > 0 THEN "start" ELSE "idle"
    <2>1. place \in CallPlaces /\ Goto(c, place)
        BY <1>9 DEF SetStop
    <2> HIDE DEF place
    <2> QED  BY <1>1, <1>9, <2>1, GotoTypes DEF SetStop, looping, history
<1> QED  BY <1>2, <1>3, <1>4, <1>5, <1>6, <1>7, <1>8, <1>9 DEF CallStep

LEMMA LoopTypes ==
    ASSUME TInv, TimerLoop
    PROVE  TInv'
<1> USE TimerAssumption DEF TInv, TypeOK, AtTimer, NextTimer
<1>1. CASE OnTimer
    BY <1>1 DEF OnTimer, table, callers
<1>2. CASE Check
    BY <1>2 DEF Check, table, callers, history
<1>3. CASE While
    BY <1>3 DEF While, table, callers, history
<1>4. CASE Send
    <2>1. i \in Timers
        BY <1>4 DEF Send, Timers
    <2>2. pending' \in Seq(Timers) /\ Len(pending') <= QueueLen
        BY <1>4, <2>1 DEF Send
    <2> QED  BY <1>4, <2>2 DEF Send, table, callers, history
<1>5. CASE Load
    <2>1. loaded' \in 0 .. CntMod - 1
        BY <1>5 DEF Load, Timers
    <2> QED  BY <1>5, <2>1 DEF Load, table, callers, history
<1>6. CASE Store
    <2>1. tmCnt' \in [Timers -> 0 .. CntMod - 1] /\ loaded' \in 0 .. CntMod - 1
        <3>1. Succ(loaded) \in 0 .. CntMod - 1
            BY SuccInRange
        <3>2. tmCnt' = [tmCnt EXCEPT ![i] = Succ(loaded)] /\ loaded' = 0
            BY <1>6 DEF Store
        <3>3. 0 \in 0 .. CntMod - 1
            OBVIOUS
        <3> HIDE DEF Succ
        <3> QED  BY <3>1, <3>2, <3>3
    <2> QED  BY <1>6, <2>1 DEF Store, callers, history
<1> QED  BY <1>1, <1>2, <1>3, <1>4, <1>5, <1>6 DEF TimerLoop

LEMMA TypesKept == TInv /\ [Next]_vars => TInv'
<1> SUFFICES ASSUME TInv, [Next]_vars PROVE TInv'
    OBVIOUS
<1> USE DEF TInv, TypeOK
<1>1. ASSUME Clock PROVE TInv'
    BY <1>1, TimerAssumption DEF Clock, table, callers, looping, history
<1>2. ASSUME NEW u \in Users, NEW t \in Timers, NEW ms \in Periods, Call(u, t, ms)
      PROVE  TInv'
    <2>1. u \in Callers
        BY DEF Callers
    <2>2. \E place \in CallPlaces, m \in Periods \cup {0} : Enter(u, place, t, m)
        BY <1>2 DEF Call, CallPlaces
    <2> QED  BY <1>2, <2>1, <2>2, EnterTypes DEF Call, table, looping
<1>3. ASSUME Dispatch PROVE TInv'
    <2>1. Head(pending) \in Timers /\ pending' \in Seq(Timers) /\ Len(pending') <= QueueLen
        BY <1>3, TimerAssumption DEF Dispatch
    <2>2. MsgThread \in Callers /\ "stop" \in CallPlaces
        BY DEF Callers, CallPlaces
    <2> QED  BY <1>3, <2>1, <2>2, EnterTypes DEF Dispatch, table, looping
<1>4. ASSUME UNCHANGED vars PROVE TInv'
    BY <1>4 DEF vars, table, callers, looping, history
<1> QED  BY <1>1, <1>2, <1>3, <1>4, CallTypes, LoopTypes DEF Next

-----------------------------------------------------------------------------
(***************************************************************************)
(* Which timers the calls leave alone during a pass.                       *)
(***************************************************************************)
\* The timers that calls are busy with are among those touched.
BusyTouched == \A t \in Timers : Busy(t) => t \in touched

\* A timer that is in use and behind the loop's place has nothing left to report, and
\* the timer at its place is one that is in use, with a cycle elapsed when a message
\* is sent.
Reported ==
    \A t \in Timers \ touched :
        /\ tmReg[t] # 0 /\ (loop = "sleep" \/ t < i) => ~Elapsed(t)
        /\ t = i /\ loop \in AtTimer => tmReg[t] # 0
        /\ t = i /\ loop = "send" => Elapsed(t)

PInv == TInv /\ BusyTouched /\ Reported

LEMMA PassHolds == Init => PInv
<1> SUFFICES ASSUME Init PROVE PInv
    OBVIOUS
<1>1. TInv
    BY TypesHold
<1>2. \A t \in Timers : ~Busy(t) /\ tmReg[t] = 0
    BY DEF Init, Busy
<1> QED  BY <1>1, <1>2 DEF Init, PInv, BusyTouched, Reported, AtTimer

\* A call that goes on stays with its timer, which it has touched.
LEMMA CallInPass ==
    ASSUME PInv, TInv', NEW c \in Callers, CallStep(c)
    PROVE  PInv'
<1>1. /\ pc \in [Callers -> CallPlaces] /\ tid \in [Callers -> Timers]
      /\ tmReg \in [Timers -> Periods \cup {0}]
      /\ tmBegen \in [Timers -> 0 .. MaxNow] /\ tmCnt \in [Timers -> 0 .. CntMod - 1]
    BY DEF PInv, TInv, TypeOK
<1>2. /\ UNCHANGED <<now, loop, i, curTM, loaded, pending, touched>>
      /\ pc[c] # "idle"
      /\ \E place \in CallPlaces : Goto(c, place)
    BY DEF CallStep, StartTest, SetReg, SetBegen, SetCnt, SetRun, StopTest, ClearReg,
           SetStop, looping, history, CallPlaces
<1>3. tid[c] \in touched
    BY <1>1, <1>2 DEF PInv, BusyTouched, Busy
<1>4. \A t \in Timers \ touched :
          tmReg'[t] = tmReg[t] /\ tmBegen'[t] = tmBegen[t] /\ tmCnt'[t] = tmCnt[t]
    BY <1>1, <1>3 DEF CallStep, StartTest, SetReg, SetBegen, SetCnt, SetRun, StopTest,
                      ClearReg, SetStop, table
<1>5. BusyTouched'
    <2>1. ASSUME NEW d \in Callers, pc'[d] # "idle" PROVE pc[d] # "idle" /\ tid'[d] = tid[d]
        BY <1>1, <1>2, <2>1 DEF Goto
    <2> QED  BY <1>2, <2>1 DEF PInv, BusyTouched, Busy
<1>6. Reported'
    <2>1. \A t \in Timers \ touched : Elapsed(t)' <=> Elapsed(t)
        BY <1>2, <1>4 DEF Elapsed
    <2> QED  BY <1>2, <1>4, <2>1 DEF PInv, Reported
<1> QED  BY <1>5, <1>6 DEF PInv

\* A call that begins touches its timer.
LEMMA EnterInPass ==
    ASSUME PInv, TInv', NEW c \in Callers, NEW place \in CallPlaces, NEW t \in Timers,
           NEW ms, Enter(c, place, t, ms), UNCHANGED <<table, looping>>
    PROVE  PInv'
<1>1. pc \in [Callers -> CallPlaces] /\ tid \in [Callers -> Timers]
    BY DEF PInv, TInv, TypeOK
<1>2. BusyTouched'
    BY <1>1 DEF PInv, BusyTouched, Busy, Enter
<1>3. Reported'
    <2>1. touched \subseteq touched' /\ \A u : Elapsed(u)' <=> Elapsed(u)
        BY DEF Enter, Elapsed, table, looping
    <2> QED  BY <2>1 DEF PInv, Reported, table, looping
<1> QED  BY <1>2, <1>3 DEF PInv

LEMMA LoopInPass ==
    ASSUME PInv, TInv', TimerLoop
    PROVE  PInv'
<1>1. /\ BusyTouched /\ Reported
      /\ i \in 0 .. NumTimers /\ NumTimers \in Nat /\ touched \subseteq Timers
      /\ \A t \in Timers : t \in Nat /\ t < NumTimers
      /\ loop \in AtTimer => i \in Timers
    <2>1. TypeOK /\ (loop \in AtTimer => i # NumTimers)
        BY DEF PInv, TInv
    <2>2. i \in 0 .. NumTimers /\ NumTimers \in Nat /\ touched \subseteq Timers
        BY <2>1, TimerAssumption DEF TypeOK
    <2>3. loop \in AtTimer => i \in Timers
        BY <2>1, <2>2 DEF Timers
    <2>4. \A t \in Timers : t \in Nat /\ t < NumTimers
        BY <2>2 DEF Timers
    <2> QED  BY <2>2, <2>3, <2>4 DEF PInv
<1>2. UNCHANGED <<pc, tid>>
    BY DEF TimerLoop, OnTimer, Check, While, Send, Load, Store, callers
<1>3. \A t : Busy(t)' <=> Busy(t)
    BY <1>2 DEF Busy
<1>4. CASE OnTimer
    <2>1. \A t \in Timers : ~(t < i') /\ loop' = "check"
        BY <1>1, <1>4 DEF OnTimer, Timers
    <2>2. Reported'
        BY <2>1 DEF Reported, AtTimer
    <2>3. BusyTouched'
        BY <1>3, <1>4 DEF OnTimer, BusyTouched
    <2> QED  BY <2>2, <2>3 DEF PInv
<1>5. ASSUME Check \/ While \/ Send \/ Load \/ Store PROVE BusyTouched'
    BY <1>1, <1>3, <1>5 DEF Check, While, Send, Load, Store, history, BusyTouched
<1>6. CASE Check \/ While \/ Send \/ Load
    <2>1. UNCHANGED <<tmReg, tmBegen, tmCnt, curTM, touched>>
        BY <1>6 DEF Check, While, Send, Load, table, history
    <2>2. \A t \in Timers \ touched : Elapsed(t)' <=> Elapsed(t)
        BY <2>1 DEF Elapsed
    <2>3. CASE Check
        <3>1. \/ /\ loop' = "sleep" /\ i = NumTimers
              \/ /\ i \in Timers /\ tmReg[i] = 0 /\ i' = i + 1 /\ loop' = "check"
              \/ /\ i \in Timers /\ tmReg[i] # 0 /\ i' = i /\ loop' = "while"
            BY <1>1, <2>3 DEF Check, NextTimer, Timers
        <3>2. \A t \in Timers : t < i + 1 => t < i \/ t = i
            BY <1>1
        <3>3. Reported'
            BY <1>1, <2>1, <2>2, <3>1, <3>2 DEF Reported, AtTimer
        <3> QED  BY <1>5, <1>6, <3>3 DEF PInv
    <2>4. CASE While
        <3>1. \/ /\ loop = "while" /\ Elapsed(i) /\ i' = i /\ loop' = "send"
              \/ /\ loop = "while" /\ ~Elapsed(i) /\ i' = i + 1 /\ loop' = "check"
            BY <2>4 DEF While, NextTimer
        <3>2. \A t \in Timers : t < i + 1 => t < i \/ t = i
            BY <1>1
        <3>3. Reported'
            BY <1>1, <2>1, <2>2, <3>1, <3>2 DEF Reported, AtTimer
        <3> QED  BY <1>5, <1>6, <3>3 DEF PInv
    <2>5. CASE Send \/ Load
        <3>1. /\ loop \in {"send", "load"} /\ loop' \in {"load", "store"}
              /\ UNCHANGED i
            BY <2>5 DEF Send, Load
        <3>3. Reported'
            BY <1>1, <2>1, <2>2, <3>1 DEF Reported, AtTimer
        <3> QED  BY <1>5, <1>6, <3>3 DEF PInv
    <2> QED  BY <1>5, <1>6, <2>3, <2>4, <2>5 DEF PInv
<1>7. CASE Store
    <2>1. /\ i \in Timers /\ loop = "store" /\ loop' = "while"
          /\ UNCHANGED <<i, curTM, touched, tmReg, tmBegen>>
          /\ \A t \in Timers \ {i} : tmCnt'[t] = tmCnt[t]
        BY <1>1, <1>7 DEF Store, history, AtTimer, PInv, TInv, TypeOK
    <2>2. \A t \in Timers \ {i} : Elapsed(t)' <=> Elapsed(t)
        BY <2>1 DEF Elapsed
    <2>3. ~(i < i)
        BY <1>1
    <2> QED  BY <1>1, <1>5, <1>7, <2>1, <2>2, <2>3 DEF Reported, AtTimer, PInv
<1> QED  BY <1>4, <1>6, <1>7 DEF TimerLoop

LEMMA PassKept == PInv /\ [Next]_vars => PInv'
<1> SUFFICES ASSUME PInv, [Next]_vars PROVE PInv'
    OBVIOUS
<1>1. TInv'
    BY TypesKept DEF PInv
<1>2. ASSUME UNCHANGED <<table, callers, looping, touched>> PROVE PInv'
    <2>1. \A t : (Busy(t)' <=> Busy(t)) /\ (Elapsed(t)' <=> Elapsed(t))
        BY <1>2 DEF Busy, Elapsed, table, callers, looping
    <2> QED  BY <1>1, <1>2, <2>1 DEF PInv, BusyTouched, Reported, table, looping
<1>3. ASSUME NEW u \in Users, NEW t \in Timers, NEW ms \in Periods, Call(u, t, ms)
      PROVE  PInv'
    <2>1. \E place \in CallPlaces : \E m : Enter(u, place, t, m)
        BY <1>3 DEF Call, CallPlaces
    <2> QED  BY <1>1, <1>3, <2>1, EnterInPass DEF Call, Callers
<1>4. ASSUME Dispatch PROVE PInv'
    <2>1. Head(pending) \in Timers
        BY <1>4 DEF Dispatch, PInv, TInv, TypeOK
    <2> QED  BY <1>1, <1>4, <2>1, EnterInPass DEF Dispatch, Callers, CallPlaces
<1> QED  BY <1>1, <1>2, <1>3, <1>4, CallInPass, LoopInPass DEF Next, Clock, vars, history

LEMMA SpecPass == Spec => []PInv
BY PassHolds, PassKept, PTL DEF Spec

-----------------------------------------------------------------------------
\* The types of gDxObj, of the callers and of the loop: the loop never looks at a
\* timer beyond the last, and the queue never holds more than its length.
THEOREM TypeCorrect == Spec => []TypeOK
<1>1. PInv => TypeOK
    BY DEF PInv, TInv
<1> QED  BY <1>1, SpecPass, PTL

\* A pass of Dx_OnTimer leaves no elapsed cycle of a timer unreported, however late it
\* comes, unless a call was busy with the timer meanwhile.
THEOREM PassCatchesUp == Spec => []CaughtUp
<1>1. PInv => CaughtUp
    BY DEF PInv, Reported, CaughtUp
<1> QED  BY <1>1, SpecPass, PTL

-----------------------------------------------------------------------------
(***************************************************************************)
(* Messages are not early, as long as one thread starts timers; the        *)
(* message thread stops them meanwhile.                                    *)
(***************************************************************************)
Starting == {"setReg", "setBegen", "setCnt", "setRun"}
OneStarter == \A u, v \in Users : u = v

\* A call of the message thread is a stop that no start follows.
OnlyStops == /\ pc[MsgThread] \notin Starting \cup {"start"}
             /\ nMs[MsgThread] = 0

\* What is in the table is of the last start, except where that start is not yet.
OfLastStart ==
    /\ \A t \in Timers :
          /\ asked[t] <= now
          /\ (\A c \in Callers : ~(pc[c] = "setReg" /\ tid[c] = t))
                => tmReg[t] \in {0, cycle[t]}
          /\ (\A c \in Callers : ~(pc[c] \in {"setReg", "setBegen"} /\ tid[c] = t))
                => tmBegen[t] >= asked[t]
    /\ \A c \in Callers : pc[c] = "setReg" => cycle[tid[c]] = nMs[c]

EInv == PInv /\ OnlyStops /\ OfLastStart

LEMMA StartHolds == Init => EInv
<1> SUFFICES ASSUME Init PROVE EInv
    OBVIOUS
<1>1. MsgThread \in Callers
    BY DEF Callers
<1>2. OnlyStops
    BY <1>1 DEF Init, OnlyStops, Starting
<1>3. OfLastStart
    BY DEF Init, OfLastStart
<1> QED  BY <1>2, <1>3, PassHolds DEF EInv

\* A call that begins, or a step of one that leaves the cycle and the beginning.
LEMMA OutsideStart ==
    ASSUME EInv, PInv', NEW c \in Callers, NEW place \in CallPlaces \ {"setReg", "setBegen"},
           pc' = [pc EXCEPT ![c] = place],
           \A d \in Callers \ {c} : tid'[d] = tid[d] /\ nMs'[d] = nMs[d],
           c = MsgThread => place \notin Starting \cup {"start"} /\ nMs'[c] = 0,
           pc[c] \notin {"setReg", "setBegen"},
           \A t \in Timers : tmReg'[t] \in {0, tmReg[t]},
           UNCHANGED <<now, tmBegen, asked, cycle>>
    PROVE  EInv'
<1>1. /\ pc \in [Callers -> CallPlaces] /\ tid \in [Callers -> Timers]
      /\ MsgThread \in Callers
    BY DEF EInv, PInv, TInv, TypeOK, Callers
<1>2. /\ pc'[c] = place
      /\ \A d \in Callers \ {c} : pc'[d] = pc[d]
    BY <1>1
<1>3. OnlyStops'
    BY <1>1, <1>2 DEF EInv, OnlyStops
<1>4. \A d \in Callers : pc'[d] \in {"setReg", "setBegen"} <=> pc[d] \in {"setReg", "setBegen"}
    BY <1>2
<1>5. OfLastStart'
    <2>1. \A d \in Callers : pc[d] \in {"setReg", "setBegen"} =>
              pc'[d] = pc[d] /\ tid'[d] = tid[d] /\ nMs'[d] = nMs[d]
        BY <1>2, <1>4
    <2>2. \A d \in Callers : pc'[d] \in {"setReg", "setBegen"} =>
              pc'[d] = pc[d] /\ tid'[d] = tid[d] /\ nMs'[d] = nMs[d]
        BY <1>2, <1>4
    <2> QED  BY <2>1, <2>2 DEF EInv, OfLastStart
<1> QED  BY <1>3, <1>5 DEF EInv

LEMMA CallInStart ==
    ASSUME OneStarter, EInv, PInv', NEW c \in Callers, CallStep(c)
    PROVE  EInv'
<1> DEFINE t == tid[c]
<1>1. /\ pc \in [Callers -> CallPlaces] /\ tid \in [Callers -> Timers]
      /\ nMs \in [Callers -> Periods \cup {0}]
      /\ tmReg \in [Timers -> Periods \cup {0}]
      /\ tmBegen \in [Timers -> 0 .. MaxNow] /\ asked \in [Timers -> 0 .. MaxNow]
      /\ cycle \in [Timers -> Periods \cup {0}]
      /\ now \in 0 .. MaxNow /\ MsgThread \in Callers
    BY DEF EInv, PInv, TInv, TypeOK, Callers
<1>10. now \in Nat /\ t \in Timers
    BY <1>1, TimerAssumption
<1>2. OnlyStops /\ OfLastStart
    BY DEF EInv
<1>3. ASSUME NEW d \in Callers, pc[d] \in Starting, pc[c] \in Starting \cup {"start"}
      PROVE  d = c
    <2>1. c # MsgThread /\ d # MsgThread
        BY <1>2, <1>3 DEF OnlyStops
    <2>2. c \in Users /\ d \in Users
        BY <2>1 DEF Callers
    <2> QED  BY <2>2 DEF OneStarter
<1>4. ASSUME NEW place \in CallPlaces, Goto(c, place)
      PROVE  /\ pc' = [pc EXCEPT ![c] = place]
             /\ \A d \in Callers \ {c} : pc'[d] = pc[d] /\ tid'[d] = tid[d] /\ nMs'[d] = nMs[d]
             /\ pc'[c] = place
             /\ place # "idle" => tid'[c] = t /\ nMs'[c] = nMs[c]
             /\ nMs[c] = 0 => nMs'[c] = 0
    BY <1>1, <1>10, <1>4 DEF Goto
<1>5. CASE StopTest(c) \/ ClearReg(c) \/ SetStop(c)
    <2>1. /\ pc[c] \in {"stop", "clearReg", "setStop"}
          /\ UNCHANGED <<now, tmBegen, asked, cycle>>
          /\ \A u \in Timers : tmReg'[u] \in {0, tmReg[u]}
        BY <1>1, <1>10, <1>5 DEF StopTest, ClearReg, SetStop, table, history
    <2>2. PICK place \in CallPlaces \ Starting :
              Goto(c, place) /\ (nMs[c] = 0 => place # "start")
        BY <1>1, <1>10, <1>5, TimerAssumption DEF StopTest, ClearReg, SetStop, CallPlaces, Starting
    <2>3. pc' = [pc EXCEPT ![c] = place] /\ (nMs[c] = 0 => nMs'[c] = 0)
          /\ \A d \in Callers \ {c} : tid'[d] = tid[d] /\ nMs'[d] = nMs[d]
        BY <1>4, <2>2
    <2>4. c = MsgThread => place \notin Starting \cup {"start"} /\ nMs'[c] = 0
        BY <1>2, <2>2, <2>3 DEF OnlyStops
    <2>5. place \in CallPlaces \ {"setReg", "setBegen"}
          /\ pc[c] \notin {"setReg", "setBegen"}
        BY <2>1, <2>2 DEF Starting
    <2> QED  BY <2>1, <2>3, <2>4, <2>5, OutsideStart
<1>6. CASE SetCnt(c) \/ SetRun(c)
    <2>1. /\ pc[c] \in {"setCnt", "setRun"} /\ c # MsgThread
          /\ UNCHANGED <<now, tmReg, tmBegen, asked, cycle>>
        BY <1>2, <1>6 DEF SetCnt, SetRun, history, OnlyStops, Starting
    <2>2. \E place \in {"setRun", "idle"} : Goto(c, place)
        BY <1>6 DEF SetCnt, SetRun
    <2> QED  BY <1>4, <2>1, <2>2, OutsideStart DEF CallPlaces
<1>7. CASE StartTest(c)
    <2>1. pc[c] = "start" /\ c # MsgThread
        BY <1>2, <1>7 DEF StartTest, OnlyStops
    <2>2. CASE nStat[t] = "Run"
        <3>1. Goto(c, "idle") /\ UNCHANGED <<now, tmReg, tmBegen, asked, cycle>>
            BY <1>7, <2>2 DEF StartTest, table
        <3> QED  BY <1>4, <2>1, <3>1, OutsideStart DEF CallPlaces
    <2>3. CASE nStat[t] # "Run"
        <3>1. /\ Goto(c, "setReg")
              /\ asked' = [asked EXCEPT ![t] = now]
              /\ cycle' = [cycle EXCEPT ![t] = nMs[c]]
              /\ UNCHANGED <<now, tmReg, tmBegen>>
            BY <1>7, <2>3 DEF StartTest, table
        <3>2. /\ pc'[c] = "setReg" /\ tid'[c] = t /\ nMs'[c] = nMs[c]
              /\ \A d \in Callers \ {c} : pc'[d] = pc[d] /\ tid'[d] = tid[d] /\ nMs'[d] = nMs[d]
            BY <1>4, <3>1 DEF CallPlaces
        <3>3. \A d \in Callers : pc[d] \notin Starting
            BY <1>3, <2>1 DEF Starting
        <3>4. \A u \in Timers \ {t} : asked'[u] = asked[u] /\ cycle'[u] = cycle[u]
            BY <1>1, <1>10, <3>1
        <3>5. asked'[t] = now /\ cycle'[t] = nMs[c]
            BY <1>1, <1>10, <3>1
        <3>6. OnlyStops'
            BY <1>1, <1>10, <1>2, <2>1, <3>2 DEF OnlyStops
        <3>7. OfLastStart'
            BY <1>1, <1>10, <1>2, <3>1, <3>2, <3>3, <3>4, <3>5 DEF OfLastStart, Starting
        <3> QED  BY <3>6, <3>7 DEF EInv
    <2> QED  BY <2>2, <2>3
<1>8. CASE SetReg(c)
    <2>1. /\ pc[c] = "setReg" /\ c # MsgThread
          /\ tmReg' = [tmReg EXCEPT ![t] = nMs[c]]
          /\ Goto(c, "setBegen") /\ UNCHANGED <<now, tmBegen, asked, cycle>>
        BY <1>2, <1>8 DEF SetReg, history, OnlyStops, Starting
    <2>2. /\ pc'[c] = "setBegen" /\ tid'[c] = t /\ nMs'[c] = nMs[c]
          /\ \A d \in Callers \ {c} : pc'[d] = pc[d] /\ tid'[d] = tid[d] /\ nMs'[d] = nMs[d]
        BY <1>4, <2>1 DEF CallPlaces
    <2>3. \A d \in Callers \ {c} : pc[d] \notin Starting
        BY <1>3, <2>1 DEF Starting
    <2>4. /\ tmReg'[t] = cycle[t]
          /\ \A u \in Timers \ {t} : tmReg'[u] = tmReg[u]
        BY <1>1, <1>10, <1>2, <2>1 DEF OfLastStart
    <2>5. OnlyStops'
        BY <1>1, <1>10, <1>2, <2>1, <2>2 DEF OnlyStops
    <2>6. OfLastStart'
        BY <1>1, <1>10, <1>2, <2>1, <2>2, <2>3, <2>4 DEF OfLastStart, Starting
    <2> QED  BY <2>5, <2>6 DEF EInv
<1>9. CASE SetBegen(c)
    <2>1. /\ pc[c] = "setBegen" /\ c # MsgThread
          /\ tmBegen' = [tmBegen EXCEPT ![t] = now]
          /\ Goto(c, "setCnt") /\ UNCHANGED <<now, tmReg, asked, cycle>>
        BY <1>2, <1>9 DEF SetBegen, history, OnlyStops, Starting
    <2>2. /\ pc'[c] = "setCnt" /\ tid'[c] = t /\ nMs'[c] = nMs[c]
          /\ \A d \in Callers \ {c} : pc'[d] = pc[d] /\ tid'[d] = tid[d] /\ nMs'[d] = nMs[d]
        BY <1>4, <2>1 DEF CallPlaces
    <2>3. \A d \in Callers \ {c} : pc[d] \notin Starting
        BY <1>3, <2>1 DEF Starting
    <2>4. /\ tmBegen'[t] >= asked[t]
          /\ \A u \in Timers \ {t} : tmBegen'[u] = tmBegen[u]
        BY <1>1, <1>10, <1>2, <2>1 DEF OfLastStart
    <2>5. OnlyStops'
        BY <1>1, <1>10, <1>2, <2>1, <2>2 DEF OnlyStops, Starting
    <2>6. OfLastStart'
        BY <1>1, <1>10, <1>2, <2>1, <2>2, <2>3, <2>4 DEF OfLastStart, Starting
    <2> QED  BY <2>5, <2>6 DEF EInv
<1> QED  BY <1>5, <1>6, <1>7, <1>8, <1>9 DEF CallStep

LEMMA StartKept == OneStarter /\ EInv /\ [Next]_vars => EInv'
<1> SUFFICES ASSUME OneStarter, EInv, [Next]_vars PROVE EInv'
    OBVIOUS
<1>1. PInv'
    BY PassKept DEF EInv
<1>2. OnlyStops /\ OfLastStart
    BY DEF EInv
<1>3. /\ pc \in [Callers -> CallPlaces] /\ tid \in [Callers -> Timers]
      /\ nMs \in [Callers -> Periods \cup {0}] /\ now \in Nat
      /\ asked \in [Timers -> 0 .. MaxNow] /\ MaxNow \in Nat
      /\ MsgThread \in Callers
    BY TimerAssumption DEF EInv, PInv, TInv, TypeOK, Callers
<1>4. ASSUME UNCHANGED <<callers, tmReg, tmBegen, asked, cycle>>, now' \in {now, now + 1}
      PROVE  EInv'
    <2>1. \A t \in Timers : asked[t] \in Nat
        BY <1>3
    <2>2. \A t \in Timers : asked[t] <= now => asked[t] <= now'
        BY <1>3, <1>4, <2>1
    <2> QED  BY <1>1, <1>2, <1>4, <2>2 DEF EInv, OnlyStops, OfLastStart, callers
<1>5. ASSUME NEW c \in Callers, NEW place \in {"start", "stop"}, NEW t \in Timers, NEW ms,
             pc[c] = "idle", Enter(c, place, t, ms),
             c = MsgThread => place = "stop" /\ ms = 0,
             UNCHANGED <<now, table, asked, cycle>>
      PROVE  EInv'
    <2>1. /\ \A d \in Callers \ {c} : tid'[d] = tid[d] /\ nMs'[d] = nMs[d]
          /\ nMs'[c] = ms /\ pc' = [pc EXCEPT ![c] = place]
        BY <1>3, <1>5 DEF Enter
    <2>2. place \in CallPlaces \ {"setReg", "setBegen"} /\ place \notin Starting
        BY DEF CallPlaces, Starting
    <2>3. UNCHANGED <<tmReg, tmBegen>>
        BY <1>5 DEF table
    <2> QED  BY <1>1, <1>5, <2>1, <2>2, <2>3, OutsideStart
<1>6. ASSUME Clock PROVE EInv'
    BY <1>4, <1>6 DEF Clock, table, history
<1>7. ASSUME TimerLoop PROVE EInv'
    BY <1>4, <1>7 DEF TimerLoop, OnTimer, Check, While, Send, Load, Store, table, history
<1>8. ASSUME NEW u \in Users, NEW t \in Timers, NEW ms \in Periods, Call(u, t, ms)
      PROVE  EInv'
    <2>1. u \in Callers /\ u # MsgThread
        BY TimerAssumption DEF Callers
    <2>2. \E place \in {"start", "stop"} : \E m : Enter(u, place, t, m)
        BY <1>8 DEF Call
    <2> QED  BY <1>5, <1>8, <2>1, <2>2 DEF Call
<1>9. ASSUME Dispatch PROVE EInv'
    <2>1. Head(pending) \in Timers
        BY <1>9 DEF Dispatch, EInv, PInv, TInv, TypeOK
    <2> QED  BY <1>3, <1>5, <1>9, <2>1 DEF Dispatch
<1>10. ASSUME UNCHANGED vars PROVE EInv'
    BY <1>4, <1>10 DEF vars, table, history
<1> QED  BY <1>1, <1>6, <1>7, <1>8, <1>9, <1>10, CallInStart DEF Next

LEMMA CyclesAreNumbers == \A ms \in Periods \cup {0} : ms \in Nat
<1>1. Periods \subseteq Nat \ {0}
    BY TimerAssumption
<1> QED  BY <1>1

\* An elapsed cycle is over at least one cycle after the beginning.
LEMMA CycleOver ==
    ASSUME TInv, NEW t \in Timers, Elapsed(t), Succ(tmCnt[t]) # 0
    PROVE  curTM >= tmBegen[t] + tmReg[t]
<1> DEFINE n == Succ(tmCnt[t])
           m == tmReg[t]
<1>1. /\ tmCnt[t] \in 0 .. CntMod - 1 /\ m \in Periods \cup {0} /\ tmBegen[t] \in 0 .. MaxNow
      /\ curTM \in 0 .. now /\ now \in 0 .. MaxNow
    BY DEF TInv, TypeOK
<1>2. n \in 0 .. CntMod - 1 /\ n # 0
    BY <1>1, SuccInRange
<1>3. m \in Nat
    BY <1>1, CyclesAreNumbers
<1>6. n \in Nat /\ n >= 1
    BY <1>2
<1>4. curTM >= tmBegen[t] + n * m
    BY DEF Elapsed
<1>7. curTM \in Nat /\ tmBegen[t] \in Nat
    BY <1>1, TimerAssumption
<1> HIDE DEF n
<1>8. curTM >= tmBegen[t] + m
    <2> HIDE DEF m
    <2>1. n * m >= m /\ n * m \in Nat
        BY <1>3, <1>6
    <2> QED  BY <1>3, <1>4, <1>7, <2>1
<1> QED  BY <1>8

LEMMA SendOnTime ==
    EInv /\ [Next]_vars =>
        [\A t \in Timers \ touched :
            Send /\ t = i /\ Succ(tmCnt[t]) # 0 => now >= asked[t] + cycle[t]]_vars
<1> SUFFICES ASSUME EInv, NEW t \in Timers \ touched, Send, t = i, Succ(tmCnt[t]) # 0
             PROVE  now >= asked[t] + cycle[t]
    OBVIOUS
<1>1. /\ TInv /\ tmReg[t] # 0 /\ Elapsed(t) /\ ~Busy(t)
    BY DEF EInv, PInv, Reported, BusyTouched, Send, AtTimer
<1>6. /\ now \in 0 .. MaxNow /\ curTM \in 0 .. now
      /\ tmBegen[t] \in 0 .. MaxNow /\ asked[t] \in 0 .. MaxNow
      /\ tmReg[t] \in Periods \cup {0} /\ cycle[t] \in Periods \cup {0}
    BY <1>1 DEF TInv, TypeOK
<1>2. /\ now \in Nat /\ curTM \in 0 .. now /\ tmBegen[t] \in Nat /\ asked[t] \in Nat
      /\ tmReg[t] \in Nat /\ cycle[t] \in Nat
    <2>1. tmReg[t] \in Nat /\ cycle[t] \in Nat
        BY <1>6, CyclesAreNumbers
    <2> QED  BY <1>6, <2>1
<1>3. \A c \in Callers : ~(pc[c] \in {"setReg", "setBegen"} /\ tid[c] = t)
    BY <1>1 DEF Busy
<1>4. tmReg[t] = cycle[t] /\ tmBegen[t] >= asked[t]
    BY <1>1, <1>3 DEF EInv, OfLastStart
<1>5. curTM >= tmBegen[t] + tmReg[t]
    BY <1>1, CycleOver
<1> QED  BY <1>2, <1>4, <1>5

\* As long as one thread starts timers, no message is early unless a call was busy with
\* its timer in the same pass: neither a pass that comes late, nor a timer that the
\* callback or that thread has stopped and started between two passes makes one
\* (Dx_OnTimer, Dx_setTimer, stopTimer).
THEOREM OnTimeUnlessOverlapped ==
    ASSUME OneStarter
    PROVE  Spec => EarlyOnlyByOverlap
<1>1. EInv /\ [Next]_vars => EInv'
    BY StartKept
<1> QED  BY <1>1, StartHolds, SendOnTime, PTL DEF Spec, EarlyOnlyByOverlap
=============================================================================
