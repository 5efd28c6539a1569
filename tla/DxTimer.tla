------------------------------ MODULE DxTimer ------------------------------
(***************************************************************************)
(* DxTimer (src/src/DxTimer/src/DxTimer.cpp): a table of software timers   *)
(* that three kinds of threads read and write with no lock:                *)
(*   - the threads that start, stop and reset timers;                      *)
(*   - the timer loop, which wakes every 10 ms, compares the table with    *)
(*     the clock and sends a message per elapsed cycle (Dx_OnTimer);       *)
(*   - the message thread, which calls the registered callback for each    *)
(*     message.  Both callbacks of the program begin or end by stopping    *)
(*     their own timer, so it writes the table too.                        *)
(* One action is one access to the shared table, so that every order in    *)
(* which two threads can meet in it is explored.  The queue between the    *)
(* timer loop and the message thread is what BoundedFifo promises.         *)
(*                                                                         *)
(* Timers are the identifiers createTimer has handed out and registerTimer *)
(* has attached, which the program does once, before any thread uses them. *)
(***************************************************************************)
EXTENDS Naturals, Sequences, FiniteSets

CONSTANTS Users,            \* threads that call the timer functions
          NumTimers,        \* timers are 0 .. NumTimers - 1
          Periods,          \* cycles that startTimer is called with
          Ops,              \* calls that users make
          QueueLen,         \* OSA_MSGQ_LEN_MAX
          CntMod,           \* where the unsigned counters tmCnt wrap (2^32)
          LastStart,        \* bound: no call is made from here on
          MaxNow            \* bound: the clock stops here

Timers == 0 .. NumTimers - 1
MsgThread == "MSGDRIV_recv"
Callers == Users \cup {MsgThread}

ASSUME TimerAssumption ==
    /\ NumTimers \in Nat \ {0}
    /\ Periods \subseteq Nat \ {0}
    /\ Ops \subseteq {"start", "stop", "reset"}
    /\ QueueLen \in Nat \ {0}
    /\ CntMod \in Nat \ {0}
    /\ MaxNow \in Nat
    /\ LastStart \in 0 .. MaxNow
    /\ MsgThread \notin Users

VARIABLES now,                      \* OSA_getCurTimeInMsec
          tmReg, tmBegen, tmCnt,    \* gDxObj
          nStat,                    \* pTimeArray: "Run" or "Stop"
          pc, tid, nMs,             \* each caller's place and arguments
          loop, i, curTM, loaded,   \* the timer loop's place and locals
          pending                   \* messages to the message thread

\* History: when each timer was last started, with which cycle, and the timers
\* a call has been busy with since the timer loop last read the clock.
VARIABLES asked, cycle, touched

table   == <<tmReg, tmBegen, tmCnt, nStat>>
callers == <<pc, tid, nMs>>
looping == <<loop, i, curTM, loaded>>
history == <<asked, cycle, touched>>
vars == <<now, table, callers, looping, pending, history>>

CallPlaces == {"idle", "start", "setReg", "setBegen", "setCnt", "setRun",
               "stop", "clearReg", "setStop"}

TypeOK ==
    /\ now \in 0 .. MaxNow
    /\ tmReg \in [Timers -> Periods \cup {0}]
    /\ tmBegen \in [Timers -> 0 .. MaxNow]
    /\ tmCnt \in [Timers -> 0 .. CntMod - 1]
    /\ nStat \in [Timers -> {"Run", "Stop"}]
    /\ pc \in [Callers -> CallPlaces]
    /\ tid \in [Callers -> Timers]
    /\ nMs \in [Callers -> Periods \cup {0}]
    /\ loop \in {"sleep", "check", "while", "send", "load", "store"}
    /\ i \in 0 .. NumTimers
    /\ curTM \in 0 .. now
    /\ loaded \in 0 .. CntMod - 1
    /\ pending \in Seq(Timers) /\ Len(pending) <= QueueLen
    /\ asked \in [Timers -> 0 .. MaxNow]
    /\ cycle \in [Timers -> Periods \cup {0}]
    /\ touched \subseteq Timers

Busy(t) == \E c \in Callers : pc[c] # "idle" /\ tid[c] = t

-----------------------------------------------------------------------------
\* Dx_initTimer and the constructor: nothing runs, both threads are ready.
Init ==
    /\ now = 0
    /\ tmReg = [t \in Timers |-> 0]
    /\ tmBegen = [t \in Timers |-> 0]
    /\ tmCnt = [t \in Timers |-> 0]
    /\ nStat = [t \in Timers |-> "Stop"]
    /\ pc = [c \in Callers |-> "idle"]
    /\ tid = [c \in Callers |-> 0]
    /\ nMs = [c \in Callers |-> 0]
    /\ loop = "sleep"
    /\ i = 0
    /\ curTM = 0
    /\ loaded = 0
    /\ pending = <<>>
    /\ asked = [t \in Timers |-> 0]
    /\ cycle = [t \in Timers |-> 0]
    /\ touched = {}

\* Bounds: the clock stops at MaxNow, and at LastStart it waits for the calls in
\* progress, so that the timer started last still has time to elapse.
Clock ==
    /\ now < MaxNow
    /\ now = LastStart => \A c \in Users : pc[c] = "idle"
    /\ now' = now + 1
    /\ UNCHANGED <<table, callers, looping, pending, history>>

-----------------------------------------------------------------------------
(***************************************************************************)
(* The calls.  nMs[c] = 0 in a stop that no start follows, otherwise the   *)
(* stop is the first half of a resetTimer.                                 *)
(***************************************************************************)
Enter(c, place, t, ms) ==
    /\ pc' = [pc EXCEPT ![c] = place]
    /\ tid' = [tid EXCEPT ![c] = t]
    /\ nMs' = [nMs EXCEPT ![c] = ms]
    /\ touched' = touched \cup {t}

Call(u, t, ms) ==
    /\ pc[u] = "idle"
    /\ now < LastStart
    /\ \/ "start" \in Ops /\ Enter(u, "start", t, ms)
       \/ "stop"  \in Ops /\ Enter(u, "stop", t, 0)
       \/ "reset" \in Ops /\ Enter(u, "stop", t, ms)
    /\ UNCHANGED <<now, table, looping, pending, asked, cycle>>

\* A caller's next access; a call that has returned leaves no arguments.
Goto(c, place) ==
    /\ pc' = [pc EXCEPT ![c] = place]
    /\ tid' = IF place = "idle" THEN [tid EXCEPT ![c] = 0] ELSE tid
    /\ nMs' = IF place = "idle" THEN [nMs EXCEPT ![c] = 0] ELSE nMs

\* startTimer refuses a timer whose status is Run.
StartTest(c) ==
    LET t == tid[c] IN
    /\ pc[c] = "start"
    /\ IF nStat[t] = "Run"
       THEN Goto(c, "idle") /\ UNCHANGED <<asked, cycle>>
       ELSE /\ Goto(c, "setReg")
            /\ asked' = [asked EXCEPT ![t] = now]
            /\ cycle' = [cycle EXCEPT ![t] = nMs[c]]
    /\ UNCHANGED <<now, table, looping, pending, touched>>

\* Dx_setTimer: three stores, the cycle first.
SetReg(c) ==
    /\ pc[c] = "setReg"
    /\ tmReg' = [tmReg EXCEPT ![tid[c]] = nMs[c]]
    /\ Goto(c, "setBegen")
    /\ UNCHANGED <<now, tmBegen, tmCnt, nStat, looping, pending, history>>

SetBegen(c) ==
    /\ pc[c] = "setBegen"
    /\ tmBegen' = [tmBegen EXCEPT ![tid[c]] = now]
    /\ Goto(c, "setCnt")
    /\ UNCHANGED <<now, tmReg, tmCnt, nStat, looping, pending, history>>

SetCnt(c) ==
    /\ pc[c] = "setCnt"
    /\ tmCnt' = [tmCnt EXCEPT ![tid[c]] = 0]
    /\ Goto(c, "setRun")
    /\ UNCHANGED <<now, tmReg, tmBegen, nStat, looping, pending, history>>

SetRun(c) ==
    /\ pc[c] = "setRun"
    /\ nStat' = [nStat EXCEPT ![tid[c]] = "Run"]
    /\ Goto(c, "idle")
    /\ UNCHANGED <<now, tmReg, tmBegen, tmCnt, looping, pending, history>>

\* stopTimer does nothing to a timer whose status is not Run.
StopTest(c) ==
    /\ pc[c] = "stop"
    /\ Goto(c, IF nStat[tid[c]] = "Run" THEN "clearReg"
               ELSE IF nMs[c] > 0 THEN "start" ELSE "idle")
    /\ UNCHANGED <<now, table, looping, pending, history>>

ClearReg(c) ==
    /\ pc[c] = "clearReg"
    /\ tmReg' = [tmReg EXCEPT ![tid[c]] = 0]
    /\ Goto(c, "setStop")
    /\ UNCHANGED <<now, tmBegen, tmCnt, nStat, looping, pending, history>>

SetStop(c) ==
    /\ pc[c] = "setStop"
    /\ nStat' = [nStat EXCEPT ![tid[c]] = "Stop"]
    /\ Goto(c, IF nMs[c] > 0 THEN "start" ELSE "idle")
    /\ UNCHANGED <<now, tmReg, tmBegen, tmCnt, looping, pending, history>>

CallStep(c) == \/ StartTest(c) \/ SetReg(c) \/ SetBegen(c) \/ SetCnt(c)
               \/ SetRun(c) \/ StopTest(c) \/ ClearReg(c) \/ SetStop(c)

-----------------------------------------------------------------------------
(***************************************************************************)
(* The timer loop: select, then Dx_OnTimer.                                *)
(***************************************************************************)
OnTimer ==
    /\ loop = "sleep"
    /\ loop' = "check"
    /\ i' = 0
    /\ curTM' = now
    /\ touched' = {t \in Timers : Busy(t)}
    /\ UNCHANGED <<now, table, callers, loaded, pending, asked, cycle>>

NextTimer == i' = i + 1 /\ loop' = "check"

Check ==
    /\ loop = "check"
    /\ \/ i = NumTimers /\ loop' = "sleep" /\ i' = 0
       \/ i < NumTimers /\ tmReg[i] = 0 /\ NextTimer
       \/ i < NumTimers /\ tmReg[i] # 0 /\ loop' = "while" /\ UNCHANGED i
    /\ UNCHANGED <<now, table, callers, curTM, loaded, pending, history>>

\* Mutant: a counter without a width.
Succ_NoWrap(n) == n + 1
\* Unsigned increment.  MaxNow is below CntMod cycles, so only a loop that
\* finds tmReg[t] = 0 in its while condition, which is then always true, wraps.
Succ(n) == (n + 1) % CntMod

\* Mutant: a cycle counts as elapsed one unit early.
Elapsed_OneEarly(t) == curTM + 1 >= tmBegen[t] + Succ(tmCnt[t]) * tmReg[t]
Elapsed(t) == curTM >= tmBegen[t] + Succ(tmCnt[t]) * tmReg[t]

While ==
    /\ loop = "while"
    /\ \/ Elapsed(i)  /\ loop' = "send" /\ UNCHANGED i
       \/ ~Elapsed(i) /\ NextTimer
    /\ UNCHANGED <<now, table, callers, curTM, loaded, pending, history>>

\* MSGDRIV_send waits while the queue is full.
Send ==
    /\ loop = "send"
    /\ Len(pending) < QueueLen
    /\ pending' = Append(pending, i)
    /\ loop' = "load"
    /\ UNCHANGED <<now, table, callers, i, curTM, loaded, history>>

\* tmCnt[i]++ is a load and a store.
Load ==
    /\ loop = "load"
    /\ loaded' = tmCnt[i]
    /\ loop' = "store"
    /\ UNCHANGED <<now, table, callers, i, curTM, pending, history>>

\* Mutant: one cycle per pass is reported, an if in the place of the while.
Store_Once ==
    /\ loop = "store"
    /\ tmCnt' = [tmCnt EXCEPT ![i] = Succ(loaded)]
    /\ loaded' = 0
    /\ NextTimer
    /\ UNCHANGED <<now, tmReg, tmBegen, nStat, callers, curTM, pending,
                   history>>
Store ==
    /\ loop = "store"
    /\ tmCnt' = [tmCnt EXCEPT ![i] = Succ(loaded)]
    /\ loaded' = 0
    /\ loop' = "while"
    /\ UNCHANGED <<now, tmReg, tmBegen, nStat, callers, i, curTM, pending,
                   history>>

TimerLoop == OnTimer \/ Check \/ While \/ Send \/ Load \/ Store

\* MSGDRIV_recv takes a message and calls the callback of its timer, and both
\* callbacks of the program (StateAuto_Mtd, CPTZControl) stop their timer.
Dispatch ==
    /\ pc[MsgThread] = "idle"
    /\ pending # <<>>
    /\ pending' = Tail(pending)
    /\ Enter(MsgThread, "stop", Head(pending), 0)
    /\ UNCHANGED <<now, table, looping, asked, cycle>>

-----------------------------------------------------------------------------
Next == \/ Clock
        \/ \E u \in Users, t \in Timers, ms \in Periods : Call(u, t, ms)
        \/ \E c \in Callers : CallStep(c)
        \/ TimerLoop
        \/ Dispatch

Spec == Init /\ [][Next]_vars

\* Time passes, a call once made goes on, and both threads run.
Fairness == /\ WF_vars(Clock)
            /\ \A c \in Callers : WF_vars(CallStep(c))
            /\ WF_vars(TimerLoop)
            /\ WF_vars(Dispatch)

FairSpec == Spec /\ Fairness

-----------------------------------------------------------------------------
(***************************************************************************)
(* Properties.                                                             *)
(***************************************************************************)

\* Outside of a call, getTimerStat tells the truth: a timer is Run exactly
\* when the timer loop looks at it.
StatusTruthful ==
    \A t \in Timers : ~Busy(t) => (nStat[t] = "Run" <=> tmReg[t] # 0)

\* A pass leaves no elapsed cycle of a timer unreported, however late it comes,
\* unless a call was busy with the timer meanwhile.
CaughtUp ==
    \A t \in Timers \ touched :
        tmReg[t] # 0 /\ (loop = "sleep" \/ t < i) => ~Elapsed(t)

\* A message for a timer is sent no earlier than one cycle after its start.
NotEarly ==
    [][\A t \in Timers : Send /\ t = i => now >= asked[t] + cycle[t]]_vars

\* Without a call on the timer in the same pass no message is early: neither a
\* pass that comes late nor a timer that has been restarted between two passes
\* makes one, as long as the counter is not about to wrap and one user starts
\* timers (two that start one at once may leave the cycle of the one with the
\* beginning of the other).
EarlyOnlyByOverlap ==
    [][\A t \in Timers \ touched :
            Send /\ t = i /\ Succ(tmCnt[t]) # 0
                => now >= asked[t] + cycle[t]]_vars

\* A timer that has been started reaches its callback, which stops it.
FiresEventually ==
    \A t \in Timers : (nStat[t] = "Run") ~> (nStat[t] = "Stop")
=============================================================================
