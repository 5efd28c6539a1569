----------------------------- MODULE AckChannel -----------------------------
(***************************************************************************)
(* How answers leave the program: the one global ACK_ComParams, which any  *)
(* thread that has something to answer fills in (EventManager.cpp), the    *)
(* thread thread_comsendEvent that packages and sends what it finds there  *)
(* (eventParsing.cpp), and the two semaphores between them:                *)
(*   m_semHndl    "there is an answer", given by every writer;             *)
(*   m_semHndl_s  "the slot is free", taken by the configuration commands  *)
(*                only and given back by the sender when what it has just  *)
(*                sent was the answer to one of them.                      *)
(* Answers to other commands and those of other threads (the IPC thread,   *)
(* answerPos, answerZoom, setZoom, setPlatAngle) take nothing, so they may *)
(* write the slot at any moment.  One action is one access to it.          *)
(***************************************************************************)
EXTENDS Naturals, Sequences, FiniteSets, SequencesExt

CONSTANTS Writers,     \* threads besides the dispatcher that send feedback
          Links,       \* serial port and connections (comtype_t)
          Commands,    \* kinds of command the dispatcher handles
          MaySkip,     \* a handler may return before it answers
          MaxAsked     \* bound: answers asked for in a behaviour

Dispatcher  == "dispatcher"
Threads     == Writers \cup {Dispatcher}
ConfigKinds == {"SetConfig", "GetConfig", "DefaultConfig"}
Kinds       == ConfigKinds \cup {"feedback"}

ASSUME AckAssumption ==
    /\ Dispatcher \notin Writers
    /\ Links # {}
    /\ Commands \subseteq Kinds
    /\ MaySkip \in BOOLEAN
    /\ MaxAsked \in Nat

VARIABLES semHndl, semHndl_s,   \* counts of the semaphores, at most 1
          comtype, cmdid,       \* fields of ACK_ComParams
          queue,                \* set-, get- and defConfigQueue
          value,                \* the fields a feedback fills in
          at, job,              \* each thread's place and what it answers
          sender, frame         \* the sender's place and its repSendBuffer

\* History: how many answers were asked for, the answers signalled and the
\* frames sent, in order; whether a thread began to write the slot while it was
\* in use, whether anything but a configuration command was to be answered,
\* whether a configuration command went unanswered, and whether the
\* sender read element 0 of an empty queue, after which nothing is defined.
VARIABLES asked, signalled, sent, overlapped, fed, skipped, undefined

slot    == <<comtype, cmdid, queue, value>>
sending == <<sender, frame, sent, undefined>>
vars == <<semHndl, semHndl_s, slot, at, job, sending, asked, signalled,
          overlapped, fed, skipped>>

Jobs     == [id : 0 .. MaxAsked, kind : Kinds, link : Links]
AnyLink  == CHOOSE l \in Links : TRUE
NoJob    == [id |-> 0, kind |-> "feedback", link |-> AnyLink]
Writing  == {"setCmdid", "setPayload", "signal"}

TypeOK ==
    /\ semHndl \in 0 .. 1 /\ semHndl_s \in 0 .. 1
    /\ comtype \in Links /\ cmdid \in Kinds
    /\ \A k \in ConfigKinds : queue[k] \in Seq(1 .. MaxAsked)
    /\ value \in 0 .. MaxAsked
    /\ at \in [Threads -> {"idle", "wait_s", "handle"} \cup Writing]
    /\ job \in [Threads -> Jobs]
    /\ sender \in {"wait", "getSendInfo", "package", "send", "recheck"}
    /\ frame \in Jobs
    /\ asked \in 0 .. MaxAsked
    /\ signalled \in Seq(Jobs) /\ sent \in Seq(Jobs)
    /\ {overlapped, fed, skipped, undefined} \subseteq BOOLEAN

Init ==
    /\ semHndl = 0
    /\ semHndl_s = 1
    /\ comtype = AnyLink
    /\ cmdid = "feedback"
    /\ queue = [k \in ConfigKinds |-> <<>>]
    /\ value = 0
    /\ at = [t \in Threads |-> "idle"]
    /\ job = [t \in Threads |-> NoJob]
    /\ sender = "wait"
    /\ frame = NoJob
    /\ asked = 0
    /\ signalled = <<>>
    /\ sent = <<>>
    /\ overlapped = FALSE
    /\ fed = FALSE
    /\ skipped = FALSE
    /\ undefined = FALSE

\* Mutant: a count without a limit.
Up_NoMax(sem) == sem + 1
\* OSA_semSignal on a semaphore created with maxCount 1.
Up(sem) == IF sem < 1 THEN sem + 1 ELSE sem

Move(t, place) == at' = [at EXCEPT ![t] = place]

-----------------------------------------------------------------------------
(***************************************************************************)
(* The writers.                                                            *)
(***************************************************************************)
\* A thread has something to answer: a message handler of the dispatcher or a
\* notification of the image process.
Ask(t, k, l) ==
    /\ at[t] = "idle"
    /\ k \in IF t = Dispatcher THEN Commands ELSE {"feedback"}
    /\ asked < MaxAsked
    /\ asked' = asked + 1
    /\ job' = [job EXCEPT ![t] = [id |-> asked + 1, kind |-> k, link |-> l]]
    /\ fed' = (fed \/ k \notin ConfigKinds)
    /\ Move(t, IF k \in ConfigKinds THEN "wait_s" ELSE "handle")
    /\ UNCHANGED <<semHndl, semHndl_s, slot, sending, signalled, overlapped,
                   skipped>>

\* Mutant: a wait that does not wait.
WaitFree_None(t) ==
    /\ at[t] = "wait_s"
    /\ semHndl_s' = 0
    /\ Move(t, "handle")
    /\ UNCHANGED <<semHndl, slot, job, sending, asked, signalled, overlapped,
                   fed, skipped>>
\* OSA_semWait(&m_semHndl_s, OSA_TIMEOUT_FOREVER)
WaitFree(t) ==
    /\ at[t] = "wait_s"
    /\ semHndl_s > 0
    /\ semHndl_s' = semHndl_s - 1
    /\ Move(t, "handle")
    /\ UNCHANGED <<semHndl, slot, job, sending, asked, signalled, overlapped,
                   fed, skipped>>

\* SetConfig refuses the text of a user OSD with "return 0"; DefaultConfig
\* returns without a word when its profile is missing, short or unreadable.
Skip(t) ==
    /\ MaySkip
    /\ at[t] = "handle"
    /\ job[t].kind \in {"SetConfig", "DefaultConfig"}
    /\ skipped' = TRUE
    /\ Move(t, "idle")
    /\ UNCHANGED <<semHndl, semHndl_s, slot, job, sending, asked, signalled,
                   overlapped, fed>>

InUse(t) == \/ semHndl > 0
            \/ sender # "wait"
            \/ \E u \in Threads \ {t} : at[u] \in Writing

SetComtype(t) ==
    /\ at[t] = "handle"
    /\ comtype' = job[t].link
    /\ overlapped' = (overlapped \/ InUse(t))
    /\ Move(t, "setCmdid")
    /\ UNCHANGED <<semHndl, semHndl_s, cmdid, queue, value, job, sending,
                   asked, signalled, fed, skipped>>

SetCmdid(t) ==
    /\ at[t] = "setCmdid"
    /\ cmdid' = job[t].kind
    /\ Move(t, "setPayload")
    /\ UNCHANGED <<semHndl, semHndl_s, comtype, queue, value, job, sending,
                   asked, signalled, overlapped, fed, skipped>>

\* What thread t pushes or stores by.  SetConfig and GetConfig know what they
\* answer; signalFeedBack, which answers the rest, goes by cmdid, read again.
PayloadKind(t) ==
    IF job[t].kind \in {"SetConfig", "GetConfig"} THEN job[t].kind ELSE cmdid

\* signalFeedBack knows no SetConfig or GetConfig: when it finds that another
\* thread has put one there its answer is lost, signal and all.
Lost(t) == job[t].kind \notin {"SetConfig", "GetConfig"}
           /\ cmdid \in {"SetConfig", "GetConfig"}

SetPayload(t) ==
    LET k == PayloadKind(t) IN
    /\ at[t] = "setPayload"
    /\ queue' = IF k \in ConfigKinds /\ ~Lost(t)
                THEN [queue EXCEPT ![k] = Append(@, job[t].id)] ELSE queue
    /\ value' = IF k = "feedback" THEN job[t].id ELSE value
    /\ job' = IF Lost(t) THEN [job EXCEPT ![t] = NoJob] ELSE job
    /\ Move(t, IF Lost(t) THEN "idle" ELSE "signal")
    /\ UNCHANGED <<semHndl, semHndl_s, comtype, cmdid, sending, asked,
                   signalled, overlapped, fed, skipped>>

\* OSA_semSignal(&m_semHndl)
Signal(t) ==
    /\ at[t] = "signal"
    /\ semHndl' = Up(semHndl)
    /\ signalled' = Append(signalled, job[t])
    /\ job' = [job EXCEPT ![t] = NoJob]
    /\ Move(t, "idle")
    /\ UNCHANGED <<semHndl_s, slot, sending, asked, overlapped, fed, skipped>>

-----------------------------------------------------------------------------
(***************************************************************************)
(* thread_comsendEvent.                                                    *)
(***************************************************************************)
\* Mutant: a wait that gives up goes on as if there were an answer.
SendWait_Timeout ==
    /\ sender = "wait"
    /\ semHndl' = 0
    /\ sender' = "getSendInfo"
    /\ UNCHANGED <<semHndl_s, slot, at, job, frame, sent, undefined, asked,
                   signalled, overlapped, fed, skipped>>
SendWait ==
    /\ sender = "wait"
    /\ semHndl > 0
    /\ semHndl' = semHndl - 1
    /\ sender' = "getSendInfo"
    /\ UNCHANGED <<semHndl_s, slot, at, job, frame, sent, undefined, asked,
                   signalled, overlapped, fed, skipped>>

\* getSendInfo looks at cmdid once and calls the package function for it.
GetSendInfo ==
    /\ sender = "getSendInfo"
    /\ frame' = [frame EXCEPT !.kind = cmdid]
    /\ sender' = "package"
    /\ UNCHANGED <<semHndl, semHndl_s, slot, at, job, sent, undefined, asked,
                   signalled, overlapped, fed, skipped>>

\* Mutant: the answer stays in its queue.
Package_NoErase ==
    LET k == frame.kind IN
    /\ sender = "package"
    /\ IF k \in ConfigKinds
       THEN /\ undefined' = (queue[k] = <<>>)
            /\ frame' = [frame EXCEPT !.id = IF queue[k] = <<>> THEN 0
                                             ELSE Head(queue[k])]
       ELSE /\ frame' = [frame EXCEPT !.id = value]
            /\ UNCHANGED undefined
    /\ sender' = "send"
    /\ UNCHANGED <<semHndl, semHndl_s, slot, at, job, sent, asked,
                   signalled, overlapped, fed, skipped>>
\* package_ACK_*: element 0 of the queue is copied and erased, or the feedback
\* fields are read.
Package ==
    LET k == frame.kind IN
    /\ sender = "package"
    /\ IF k \in ConfigKinds
       THEN /\ undefined' = (queue[k] = <<>>)
            /\ queue' = [queue EXCEPT ![k] = IF @ = <<>> THEN @ ELSE Tail(@)]
            /\ frame' = [frame EXCEPT !.id = IF queue[k] = <<>> THEN 0
                                             ELSE Head(queue[k])]
       ELSE /\ frame' = [frame EXCEPT !.id = value]
            /\ UNCHANGED <<undefined, queue>>
    /\ sender' = "send"
    /\ UNCHANGED <<semHndl, semHndl_s, comtype, cmdid, value, at, job, sent,
                   asked, signalled, overlapped, fed, skipped>>

\* package_ACK_commondata reads comtype last; csend sends there.
Send ==
    /\ sender = "send"
    /\ frame' = [frame EXCEPT !.link = comtype]
    /\ sent' = Append(sent, frame')
    /\ sender' = "recheck"
    /\ UNCHANGED <<semHndl, semHndl_s, slot, at, job, undefined, asked,
                   signalled, overlapped, fed, skipped>>

\* Mutant: a kind of configuration answer is missing from the test.
FreesSlot_NoDefault == cmdid \in {"SetConfig", "GetConfig"}
\* cmdid is read again to decide whether the slot becomes free.
FreesSlot == cmdid \in ConfigKinds

Recheck ==
    /\ sender = "recheck"
    /\ semHndl_s' = IF FreesSlot THEN Up(semHndl_s) ELSE semHndl_s
    /\ frame' = NoJob
    /\ sender' = "wait"
    /\ UNCHANGED <<semHndl, slot, at, job, sent, undefined, asked, signalled,
                   overlapped, fed, skipped>>

-----------------------------------------------------------------------------
WriterStep(t) == \/ WaitFree(t) \/ Skip(t) \/ SetComtype(t) \/ SetCmdid(t)
                 \/ SetPayload(t) \/ Signal(t)

Sender == SendWait \/ GetSendInfo \/ Package \/ Send \/ Recheck

\* All that the bound lets be asked has been answered or skipped.
Finished ==
    /\ asked = MaxAsked
    /\ \A t \in Threads : at[t] = "idle"
    /\ sender = "wait" /\ semHndl = 0
    /\ UNCHANGED vars

Next ==
    \/ /\ ~undefined
       /\ \/ \E t \in Threads, k \in Kinds, l \in Links : Ask(t, k, l)
          \/ \E t \in Threads : WriterStep(t)
          \/ Sender
    \/ Finished

Spec == Init /\ [][Next]_vars

\* Every thread that can take its next step takes it; nobody has to ask.
Fairness == /\ \A t \in Threads : WF_vars(~undefined /\ WriterStep(t))
            /\ WF_vars(~undefined /\ Sender)

FairSpec == Spec /\ Fairness

-----------------------------------------------------------------------------
(***************************************************************************)
(* Properties.                                                             *)
(***************************************************************************)

\* Where the permission to write a configuration answer may be.
Permissions ==
    semHndl_s
    + (IF job[Dispatcher].kind \in ConfigKinds
          /\ at[Dispatcher] \in {"handle"} \cup Writing THEN 1 ELSE 0)
    + (IF cmdid \in ConfigKinds /\ (semHndl > 0 \/ sender # "wait")
       THEN 1 ELSE 0)

\* Among configuration commands the slot has one user at a time: a command that
\* follows at once waits until the sender is done with the answer before it.  The
\* permission is neither lost, which would block the dispatcher for ever at the
\* next configuration command, nor doubled, unless a feedback overlapped with
\* another answer or a command went unanswered.  And the sender reads an empty
\* queue only after an overlap.
SlotGuarded ==
    /\ overlapped => fed
    /\ ~overlapped /\ ~skipped => Permissions = 1
    /\ undefined => overlapped

\* Without an overlap every answer is sent once, in the order of the signals,
\* with its own content and to the link its command came from.
AnsweredInOrder ==
    ~overlapped => /\ IsPrefix(sent, signalled)
                   /\ sender = "wait" /\ semHndl = 0 => sent = signalled

\* Every configuration command that is begun is answered, as long as there are
\* only such commands and none of them is skipped.
EveryCommandAnswered ==
    \A n \in 1 .. MaxAsked :
        (asked = n) ~> \/ fed \/ skipped
                       \/ \E i \in DOMAIN sent : sent[i].id = n
=============================================================================
