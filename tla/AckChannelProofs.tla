-------------------------- MODULE AckChannelProofs --------------------------
(***************************************************************************)
(* Theorems about AckChannel for any writers, links, commands and number   *)
(* of answers: the permission of the configuration commands is neither     *)
(* lost nor doubled, and answers leave once, in order, unless two threads  *)
(* were in ACK_ComParams at once.                                          *)
(***************************************************************************)
EXTENDS AckChannel, SequenceTheorems, TLAPS

\* What the dispatcher's thread alone does: only it has configuration commands.
Roles ==
    \A t \in Threads :
        /\ at[t] # "idle" => job[t].id # 0
        /\ t # Dispatcher => job[t].kind = "feedback" /\ at[t] # "wait_s"
        /\ at[t] = "wait_s" => job[t].kind \in ConfigKinds

\* TypeOK says nothing of queue but what each kind's is.
Types == TypeOK /\ queue \in [ConfigKinds -> Seq(1 .. MaxAsked)]

TInv == Types /\ Roles

LEMMA LinkExists == AnyLink \in Links
BY AckAssumption DEF AnyLink

LEMMA NoJobIsJob == NoJob \in Jobs
BY LinkExists, AckAssumption DEF NoJob, Jobs, Kinds

LEMMA TypesHold == Init => TInv
<1> SUFFICES ASSUME Init PROVE TInv
    OBVIOUS
<1>1. Types
    <2>1. queue \in [ConfigKinds -> Seq(1 .. MaxAsked)]
        <3>1. <<>> \in Seq(1 .. MaxAsked)
            OBVIOUS
        <3> HIDE DEF ConfigKinds
        <3> QED  BY <3>1 DEF Init
    <2>2. /\ at \in [Threads -> {"idle", "wait_s", "handle"} \cup Writing]
          /\ job \in [Threads -> Jobs] /\ frame \in Jobs
          /\ signalled \in Seq(Jobs) /\ sent \in Seq(Jobs)
        BY NoJobIsJob DEF Init
    <2>3. /\ semHndl \in 0 .. 1 /\ semHndl_s \in 0 .. 1
          /\ comtype \in Links /\ cmdid \in Kinds
          /\ value \in 0 .. MaxAsked /\ asked \in 0 .. MaxAsked
          /\ sender \in {"wait", "getSendInfo", "package", "send", "recheck"}
        BY LinkExists, AckAssumption DEF Init, Kinds
    <2>4. {overlapped, fed, skipped, undefined} \subseteq BOOLEAN
        BY DEF Init
    <2> QED  BY <2>1, <2>2, <2>3, <2>4 DEF Types, TypeOK
<1>2. Roles
    BY AckAssumption DEF Init, Roles, NoJob, Dispatcher
<1> QED  BY <1>1, <1>2 DEF TInv

-----------------------------------------------------------------------------
LEMMA AskTypes ==
    ASSUME TInv, NEW t \in Threads, NEW k \in Kinds, NEW l \in Links, Ask(t, k, l)
    PROVE  TInv'
<1> USE DEF TInv, Types, TypeOK, Ask
<1>1. [id |-> asked + 1, kind |-> k, link |-> l] \in Jobs /\ asked' \in 0 .. MaxAsked
    BY AckAssumption DEF Jobs
<1>2. /\ at' \in [Threads -> {"idle", "wait_s", "handle"} \cup Writing]
      /\ job' \in [Threads -> Jobs]
    BY <1>1 DEF Move
<1>3. Types'
    BY <1>1, <1>2 DEF slot, sending
<1>4. Roles'
    <2>1. /\ k \in ConfigKinds => t = Dispatcher
          /\ k \notin ConfigKinds => k = "feedback"
        BY DEF Kinds, ConfigKinds
    <2>2. asked + 1 # 0
        OBVIOUS
    <2>3. /\ at' = [at EXCEPT ![t] = IF k \in ConfigKinds THEN "wait_s" ELSE "handle"]
          /\ job' = [job EXCEPT ![t] = [id |-> asked + 1, kind |-> k, link |-> l]]
        BY DEF Move
    <2> QED  BY <2>1, <2>2, <2>3 DEF Roles
<1> QED  BY <1>3, <1>4

LEMMA WriterTypes ==
    ASSUME TInv, NEW t \in Threads, WriterStep(t)
    PROVE  TInv'
<1> USE DEF TInv, Types, TypeOK
<1>1. job[t] \in Jobs /\ job[t].id \in 0 .. MaxAsked /\ job[t].kind \in Kinds
      /\ job[t].link \in Links
    BY DEF Jobs
<1>2. ASSUME NEW place \in {"idle", "handle"} \cup Writing, Move(t, place),
             place # "idle" => at[t] # "idle",
             UNCHANGED job \/ (place = "idle" /\ job' = [job EXCEPT ![t] = NoJob])
      PROVE  /\ at' \in [Threads -> {"idle", "wait_s", "handle"} \cup Writing]
             /\ job' \in [Threads -> Jobs]
             /\ Roles'
    <2>1. /\ at' \in [Threads -> {"idle", "wait_s", "handle"} \cup Writing]
          /\ job' \in [Threads -> Jobs]
        BY <1>2, NoJobIsJob DEF Move
    <2>2. NoJob.kind = "feedback"
        BY DEF NoJob
    <2>3. place # "wait_s"
        BY DEF Writing
    <2> QED  BY <1>2, <2>1, <2>2, <2>3 DEF Roles, Move
<1>3. CASE WaitFree(t)
    BY <1>2, <1>3 DEF WaitFree, slot, sending, Writing
<1>4. CASE Skip(t)
    BY <1>2, <1>4 DEF Skip, slot, sending, Writing
<1>5. CASE SetComtype(t)
    BY <1>1, <1>2, <1>5 DEF SetComtype, sending, Writing, InUse
<1>6. CASE SetCmdid(t)
    BY <1>1, <1>2, <1>6 DEF SetCmdid, sending, Writing
<1>7. CASE SetPayload(t)
    <2> DEFINE k == PayloadKind(t)
    <2>1. at[t] = "setPayload" /\ job[t].id \in 1 .. MaxAsked
        BY <1>1, <1>7 DEF SetPayload, Roles
    <2>2. queue' \in [ConfigKinds -> Seq(1 .. MaxAsked)]
        BY <2>1, <1>7 DEF SetPayload
    <2>3. value' \in 0 .. MaxAsked
        BY <1>1, <1>7 DEF SetPayload
    <2>4. /\ at' \in [Threads -> {"idle", "wait_s", "handle"} \cup Writing]
          /\ job' \in [Threads -> Jobs]
          /\ Roles'
        BY <1>2, <1>7, <2>1 DEF SetPayload, Writing
    <2> QED  BY <1>7, <2>2, <2>3, <2>4 DEF SetPayload, sending
<1>8. CASE Signal(t)
    <2>1. semHndl' \in 0 .. 1
        BY <1>8 DEF Signal, Up
    <2>2. signalled' \in Seq(Jobs)
        BY <1>1, <1>8 DEF Signal
    <2>3. /\ at' \in [Threads -> {"idle", "wait_s", "handle"} \cup Writing]
          /\ job' \in [Threads -> Jobs]
          /\ Roles'
        BY <1>2, <1>8 DEF Signal
    <2> QED  BY <1>8, <2>1, <2>2, <2>3 DEF Signal, slot, sending
<1> QED  BY <1>3, <1>4, <1>5, <1>6, <1>7, <1>8 DEF WriterStep

LEMMA SenderTypes ==
    ASSUME TInv, Sender
    PROVE  TInv'
<1> USE DEF TInv, Types, TypeOK
<1>1. Roles'
    BY DEF Sender, SendWait, GetSendInfo, Package, Send, Recheck, slot, Roles
<1>2. CASE SendWait
    BY <1>1, <1>2 DEF SendWait, slot
<1>3. CASE GetSendInfo
    BY <1>1, <1>3 DEF GetSendInfo, slot, Jobs
<1>4. CASE Package
    <2> DEFINE k == frame.kind
    <2>1. /\ frame' \in Jobs
          /\ queue' \in [ConfigKinds -> Seq(1 .. MaxAsked)]
          /\ undefined' \in BOOLEAN
        <3>1. CASE k \in ConfigKinds
            <4>1. queue[k] \in Seq(1 .. MaxAsked)
                BY <3>1
            <4>2. queue[k] # <<>> => Head(queue[k]) \in 1 .. MaxAsked
                                  /\ Tail(queue[k]) \in Seq(1 .. MaxAsked)
                BY ONLY <4>1, HeadTailProperties
            <4>3. queue' = [queue EXCEPT ![k] = IF queue[k] = <<>> THEN queue[k]
                                                ELSE Tail(queue[k])]
                BY <1>4, <3>1 DEF Package
            <4>4. queue' \in [ConfigKinds -> Seq(1 .. MaxAsked)]
                BY <4>1, <4>2, <4>3
            <4>5. frame' = [frame EXCEPT !.id = IF queue[k] = <<>> THEN 0
                                                ELSE Head(queue[k])]
                BY <1>4, <3>1 DEF Package
            <4>6. frame' \in Jobs
                <5>1. ASSUME NEW n \in 0 .. MaxAsked
                      PROVE  [frame EXCEPT !.id = n] \in Jobs
                    BY DEF Jobs
                <5>2. (IF queue[k] = <<>> THEN 0 ELSE Head(queue[k])) \in 0 .. MaxAsked
                    BY <4>2, AckAssumption
                <5> QED  BY ONLY <4>5, <5>1, <5>2
            <4>7. undefined' = (queue[k] = <<>>)
                BY <1>4, <3>1 DEF Package
            <4>8. undefined' \in BOOLEAN
                BY ONLY <4>7
            <4> QED  BY <4>4, <4>6, <4>8
        <3>2. CASE k \notin ConfigKinds
            BY <1>4, <3>2 DEF Package, Jobs
        <3> QED  BY <3>1, <3>2
    <2> QED  BY <1>1, <1>4, <2>1 DEF Package
<1>5. CASE Send
    <2>1. frame' \in Jobs
        BY <1>5 DEF Send, Jobs
    <2>2. sent' \in Seq(Jobs)
        BY <1>5, <2>1 DEF Send
    <2> QED  BY <1>1, <1>5, <2>1, <2>2 DEF Send, slot
<1>6. CASE Recheck
    <2>1. semHndl_s' \in 0 .. 1
        BY <1>6 DEF Recheck, Up
    <2> QED  BY <1>1, <1>6, <2>1, NoJobIsJob DEF Recheck, slot
<1> QED  BY <1>2, <1>3, <1>4, <1>5, <1>6 DEF Sender

LEMMA TypesKept == TInv /\ [Next]_vars => TInv'
<1>1. TInv /\ UNCHANGED vars => TInv'
    BY DEF TInv, Types, TypeOK, Roles, vars, slot, sending
<1> QED  BY <1>1, AskTypes, WriterTypes, SenderTypes DEF Next, Finished

-----------------------------------------------------------------------------
(***************************************************************************)
(* Where the slot and the permission are.                                  *)
(***************************************************************************)
Owns(t) == at[t] \in Writing
Busy    == semHndl > 0 \/ sender # "wait"

\* One user of the slot at a time: a writer, or the answer it has signalled.
OneUser ==
    /\ semHndl > 0 => sender = "wait"
    /\ \A t, u \in Threads : Owns(t) /\ Owns(u) => t = u
    /\ \A t \in Threads :
          Owns(t) => /\ ~Busy
                     /\ comtype = job[t].link
                     /\ at[t] # "setCmdid" => cmdid = job[t].kind

\* What an answer has put into the slot.
Holds(j) ==
    /\ \A k \in ConfigKinds : queue[k] = IF k = j.kind THEN <<j.id>> ELSE <<>>
    /\ j.kind \notin ConfigKinds => value = j.id
Emptied == \A k \in ConfigKinds : queue[k] = <<>>

\* The answer signalled last, until the sender has packaged it.
Latest  == signalled[Len(signalled)]
Pending == semHndl > 0 \/ sender \in {"getSendInfo", "package"}

Contents ==
    /\ \A t \in Threads : at[t] = "signal" => Holds(job[t])
    /\ Pending => Holds(Latest)
    /\ ~Pending /\ (\A t \in Threads : at[t] # "signal") => Emptied
    /\ Busy => /\ signalled # <<>>
               /\ cmdid = Latest.kind /\ comtype = Latest.link
    /\ sender \in {"package", "send"} => frame.kind = cmdid
    /\ sender = "send" => frame.id = Latest.id

\* What has been sent, to the last answer but one or to the last.
InOrder ==
    IF Busy /\ sender # "recheck" THEN signalled = Append(sent, Latest)
                                  ELSE sent = signalled

\* The permission is semHndl_s, or with the dispatcher, or with the sender.
DispatcherHas ==
    at[Dispatcher] \in {"handle"} \cup Writing /\ job[Dispatcher].kind \in ConfigKinds
SenderHas == Busy /\ cmdid \in ConfigKinds
OnePermission ==
    /\ DispatcherHas => semHndl_s = 0 /\ ~SenderHas
    /\ SenderHas => semHndl_s = 0
    /\ ~skipped => semHndl_s = 1 \/ DispatcherHas \/ SenderHas

\* Nothing overlaps unless something else than a configuration command was answered.
ConfigsOnly ==
    ~fed => /\ ~overlapped
            /\ \A t \in Threads \ {Dispatcher} : at[t] = "idle"
            /\ at[Dispatcher] # "idle" => job[Dispatcher].kind \in ConfigKinds
            /\ Busy => cmdid \in ConfigKinds

Clean == OneUser /\ Contents /\ InOrder /\ OnePermission

IInv == /\ TInv
        /\ ~overlapped => Clean
        /\ ConfigsOnly
        /\ undefined => overlapped

-----------------------------------------------------------------------------
LEMMA InvHolds == Init => IInv
<1> SUFFICES ASSUME Init PROVE IInv
    OBVIOUS
<1>1. TInv
    BY TypesHold
<1>2. ~Busy /\ ~Pending
    BY DEF Init, Busy, Pending
<1>3. \A t \in Threads : at[t] = "idle"
    BY DEF Init
<1>4. Emptied
    BY DEF Init, Emptied
<1>5. OneUser
    BY <1>2, <1>3 DEF OneUser, Owns, Writing, Init
<1>6. Contents
    BY <1>2, <1>3, <1>4 DEF Contents, Init
<1>7. InOrder
    BY <1>2 DEF InOrder, Init
<1>8. Dispatcher \in Threads
    BY DEF Threads
<1>9. OnePermission
    BY <1>2, <1>3, <1>8 DEF OnePermission, DispatcherHas, SenderHas, Writing, Init
<1>10. ConfigsOnly
    BY <1>2, <1>3, <1>8 DEF ConfigsOnly, Init
<1> QED  BY <1>1, <1>5, <1>6, <1>7, <1>9, <1>10 DEF IInv, Clean, Init

\* A step of a thread that is not in the slot, and stays out of it.
LEMMA OutsideSlot ==
    ASSUME TInv, OneUser, Contents, InOrder, NEW t \in Threads,
           ~Owns(t), NEW place \in {"idle", "wait_s", "handle"}, Move(t, place),
           \A u \in Threads \ {t} : job'[u] = job[u],
           UNCHANGED <<semHndl, slot, sender, frame, sent, signalled>>
    PROVE  OneUser' /\ Contents' /\ InOrder'
<1>1. at \in [Threads -> {"idle", "wait_s", "handle"} \cup Writing]
    BY DEF TInv, Types, TypeOK
<1>2. /\ at'[t] = place /\ \A u \in Threads \ {t} : at'[u] = at[u]
      /\ ~Owns(t)'
    BY <1>1 DEF Move, Owns, Writing
<1>3. UNCHANGED <<Busy, Pending, Latest, Emptied>>
    BY DEF slot, Busy, Pending, Latest, Emptied
<1>4. OneUser'
    BY <1>2, <1>3 DEF OneUser, Owns, slot
<1>5. Contents'
    <2>1. \A u \in Threads : at'[u] = "signal" => u # t /\ at[u] = "signal"
        BY <1>2 DEF Owns, Writing
    <2>2. \A u \in Threads : at[u] = "signal" => u # t /\ at'[u] = "signal"
        BY <1>2 DEF Owns, Writing
    <2> QED  BY <1>3, <2>1, <2>2 DEF Contents, Holds, slot
<1>6. InOrder'
    BY <1>3 DEF InOrder
<1> QED  BY <1>4, <1>5, <1>6

LEMMA AskKeeps ==
    ASSUME IInv, NEW t \in Threads, NEW k \in Kinds, NEW l \in Links, Ask(t, k, l)
    PROVE  IInv'
<1>1. TInv'
    BY AskTypes DEF IInv
<1>2. /\ at \in [Threads -> {"idle", "wait_s", "handle"} \cup Writing]
      /\ job \in [Threads -> Jobs]
    BY DEF IInv, TInv, Types, TypeOK
<1>3. UNCHANGED <<overlapped, skipped, undefined, semHndl, semHndl_s, slot, sender,
                  frame, sent, signalled>>
    BY DEF Ask, sending
<1>4. UNCHANGED <<Busy, SenderHas>>
    BY <1>3 DEF Busy, SenderHas, slot
<1>5. /\ at[t] = "idle"
      /\ at' = [at EXCEPT ![t] = IF k \in ConfigKinds THEN "wait_s" ELSE "handle"]
      /\ job' = [job EXCEPT ![t] = [id |-> asked + 1, kind |-> k, link |-> l]]
      /\ fed' = (fed \/ k \notin ConfigKinds)
      /\ k \in ConfigKinds => t = Dispatcher
    BY DEF Ask, Move, ConfigKinds
<1>6. ASSUME ~overlapped PROVE Clean'
    <2>1. OneUser' /\ Contents' /\ InOrder'
        <3>1. ~Owns(t) /\ IInv /\ Clean
            BY <1>5, <1>6 DEF Owns, Writing, IInv
        <3>2. PICK place \in {"wait_s", "handle"} : Move(t, place)
            BY <1>5 DEF Move
        <3> QED  BY <1>2, <1>3, <1>5, <3>1, <3>2, OutsideSlot DEF IInv, Clean
    <2>2. DispatcherHas' <=> DispatcherHas
        BY <1>2, <1>5, AckAssumption DEF DispatcherHas, Threads, Writing
    <2>3. OnePermission'
        BY <1>3, <1>4, <1>6, <2>2 DEF IInv, Clean, OnePermission
    <2> QED  BY <2>1, <2>3 DEF Clean
<1>7. ConfigsOnly'
    BY <1>2, <1>3, <1>4, <1>5 DEF IInv, ConfigsOnly, slot
<1> QED  BY <1>1, <1>3, <1>6, <1>7 DEF IInv

LEMMA WaitFreeKeeps ==
    ASSUME IInv, NEW t \in Threads, WaitFree(t)
    PROVE  IInv'
<1>1. TInv'
    BY WriterTypes DEF IInv, WriterStep
<1>2. /\ at \in [Threads -> {"idle", "wait_s", "handle"} \cup Writing]
      /\ semHndl_s \in 0 .. 1
    BY DEF IInv, TInv, Types, TypeOK
<1>3. UNCHANGED <<overlapped, skipped, fed, undefined, semHndl, slot, job, sender,
                  frame, sent, signalled>>
    BY DEF WaitFree, sending
<1>4. UNCHANGED <<Busy, SenderHas>>
    BY <1>3 DEF Busy, SenderHas, slot
<1>5. /\ at[t] = "wait_s" /\ Move(t, "handle")
      /\ at' = [at EXCEPT ![t] = "handle"]
      /\ semHndl_s = 1 /\ semHndl_s' = 0
    BY <1>2 DEF WaitFree, Move
<1>6. t = Dispatcher /\ job[t].kind \in ConfigKinds
    BY <1>5 DEF IInv, TInv, Roles
<1>7. ASSUME ~overlapped PROVE Clean'
    <2>1. OneUser' /\ Contents' /\ InOrder'
        <3>1. ~Owns(t) /\ IInv /\ Clean
            BY <1>5, <1>7 DEF Owns, Writing, IInv
        <3> QED  BY <1>3, <1>5, <3>1, OutsideSlot DEF IInv, Clean
    <2>2. OnePermission
        BY <1>7 DEF IInv, Clean
    <2>3. ~SenderHas
        BY <1>5, <2>2 DEF OnePermission
    <2>4. DispatcherHas'
        BY <1>2, <1>3, <1>5, <1>6 DEF DispatcherHas
    <2>5. OnePermission'
        BY <1>4, <1>5, <2>3, <2>4 DEF OnePermission
    <2> QED  BY <2>1, <2>5 DEF Clean
<1>8. ConfigsOnly'
    BY <1>2, <1>3, <1>4, <1>5, <1>6 DEF IInv, ConfigsOnly, slot
<1> QED  BY <1>1, <1>3, <1>7, <1>8 DEF IInv

\* A command that is skipped keeps the permission for ever.
LEMMA SkipKeeps ==
    ASSUME IInv, NEW t \in Threads, Skip(t)
    PROVE  IInv'
<1>1. TInv'
    BY WriterTypes DEF IInv, WriterStep
<1>2. at \in [Threads -> {"idle", "wait_s", "handle"} \cup Writing]
    BY DEF IInv, TInv, Types, TypeOK
<1>3. UNCHANGED <<overlapped, fed, undefined, semHndl, semHndl_s, slot, job, sender,
                  frame, sent, signalled>>
    BY DEF Skip, sending
<1>4. UNCHANGED <<Busy, SenderHas>>
    BY <1>3 DEF Busy, SenderHas, slot
<1>5. /\ at[t] = "handle" /\ Move(t, "idle")
      /\ at' = [at EXCEPT ![t] = "idle"]
      /\ skipped' = TRUE
    BY DEF Skip, Move
<1>6. ASSUME ~overlapped PROVE Clean'
    <2>1. OneUser' /\ Contents' /\ InOrder'
        <3>1. ~Owns(t) /\ IInv /\ Clean
            BY <1>5, <1>6 DEF Owns, Writing, IInv
        <3> QED  BY <1>3, <1>5, <3>1, OutsideSlot DEF IInv, Clean
    <2>2. DispatcherHas' => DispatcherHas
        BY <1>2, <1>3, <1>5 DEF DispatcherHas, Writing, Threads
    <2>3. OnePermission'
        BY <1>3, <1>4, <1>5, <1>6, <2>2 DEF IInv, Clean, OnePermission
    <2> QED  BY <2>1, <2>3 DEF Clean
<1>7. ConfigsOnly'
    BY <1>2, <1>3, <1>4, <1>5 DEF IInv, ConfigsOnly, slot
<1> QED  BY <1>1, <1>3, <1>6, <1>7 DEF IInv

\* The only step that may overlap.  As long as there are only configuration
\* commands it does not: the dispatcher has the permission, the sender has not.
LEMMA SetComtypeKeeps ==
    ASSUME IInv, NEW t \in Threads, SetComtype(t)
    PROVE  IInv'
<1>1. TInv'
    BY WriterTypes DEF IInv, WriterStep
<1>2. at \in [Threads -> {"idle", "wait_s", "handle"} \cup Writing]
    BY DEF IInv, TInv, Types, TypeOK
<1>3. UNCHANGED <<fed, skipped, undefined, semHndl, semHndl_s, cmdid, queue, value,
                  job, sender, frame, sent, signalled>>
    BY DEF SetComtype, sending
<1>4. UNCHANGED <<Busy, SenderHas>>
    BY <1>3 DEF Busy, SenderHas
<1>5. /\ at[t] = "handle"
      /\ at' = [at EXCEPT ![t] = "setCmdid"]
      /\ comtype' = job[t].link
      /\ overlapped' = (overlapped \/ InUse(t))
    BY DEF SetComtype, Move
<1>6. ASSUME ~overlapped' PROVE Clean'
    <2>1. ~overlapped /\ ~InUse(t) /\ Clean
        BY <1>5, <1>6 DEF IInv
    <2>2. ~Busy /\ \A u \in Threads \ {t} : ~Owns(u)
        BY <2>1 DEF InUse, Busy, Owns, IInv, TInv, Types, TypeOK
    <2>3. \A u \in Threads : Owns(u)' <=> u = t
        BY <1>2, <1>5, <2>2 DEF Owns, Writing
    <2>4. OneUser'
        BY <1>2, <1>3, <1>4, <1>5, <2>1, <2>2, <2>3 DEF Clean, OneUser
    <2>5. Contents'
        <3>1. \A u \in Threads : at'[u] # "signal" /\ at[u] # "signal"
            BY <1>2, <1>5, <2>2 DEF Owns, Writing
        <3>2. UNCHANGED <<Pending, Latest, Emptied>>
            BY <1>3 DEF Pending, Latest, Emptied
        <3>3. ~Pending
            BY <2>2 DEF Busy, Pending
        <3> QED  BY <1>3, <1>4, <2>1, <2>2, <3>1, <3>2, <3>3
                 DEF Clean, Contents, Busy
    <2>6. InOrder'
        BY <1>3, <1>4, <2>1, <2>2 DEF Clean, InOrder
    <2>7. DispatcherHas' <=> DispatcherHas
        BY <1>2, <1>3, <1>5 DEF DispatcherHas, Writing, Threads
    <2>8. OnePermission'
        BY <1>3, <1>4, <2>1, <2>7 DEF Clean, OnePermission
    <2> QED  BY <2>4, <2>5, <2>6, <2>8 DEF Clean
<1>7. ConfigsOnly'
    <2>1. SUFFICES ASSUME ~fed PROVE ConfigsOnly'
        BY <1>3 DEF ConfigsOnly
    <2>2. /\ ~overlapped /\ Clean
          /\ \A u \in Threads \ {Dispatcher} : at[u] = "idle"
          /\ at[Dispatcher] # "idle" => job[Dispatcher].kind \in ConfigKinds
          /\ Busy => cmdid \in ConfigKinds
        BY <2>1 DEF IInv, ConfigsOnly
    <2>3. t = Dispatcher
        BY <1>5, <2>2
    <2>4. DispatcherHas
        BY <1>5, <2>2, <2>3 DEF DispatcherHas
    <2>5. ~Busy
        BY <2>2, <2>4 DEF Clean, OnePermission, SenderHas
    <2>6. ~InUse(t)
        BY <2>2, <2>3, <2>5 DEF InUse, Busy, Writing, IInv, TInv, Types, TypeOK
    <2> QED  BY <1>2, <1>3, <1>4, <1>5, <2>2, <2>3, <2>5, <2>6 DEF ConfigsOnly
<1> QED  BY <1>1, <1>3, <1>5, <1>6, <1>7 DEF IInv

LEMMA SetCmdidKeeps ==
    ASSUME IInv, NEW t \in Threads, SetCmdid(t)
    PROVE  IInv'
<1>1. TInv'
    BY WriterTypes DEF IInv, WriterStep
<1>2. at \in [Threads -> {"idle", "wait_s", "handle"} \cup Writing]
    BY DEF IInv, TInv, Types, TypeOK
<1>3. UNCHANGED <<overlapped, fed, skipped, undefined, semHndl, semHndl_s, comtype,
                  queue, value, job, sender, frame, sent, signalled>>
    BY DEF SetCmdid, sending
<1>4. UNCHANGED Busy
    BY <1>3 DEF Busy
<1>5. /\ at[t] = "setCmdid"
      /\ at' = [at EXCEPT ![t] = "setPayload"]
      /\ cmdid' = job[t].kind
    BY DEF SetCmdid, Move
<1>6. Owns(t) /\ Owns(t)' /\ \A u \in Threads \ {t} : Owns(u)' <=> Owns(u)
    BY <1>2, <1>5 DEF Owns, Writing
<1>7. ASSUME ~overlapped PROVE Clean' /\ ~Busy
    <2>1. Clean
        BY <1>7 DEF IInv
    <2>2. ~Busy /\ \A u \in Threads \ {t} : ~Owns(u)
        BY <1>6, <2>1 DEF Clean, OneUser
    <2>3. OneUser'
        BY <1>2, <1>3, <1>4, <1>5, <1>6, <2>1, <2>2 DEF Clean, OneUser
    <2>4. Contents'
        <3>1. \A u \in Threads : at'[u] # "signal" /\ at[u] # "signal"
            BY <1>2, <1>5, <2>2 DEF Owns, Writing
        <3>2. UNCHANGED <<Pending, Latest, Emptied>>
            BY <1>3 DEF Pending, Latest, Emptied
        <3>3. ~Pending
            BY <2>2 DEF Busy, Pending
        <3> QED  BY <1>3, <1>4, <2>1, <2>2, <3>1, <3>2, <3>3
                 DEF Clean, Contents, Busy
    <2>5. InOrder'
        BY <1>3, <1>4, <2>1, <2>2 DEF Clean, InOrder
    <2>6. DispatcherHas' <=> DispatcherHas
        BY <1>2, <1>3, <1>5 DEF DispatcherHas, Writing, Threads
    <2>7. ~SenderHas /\ ~SenderHas'
        BY <1>4, <2>2 DEF SenderHas
    <2>8. OnePermission'
        BY <1>3, <2>1, <2>6, <2>7 DEF Clean, OnePermission
    <2> QED  BY <2>2, <2>3, <2>4, <2>5, <2>8 DEF Clean
<1>8. ConfigsOnly'
    BY <1>2, <1>3, <1>4, <1>5, <1>7 DEF IInv, ConfigsOnly
<1> QED  BY <1>1, <1>3, <1>7, <1>8 DEF IInv

\* Without an overlap cmdid is still what the thread has stored, and the queues
\* are empty.
LEMMA SetPayloadKeeps ==
    ASSUME IInv, NEW t \in Threads, SetPayload(t)
    PROVE  IInv'
<1>1. TInv'
    BY WriterTypes DEF IInv, WriterStep
<1>2. /\ at \in [Threads -> {"idle", "wait_s", "handle"} \cup Writing]
      /\ job \in [Threads -> Jobs]
      /\ queue \in [ConfigKinds -> Seq(1 .. MaxAsked)]
    BY DEF IInv, TInv, Types, TypeOK
<1>3. UNCHANGED <<overlapped, fed, skipped, undefined, semHndl, semHndl_s, comtype,
                  cmdid, sender, frame, sent, signalled>>
    BY DEF SetPayload, sending
<1>4. UNCHANGED <<Busy, SenderHas>>
    BY <1>3 DEF Busy, SenderHas
<1>5. at[t] = "setPayload" /\ Owns(t) /\ job[t] \in Jobs /\ job[t].kind \in Kinds
    BY <1>2 DEF SetPayload, Owns, Writing, Jobs
<1>6. ASSUME ~overlapped PROVE Clean' /\ UNCHANGED job /\ at' = [at EXCEPT ![t] = "signal"]
    <2>1. Clean /\ cmdid = job[t].kind
        BY <1>5, <1>6 DEF IInv, Clean, OneUser
    <2>2. PayloadKind(t) = job[t].kind /\ ~Lost(t)
        BY <2>1 DEF PayloadKind, Lost
    <2>3. /\ UNCHANGED job
          /\ at' = [at EXCEPT ![t] = "signal"]
          /\ queue' = IF job[t].kind \in ConfigKinds
                      THEN [queue EXCEPT ![job[t].kind] = Append(@, job[t].id)]
                      ELSE queue
          /\ value' = IF job[t].kind = "feedback" THEN job[t].id ELSE value
        BY <2>2 DEF SetPayload, Move
    <2>4. ~Busy /\ ~Pending /\ \A u \in Threads \ {t} : ~Owns(u)
        BY <1>5, <2>1 DEF Clean, OneUser, Busy, Pending
    <2>5. \A u \in Threads : /\ Owns(u)' <=> u = t
                             /\ at'[u] = "signal" <=> u = t
        BY <1>2, <2>3, <2>4 DEF Owns, Writing
    <2>6. OneUser'
        BY <1>3, <1>4, <1>5, <2>1, <2>3, <2>4, <2>5 DEF Clean, OneUser
    <2>7. Emptied
        <3>1. \A u \in Threads : at[u] # "signal"
            BY <1>5, <2>4 DEF Owns, Writing
        <3> QED  BY <2>1, <2>4, <3>1 DEF Clean, Contents
    <2>8. Holds(job[t])'
        <3>1. job[t].kind \notin ConfigKinds => job[t].kind = "feedback"
            BY <1>5 DEF Kinds
        <3>2. Append(<<>>, job[t].id) = <<job[t].id>>
            OBVIOUS
        <3>3. ASSUME NEW k \in ConfigKinds
              PROVE  queue'[k] = IF k = job[t].kind THEN <<job[t].id>> ELSE <<>>
            BY <1>2, <2>3, <2>7, <3>2 DEF Emptied
        <3> QED  BY <2>3, <3>1, <3>3 DEF Holds
    <2>9. Contents'
        <3>1. UNCHANGED <<Pending, Latest>>
            BY <1>3 DEF Pending, Latest
        <3>2. sender = "wait"
            BY <2>4 DEF Busy
        <3> QED  BY <1>3, <1>4, <2>3, <2>4, <2>5, <2>8, <3>1, <3>2 DEF Contents
    <2>10. InOrder'
        BY <1>3, <1>4, <2>1, <2>4 DEF Clean, InOrder
    <2>11. DispatcherHas' <=> DispatcherHas
        BY <1>2, <1>5, <2>3 DEF DispatcherHas, Owns, Writing, Threads
    <2>12. OnePermission'
        BY <1>3, <1>4, <2>1, <2>11 DEF Clean, OnePermission
    <2> QED  BY <2>3, <2>6, <2>9, <2>10, <2>12 DEF Clean
<1>7. ConfigsOnly'
    BY <1>2, <1>3, <1>4, <1>5, <1>6 DEF IInv, ConfigsOnly
<1> QED  BY <1>1, <1>3, <1>6, <1>7 DEF IInv

LEMMA SignalKeeps ==
    ASSUME IInv, NEW t \in Threads, Signal(t)
    PROVE  IInv'
<1>1. TInv'
    BY WriterTypes DEF IInv, WriterStep
<1>2. /\ at \in [Threads -> {"idle", "wait_s", "handle"} \cup Writing]
      /\ job \in [Threads -> Jobs] /\ signalled \in Seq(Jobs)
      /\ semHndl \in 0 .. 1
    BY DEF IInv, TInv, Types, TypeOK
<1>3. UNCHANGED <<overlapped, fed, skipped, undefined, semHndl_s, slot, sender, frame,
                  sent>>
    BY DEF Signal, sending
<1>4. /\ at[t] = "signal" /\ Owns(t)
      /\ at' = [at EXCEPT ![t] = "idle"]
      /\ job' = [job EXCEPT ![t] = NoJob]
      /\ semHndl' = 1
      /\ signalled' = Append(signalled, job[t])
    BY <1>2 DEF Signal, Move, Owns, Writing, Up
<1>5. signalled' # <<>> /\ Latest' = job[t]
    BY <1>2, <1>4 DEF Latest
<1>6. Busy' /\ Pending'
    BY <1>4 DEF Busy, Pending
<1>7. ASSUME ~overlapped PROVE Clean' /\ cmdid = job[t].kind
    <2>1. /\ Clean /\ ~Busy
          /\ cmdid = job[t].kind /\ comtype = job[t].link
          /\ Holds(job[t])
        BY <1>4, <1>7 DEF IInv, Clean, OneUser, Contents
    <2>2. sender = "wait" /\ \A u \in Threads \ {t} : ~Owns(u)
        BY <1>4, <2>1 DEF Clean, OneUser, Busy
    <2>3. \A u \in Threads : ~Owns(u)' /\ at'[u] # "signal"
        BY <1>2, <1>4, <2>2 DEF Owns, Writing
    <2>4. OneUser'
        BY <1>3, <2>2, <2>3 DEF OneUser
    <2>5. Contents'
        <3>1. Holds(Latest)'
            BY <1>3, <1>5, <2>1 DEF Holds, slot
        <3> QED  BY <1>3, <1>5, <1>6, <2>1, <2>2, <2>3, <3>1 DEF Contents, slot
    <2>6. InOrder'
        BY <1>3, <1>4, <1>5, <1>6, <2>1, <2>2 DEF Clean, InOrder
    <2>7. SenderHas' <=> job[t].kind \in ConfigKinds
        BY <1>3, <1>6, <2>1 DEF SenderHas, slot
    <2>8. ~SenderHas
        BY <2>1 DEF SenderHas
    <2>9. CASE t = Dispatcher
        <3>1. ~DispatcherHas'
            BY <1>2, <1>4, <2>9 DEF DispatcherHas, Writing
        <3>2. DispatcherHas <=> SenderHas'
            BY <1>4, <2>7, <2>9 DEF DispatcherHas, Writing
        <3> QED  BY <1>3, <2>1, <2>4, <2>5, <2>6, <2>8, <3>1, <3>2
                 DEF Clean, OnePermission
    <2>10. CASE t # Dispatcher
        <3>1. job[t].kind = "feedback"
            BY <2>10 DEF IInv, TInv, Roles
        <3>2. ~SenderHas'
            BY <2>7, <3>1 DEF ConfigKinds
        <3>3. DispatcherHas' <=> DispatcherHas
            BY <1>2, <1>4, <2>10 DEF DispatcherHas, Threads
        <3> QED  BY <1>3, <2>1, <2>4, <2>5, <2>6, <2>8, <3>2, <3>3
                 DEF Clean, OnePermission
    <2> QED  BY <2>1, <2>9, <2>10
<1>8. ConfigsOnly'
    BY <1>2, <1>3, <1>4, <1>7 DEF IInv, ConfigsOnly, slot
<1> QED  BY <1>1, <1>3, <1>7, <1>8 DEF IInv

-----------------------------------------------------------------------------
\* The steps of the sender leave the writers where they are.
WritersStay == UNCHANGED <<at, job, signalled, overlapped, fed, skipped, comtype, cmdid,
                           value>>

LEMMA SendWaitKeeps ==
    ASSUME IInv, SendWait
    PROVE  IInv'
<1>1. TInv'
    BY SenderTypes DEF IInv, Sender
<1>2. /\ WritersStay /\ UNCHANGED <<semHndl_s, queue, frame, sent, undefined>>
      /\ Busy /\ Busy' /\ Pending /\ Pending'
      /\ sender = "wait" /\ sender' = "getSendInfo" /\ semHndl' = 0
    BY DEF SendWait, slot, WritersStay, Busy, Pending, IInv, TInv, Types, TypeOK
<1> USE DEF WritersStay
<1>3. UNCHANGED <<SenderHas, DispatcherHas, Latest>>
    BY <1>2 DEF SenderHas, DispatcherHas, Latest
<1>4. ASSUME ~overlapped PROVE Clean'
    <2>1. Clean
        BY <1>4 DEF IInv
    <2>2. OneUser'
        BY <1>2, <2>1 DEF Clean, OneUser, Owns
    <2>3. Contents'
        BY <1>2, <1>3, <2>1 DEF Clean, Contents, Holds, Emptied
    <2>4. InOrder' /\ OnePermission'
        BY <1>2, <1>3, <2>1 DEF Clean, InOrder, OnePermission
    <2> QED  BY <2>2, <2>3, <2>4 DEF Clean
<1>5. ConfigsOnly'
    BY <1>2 DEF IInv, ConfigsOnly
<1> QED  BY <1>1, <1>2, <1>4, <1>5 DEF IInv

LEMMA GetSendInfoKeeps ==
    ASSUME IInv, GetSendInfo
    PROVE  IInv'
<1>1. TInv'
    BY SenderTypes DEF IInv, Sender
<1>2. frame \in Jobs
    BY DEF IInv, TInv, Types, TypeOK
<1>3. /\ WritersStay /\ UNCHANGED <<semHndl, semHndl_s, queue, sent, undefined>>
      /\ Busy /\ Busy' /\ Pending /\ Pending'
      /\ sender = "getSendInfo" /\ sender' = "package"
      /\ frame'.kind = cmdid
    BY <1>2 DEF GetSendInfo, slot, WritersStay, Busy, Pending, Jobs
<1> USE DEF WritersStay
<1>4. UNCHANGED <<SenderHas, DispatcherHas, Latest>>
    BY <1>3 DEF SenderHas, DispatcherHas, Latest
<1>5. ASSUME ~overlapped PROVE Clean'
    <2>1. Clean
        BY <1>5 DEF IInv
    <2>2. OneUser'
        BY <1>3, <2>1 DEF Clean, OneUser, Owns
    <2>3. Contents'
        BY <1>3, <1>4, <2>1 DEF Clean, Contents, Holds, Emptied
    <2>4. InOrder' /\ OnePermission'
        BY <1>3, <1>4, <2>1 DEF Clean, InOrder, OnePermission
    <2> QED  BY <2>2, <2>3, <2>4 DEF Clean
<1>6. ConfigsOnly'
    BY <1>3 DEF IInv, ConfigsOnly
<1> QED  BY <1>1, <1>3, <1>5, <1>6 DEF IInv

\* The one answer in the queue of its kind is taken out.
LEMMA PackageKeeps ==
    ASSUME IInv, Package
    PROVE  IInv'
<1>1. TInv'
    BY SenderTypes DEF IInv, Sender
<1>2. /\ frame \in Jobs /\ queue \in [ConfigKinds -> Seq(1 .. MaxAsked)]
      /\ semHndl \in 0 .. 1
    BY DEF IInv, TInv, Types, TypeOK
<1>3. /\ WritersStay /\ UNCHANGED <<semHndl, semHndl_s, sent>>
      /\ Busy /\ Busy' /\ Pending
      /\ sender = "package" /\ sender' = "send"
      /\ frame'.kind = frame.kind
    BY <1>2 DEF Package, WritersStay, Busy, Pending, Jobs
<1> USE DEF WritersStay
<1>4. UNCHANGED <<SenderHas, DispatcherHas, Latest>>
    BY <1>3 DEF SenderHas, DispatcherHas, Latest
<1>5. ASSUME ~overlapped PROVE Clean' /\ (undefined' => undefined)
    <2>1. Clean
        BY <1>5 DEF IInv
    <2>2. /\ semHndl = 0 /\ \A u \in Threads : ~Owns(u) /\ at[u] # "signal"
          /\ Holds(Latest) /\ frame.kind = cmdid /\ frame.kind = Latest.kind
        BY <1>2, <1>3, <2>1 DEF Clean, OneUser, Contents, Owns, Writing
    <2>3. /\ frame'.id = Latest.id /\ Emptied'
          /\ undefined' => undefined
        <3>1. CASE frame.kind \in ConfigKinds
            <4>1. queue[frame.kind] = <<Latest.id>>
                BY <2>2, <3>1 DEF Holds
            <4>2. <<Latest.id>> # <<>> /\ Head(<<Latest.id>>) = Latest.id
                  /\ Tail(<<Latest.id>>) = <<>>
                OBVIOUS
            <4>3. /\ undefined' = (queue[frame.kind] = <<>>)
                  /\ queue' = [queue EXCEPT ![frame.kind] =
                                  IF queue[frame.kind] = <<>> THEN queue[frame.kind]
                                  ELSE Tail(queue[frame.kind])]
                  /\ frame' = [frame EXCEPT !.id =
                                  IF queue[frame.kind] = <<>> THEN 0
                                  ELSE Head(queue[frame.kind])]
                BY <3>1 DEF Package
            <4>4. ~undefined'
                BY <4>1, <4>2, <4>3
            <4>5. frame' = [frame EXCEPT !.id = Latest.id]
                BY <4>1, <4>2, <4>3
            <4>6. queue' = [queue EXCEPT ![frame.kind] = <<>>]
                BY <4>1, <4>2, <4>3
            <4>7. Emptied'
                BY <1>2, <2>2, <3>1, <4>6 DEF Emptied, Holds
            <4> QED  BY <1>2, <4>4, <4>5, <4>7 DEF Jobs
        <3>2. CASE frame.kind \notin ConfigKinds
            BY <1>2, <2>2, <3>2 DEF Package, Emptied, Holds, Jobs
        <3> QED  BY <3>1, <3>2
    <2>4. ~Pending'
        BY <1>3, <2>2 DEF Pending
    <2>5. OneUser'
        BY <1>3, <2>2 DEF OneUser, Owns
    <2>6. Contents'
        BY <1>3, <1>4, <2>1, <2>2, <2>3, <2>4 DEF Clean, Contents
    <2>7. InOrder' /\ OnePermission'
        BY <1>3, <1>4, <2>1 DEF Clean, InOrder, OnePermission
    <2> QED  BY <2>1, <2>3, <2>5, <2>6, <2>7 DEF Clean
<1>6. ConfigsOnly'
    BY <1>3 DEF IInv, ConfigsOnly
<1> QED  BY <1>1, <1>3, <1>5, <1>6 DEF IInv

LEMMA SendKeeps ==
    ASSUME IInv, Send
    PROVE  IInv'
<1>1. TInv'
    BY SenderTypes DEF IInv, Sender
<1>2. /\ frame \in Jobs /\ signalled \in Seq(Jobs) /\ semHndl \in 0 .. 1
    BY DEF IInv, TInv, Types, TypeOK
<1>3. /\ WritersStay /\ UNCHANGED <<semHndl, semHndl_s, queue, undefined>>
      /\ Busy /\ Busy'
      /\ sender = "send" /\ sender' = "recheck"
      /\ frame' = [frame EXCEPT !.link = comtype]
      /\ sent' = Append(sent, frame')
    BY DEF Send, slot, WritersStay, Busy
<1> USE DEF WritersStay
<1>4. UNCHANGED <<SenderHas, DispatcherHas, Latest>>
    BY <1>3 DEF SenderHas, DispatcherHas, Latest
<1>5. ASSUME ~overlapped PROVE Clean'
    <2>1. Clean
        BY <1>5 DEF IInv
    <2>2. OneUser' /\ semHndl = 0
        BY <1>2, <1>3, <2>1 DEF Clean, OneUser, Owns
    <2>3. ~Pending /\ ~Pending' /\ Emptied = Emptied'
        BY <1>3, <2>2 DEF Pending, Emptied
    <2>4. Contents'
        BY <1>3, <1>4, <2>1, <2>3 DEF Clean, Contents, Holds
    <2>5. sent' = signalled'
        <3>1. Latest \in Jobs
            BY <1>2, <1>3, <2>1 DEF Clean, Contents, Latest
        <3>2. /\ frame'.id = Latest.id /\ frame'.kind = Latest.kind
              /\ frame'.link = Latest.link /\ frame' \in Jobs
            BY <1>2, <1>3, <2>1, <1>1 DEF Clean, Contents, Jobs, TInv, Types, TypeOK
        <3>3. frame' = Latest
            BY ONLY <3>1, <3>2 DEF Jobs
        <3> QED  BY <1>3, <2>1, <3>3 DEF Clean, InOrder
    <2>6. InOrder' /\ OnePermission'
        BY <1>3, <1>4, <2>1, <2>5 DEF Clean, InOrder, OnePermission
    <2> QED  BY <2>2, <2>4, <2>6 DEF Clean
<1>6. ConfigsOnly'
    BY <1>3 DEF IInv, ConfigsOnly
<1> QED  BY <1>1, <1>3, <1>5, <1>6 DEF IInv

\* The permission goes back, if what is now in the slot is a configuration answer.
LEMMA RecheckKeeps ==
    ASSUME IInv, Recheck
    PROVE  IInv'
<1>1. TInv'
    BY SenderTypes DEF IInv, Sender
<1>2. semHndl \in 0 .. 1 /\ semHndl_s \in 0 .. 1
    BY DEF IInv, TInv, Types, TypeOK
<1>3. /\ WritersStay /\ UNCHANGED <<semHndl, queue, sent, undefined>>
      /\ Busy /\ sender = "recheck" /\ sender' = "wait"
      /\ semHndl_s' = IF cmdid \in ConfigKinds THEN Up(semHndl_s) ELSE semHndl_s
    BY DEF Recheck, slot, WritersStay, Busy, FreesSlot
<1> USE DEF WritersStay
<1>4. UNCHANGED <<DispatcherHas, Latest>>
    BY <1>3 DEF DispatcherHas, Latest
<1>5. ASSUME ~overlapped PROVE Clean'
    <2>1. Clean
        BY <1>5 DEF IInv
    <2>2. semHndl = 0 /\ ~Busy' /\ ~Pending /\ ~Pending'
        BY <1>2, <1>3, <2>1 DEF Clean, OneUser, Busy, Pending
    <2>3. OneUser'
        BY <1>3, <2>1, <2>2 DEF Clean, OneUser, Owns
    <2>4. Contents'
        BY <1>3, <1>4, <2>1, <2>2 DEF Clean, Contents, Holds, Emptied
    <2>5. InOrder'
        BY <1>3, <1>4, <2>1, <2>2 DEF Clean, InOrder
    <2>6. ~SenderHas'
        BY <2>2 DEF SenderHas
    <2>7. CASE cmdid \in ConfigKinds
        <3>1. SenderHas
            BY <1>3, <2>7 DEF SenderHas
        <3>2. semHndl_s = 0 /\ ~DispatcherHas
            BY <2>1, <3>1 DEF Clean, OnePermission
        <3>3. semHndl_s' = 1
            BY <1>3, <2>7, <3>2 DEF Up
        <3> QED  BY <1>4, <2>3, <2>4, <2>5, <2>6, <3>2, <3>3 DEF Clean, OnePermission
    <2>8. CASE cmdid \notin ConfigKinds
        <3>1. ~SenderHas /\ semHndl_s' = semHndl_s
            BY <1>3, <2>8 DEF SenderHas
        <3> QED  BY <1>3, <1>4, <2>1, <2>3, <2>4, <2>5, <2>6, <3>1
                 DEF Clean, OnePermission
    <2> QED  BY <2>7, <2>8
<1>6. ConfigsOnly'
    BY <1>3 DEF IInv, ConfigsOnly, Busy
<1> QED  BY <1>1, <1>3, <1>5, <1>6 DEF IInv

LEMMA InvKept == IInv /\ [Next]_vars => IInv'
<1> SUFFICES ASSUME IInv, [Next]_vars PROVE IInv'
    OBVIOUS
<1>1. ASSUME NEW t \in Threads, WriterStep(t) PROVE IInv'
    BY <1>1, WaitFreeKeeps, SkipKeeps, SetComtypeKeeps, SetCmdidKeeps, SetPayloadKeeps,
       SignalKeeps DEF WriterStep
<1>2. ASSUME Sender PROVE IInv'
    BY <1>2, SendWaitKeeps, GetSendInfoKeeps, PackageKeeps, SendKeeps, RecheckKeeps
    DEF Sender
<1>3. ASSUME UNCHANGED vars PROVE IInv'
    <2> USE <1>3 DEF vars, slot, sending
    <2>1. UNCHANGED <<Busy, Pending, Latest, Emptied, DispatcherHas, SenderHas>>
        BY DEF Busy, Pending, Latest, Emptied, DispatcherHas, SenderHas
    <2>2. TInv'
        BY TypesKept DEF IInv
    <2>3. OneUser => OneUser'
        BY <2>1 DEF OneUser, Owns
    <2>4. Contents => Contents'
        BY <2>1 DEF Contents, Holds
    <2>5. (InOrder => InOrder') /\ (OnePermission => OnePermission')
        BY <2>1 DEF InOrder, OnePermission
    <2>6. ConfigsOnly => ConfigsOnly'
        BY <2>1 DEF ConfigsOnly
    <2> QED  BY <2>2, <2>3, <2>4, <2>5, <2>6 DEF IInv, Clean
<1> QED  BY <1>1, <1>2, <1>3, AskKeeps DEF Next, Finished

LEMMA SpecInv == Spec => []IInv
BY InvHolds, InvKept, PTL DEF Spec

-----------------------------------------------------------------------------
\* The types of the fields of ACK_ComParams and of the threads that use it.
THEOREM TypeCorrect == Spec => []TypeOK
<1>1. IInv => TypeOK
    BY DEF IInv, TInv, Types
<1> QED  BY <1>1, SpecInv, PTL

\* The permission of the configuration commands (m_semHndl_s) is neither lost nor
\* doubled, and the sender does not read an empty queue, unless two threads were in
\* ACK_ComParams at once or a handler returned early; among configuration commands
\* they never are.
THEOREM SlotIsGuarded == Spec => []SlotGuarded
<1>1. ASSUME IInv PROVE SlotGuarded
    <2>1. overlapped => fed
        BY <1>1 DEF IInv, ConfigsOnly
    <2>2. undefined => overlapped
        BY <1>1 DEF IInv
    <2>3. ASSUME ~overlapped, ~skipped PROVE Permissions = 1
        <3>1. OnePermission /\ semHndl_s \in 0 .. 1 /\ semHndl \in 0 .. 1
            BY <1>1, <2>3 DEF IInv, Clean, TInv, Types, TypeOK
        <3> QED  BY <2>3, <3>1
                 DEF Permissions, OnePermission, DispatcherHas, SenderHas, Busy
    <2> QED  BY <2>1, <2>2, <2>3 DEF SlotGuarded
<1> QED  BY <1>1, SpecInv, PTL

\* Unless two threads were in ACK_ComParams at once, thread_comsendEvent sends every
\* answer once, in the order of the signals, with its content and to its link.
THEOREM AnswersInOrder == Spec => []AnsweredInOrder
<1>1. ASSUME IInv PROVE AnsweredInOrder
    <2>1. SUFFICES ASSUME ~overlapped
                   PROVE  /\ IsPrefix(sent, signalled)
                          /\ sender = "wait" /\ semHndl = 0 => sent = signalled
        BY DEF AnsweredInOrder
    <2>2. InOrder /\ sent \in Seq(Jobs) /\ signalled \in Seq(Jobs) /\ semHndl \in 0 .. 1
        BY <1>1, <2>1 DEF IInv, Clean, TInv, Types, TypeOK
    <2>3. sender = "wait" /\ semHndl = 0 => sent = signalled
        BY <2>2 DEF InOrder, Busy
    <2>4. Len(sent) <= Len(signalled)
          /\ \A i \in 1 .. Len(sent) : sent[i] = signalled[i]
        BY <2>2 DEF InOrder
    <2>5. SubSeq(sent, 1, Len(sent)) = SubSeq(signalled, 1, Len(sent))
        BY <2>2, <2>4
    <2> QED  BY <2>3, <2>4, <2>5 DEF IsPrefix
<1> QED  BY <1>1, SpecInv, PTL
=============================================================================
