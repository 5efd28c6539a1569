------------------------------ MODULE Requests ------------------------------
(***************************************************************************)
(* From a command received to its handler.  All the threads that receive   *)
(* (eventParsing.cpp, parsingComEvent) write what a command carries into   *)
(* the one ComParams and send its bare number to the dispatcher            *)
(* (CMessage.cpp), whose handlers (EventManager.cpp) read ComParams when    *)
(* they get to it.  Settings go through vectors in ComParams, which         *)
(* handlers empty; commands to the pan-tilt unit that take long are handed *)
(* to detached threads, at most one of a kind as far as `exist' goes.      *)
(* One action is one access to what threads share.                         *)
(***************************************************************************)
EXTENDS Naturals, Sequences, SequencesExt, FiniteSets

CONSTANTS Links,        \* comtype_t: serial port and connections
          Commands,     \* kinds of command that are received
          QueSize,      \* OSA_MSGQ_LEN_MAX: 64
          MaxAsked      \* bound: commands in a behaviour

Configs == {"SetCfg", "GetCfg", "DefaultCfg"}
Plain   == {"Trk", "TrkOutput"}                         \* handled at once
Slow    == {"SetPlatAngle", "Prepos", "SetZoom", "QueryPtzPos", "GetZoom"}
Kinds   == Configs \cup Plain \cup Slow

RequestsAssumption ==
    /\ Links # {} /\ Commands \subseteq Kinds
    /\ {QueSize, MaxAsked} \subseteq Nat \ {0}

VARIABLES comtype,      \* ComParams.comtype
          field,        \* per kind, the command whose values ComParams has
          vector,       \* setConfigQueue, getConfigQueue, defConfigQueue
          queue,        \* the dispatcher's messages
          rx,           \* the receiving threads: where they are, and with what
          dispatcher,   \* where it is, and with what
          permit,       \* m_semHndl_s
          worker,       \* the detached threads, one per command at most
          exist         \* per kind, the guard of the detached threads

\* History: commands so far and who asked, the settings handled, the answers and
\* the links they went to, the commands that had come when all was done with last,
\* the commands that were under way together with one of another link, and whether
\* two threads were in one vector at once, after which nothing is defined.
VARIABLES asked, handled, answers, closed, crossed, undefined

params == <<comtype, field>>
hist   == <<asked, handled, answers, closed, crossed, undefined>>
vars   == <<params, vector, queue, rx, dispatcher, permit, worker, exist, hist>>

Ids   == 1 .. MaxAsked
NoId  == 0
Idle  == [at |-> "idle", kind |-> "Trk", id |-> NoId]
Place(w, p) == [w EXCEPT !.at = p]

TypeOK ==
    /\ comtype \in Links
    /\ field \in [Kinds -> Ids \cup {NoId}]
    /\ \A k \in Configs : vector[k] \in Seq(Ids)
    /\ queue \in Seq(Kinds) /\ Len(queue) <= QueSize
    /\ \A l \in Links : /\ rx[l].at \in {"idle", "store", "push", "send"}
                        /\ rx[l].id \in Ids \cup {NoId}
    /\ dispatcher.at \in {"idle", "size", "permit", "handle", "front", "erase", "push", "send"}
    /\ dispatcher.kind \in Kinds /\ dispatcher.id \in Ids \cup {NoId}
    /\ permit \in 0 .. 1
    /\ worker \in [Ids -> [at : {"idle", "guard", "enter", "run", "answer", "done"},
                           kind : Kinds, id : Ids \cup {NoId}]]
    /\ exist \in [Slow -> BOOLEAN]
    /\ Len(asked) <= MaxAsked /\ closed <= Len(asked) /\ undefined \in BOOLEAN
    /\ handled \subseteq Ids /\ crossed \subseteq Ids
    /\ answers \subseteq Ids \X Links

Init ==
    /\ comtype = CHOOSE l \in Links : TRUE
    /\ field = [k \in Kinds |-> NoId]
    /\ vector = [k \in Configs |-> <<>>]
    /\ queue = <<>>
    /\ rx = [l \in Links |-> Idle]
    /\ dispatcher = Idle
    /\ permit = 1
    /\ worker = [i \in Ids |-> Idle]
    /\ exist = [k \in Slow |-> FALSE]
    /\ asked = <<>> /\ handled = {} /\ answers = {} /\ crossed = {} /\ closed = 0
    /\ undefined = FALSE

\* Threads that are changing the vector of a kind; whoever starts to while one is
\* at it leaves nothing defined.
InVector(k) == {l \in Links : rx[l].at = "push" /\ rx[l].kind = k}
DispatcherIn(k) == dispatcher.at \in {"erase", "push"} /\ dispatcher.kind = k

\* Nothing is under way.
Done ==
    /\ queue = <<>> /\ dispatcher.at = "idle"
    /\ \A l \in Links : rx[l].at = "idle"
    /\ \A i \in Ids : worker[i].at \in {"idle", "done"}

-----------------------------------------------------------------------------
(***************************************************************************)
(* A receiving thread.                                                     *)
(***************************************************************************)
\* Mutant: the link is not stored.
Receive_NoType(l, k) ==
    /\ rx[l].at = "idle"
    /\ Len(asked) < MaxAsked
    /\ asked' = Append(asked, [kind |-> k, link |-> l])
    /\ rx' = [rx EXCEPT ![l] = [at |-> "store", kind |-> k, id |-> Len(asked) + 1]]
    /\ closed' = IF Done THEN Len(asked) ELSE closed
    /\ crossed' = LET others == {i \in closed' + 1 .. Len(asked) : asked[i].link # l}
                  IN  IF others = {} THEN crossed
                      ELSE crossed \cup (closed' + 1 .. Len(asked) + 1)
    /\ UNCHANGED <<params, vector, queue, dispatcher, permit, worker, exist, handled,
                   answers, undefined>>
\* A frame is complete: ComParams.comtype = comtype.
Receive(l, k) ==
    /\ rx[l].at = "idle"
    /\ Len(asked) < MaxAsked
    /\ asked' = Append(asked, [kind |-> k, link |-> l])
    /\ comtype' = l
    /\ rx' = [rx EXCEPT ![l] = [at |-> "store", kind |-> k, id |-> Len(asked) + 1]]
    /\ closed' = IF Done THEN Len(asked) ELSE closed
    /\ crossed' = LET others == {i \in closed' + 1 .. Len(asked) : asked[i].link # l}
                  IN  IF others = {} THEN crossed
                      ELSE crossed \cup (closed' + 1 .. Len(asked) + 1)
    /\ UNCHANGED <<field, vector, queue, dispatcher, permit, worker, exist, handled,
                   answers, undefined>>

\* The values go into the fields of their kind, settings to the end of a vector.
StoreField(l) ==
    /\ rx[l].at = "store"
    /\ IF rx[l].kind \in Configs
       THEN /\ rx' = [rx EXCEPT ![l] = Place(@, "push")]
            /\ undefined' = (undefined \/ DispatcherIn(rx[l].kind) \/ InVector(rx[l].kind) # {})
            /\ UNCHANGED field
       ELSE /\ rx' = [rx EXCEPT ![l] = Place(@, "send")]
            /\ field' = [field EXCEPT ![rx[l].kind] = rx[l].id]
            /\ UNCHANGED undefined
    /\ UNCHANGED <<comtype, vector, queue, dispatcher, permit, worker, exist, asked,
                   handled, answers, closed, crossed>>

PushBack(l) ==
    /\ rx[l].at = "push"
    /\ vector' = [vector EXCEPT ![rx[l].kind] = Append(@, rx[l].id)]
    /\ rx' = [rx EXCEPT ![l] = Place(@, "send")]
    /\ UNCHANGED <<params, queue, dispatcher, permit, worker, exist, hist>>

\* MSGDRIV_send waits for room.
Send(l) ==
    /\ rx[l].at = "send"
    /\ Len(queue) < QueSize
    /\ queue' = Append(queue, rx[l].kind)
    /\ rx' = [rx EXCEPT ![l] = Idle]
    /\ UNCHANGED <<params, vector, dispatcher, permit, worker, exist, hist>>

-----------------------------------------------------------------------------
(***************************************************************************)
(* The dispatcher.                                                         *)
(***************************************************************************)
Answer(i) == answers' = answers \cup {<<i, comtype>>}

\* MSGDRIV_ProcTask calls the handler of a message.
Dispatch(k) ==
    /\ dispatcher.at = "idle" /\ queue # <<>> /\ Head(queue) = k
    /\ queue' = Tail(queue)
    /\ UNCHANGED <<params, vector, rx, permit, exist, asked, closed, crossed>>

\* MSG_Trk.
DispatchTrk ==
    /\ Dispatch("Trk")
    /\ Answer(field["Trk"])
    /\ handled' = handled \cup {field["Trk"]}
    /\ UNCHANGED <<dispatcher, worker, undefined>>

\* MSG_Com_TrkOutput puts a setting of its own into setConfigQueue.
DispatchTrkOutput ==
    /\ Dispatch("TrkOutput")
    /\ dispatcher' = [at |-> "push", kind |-> "SetCfg", id |-> field["TrkOutput"]]
    /\ undefined' = (undefined \/ InVector("SetCfg") # {})
    /\ UNCHANGED <<worker, handled, answers>>

\* MSG_Com_SetCfg, MSG_Com_GetCfg, MSG_Com_DefaultCfg: a loop until the vector is
\* empty.
DispatchConfig(k) ==
    /\ Dispatch(k)
    /\ dispatcher' = [at |-> "size", kind |-> k, id |-> NoId]
    /\ UNCHANGED <<worker, handled, answers, undefined>>

\* MSG_Com_SetPlatAngle and the like start a thread.
DispatchSlow(k) ==
    /\ Dispatch(k)
    /\ LET free == CHOOSE i \in Ids : worker[i].at = "idle"
       IN  worker' = [worker EXCEPT ![free] = [at |-> "guard", kind |-> k, id |-> NoId]]
    /\ UNCHANGED <<dispatcher, handled, answers, undefined>>

Step(next) == dispatcher' = next /\ UNCHANGED <<params, rx, worker, exist>>

\* size() and [0]: reading them while a receiver pushes is undefined as well.
Size ==
    /\ dispatcher.at = "size"
    /\ LET k == dispatcher.kind
       IN  Step(IF vector[k] = <<>> THEN Idle
                ELSE [at |-> "permit", kind |-> k, id |-> Head(vector[k])])
    /\ undefined' = (undefined \/ InVector(dispatcher.kind) # {})
    /\ UNCHANGED <<vector, queue, permit, asked, handled, answers, closed, crossed>>

\* OSA_semWait(&m_semHndl_s).
TakePermit ==
    /\ dispatcher.at = "permit" /\ permit = 1
    /\ permit' = 0
    /\ Step(Place(dispatcher, "handle"))
    /\ UNCHANGED <<vector, queue, hist>>

\* SetConfig, GetConfig, DefaultConfig, with ComParams.comtype as it is now.
HandleConfig ==
    /\ dispatcher.at = "handle"
    /\ Answer(dispatcher.id)
    /\ handled' = handled \cup {dispatcher.id}
    /\ Step(Place(dispatcher, "front"))
    /\ UNCHANGED <<vector, queue, permit, asked, closed, crossed, undefined>>

\* erase(begin()).
StartErase ==
    /\ dispatcher.at = "front"
    /\ undefined' = (undefined \/ InVector(dispatcher.kind) # {})
    /\ Step(Place(dispatcher, "erase"))
    /\ UNCHANGED <<vector, queue, permit, asked, handled, answers, closed, crossed>>

Erase ==
    /\ dispatcher.at = "erase"
    /\ vector' = [vector EXCEPT ![dispatcher.kind] = Tail(@)]
    /\ Step(Place(dispatcher, "size"))
    /\ UNCHANGED <<queue, permit, hist>>

\* Mutant: no message is sent for the setting.
PushOutput_NotSent ==
    /\ dispatcher.at = "push"
    /\ vector' = [vector EXCEPT !["SetCfg"] = Append(@, dispatcher.id)]
    /\ Step(Idle)
    /\ UNCHANGED <<queue, permit, hist>>
\* The rest of MSG_Com_TrkOutput: into the vector, then to its own queue, where it
\* waits for room like any other sender.
PushOutput ==
    /\ dispatcher.at = "push"
    /\ vector' = [vector EXCEPT !["SetCfg"] = Append(@, dispatcher.id)]
    /\ Step(Place(dispatcher, "send"))
    /\ UNCHANGED <<queue, permit, hist>>

SendOutput ==
    /\ dispatcher.at = "send"
    /\ Len(queue) < QueSize
    /\ queue' = Append(queue, "SetCfg")
    /\ Step(Idle)
    /\ UNCHANGED <<vector, permit, hist>>

\* The sender of answers gives the permit back once the answer has left.
GivePermit ==
    /\ permit = 0 /\ dispatcher.at # "handle"
    /\ permit' = 1
    /\ UNCHANGED <<params, vector, queue, rx, dispatcher, worker, exist, hist>>

-----------------------------------------------------------------------------
(***************************************************************************)
(* A detached thread: setPlatAngle, preposHandle, setZoom, answerPos,      *)
(* answerZoom.                                                             *)
(***************************************************************************)
Work(i, from, next) ==
    /\ worker[i].at = from
    /\ worker' = [worker EXCEPT ![i] = next]
    /\ UNCHANGED <<params, vector, queue, rx, dispatcher, permit, asked, closed, crossed, undefined>>

\* if(exist) return.
Guard(i) ==
    /\ Work(i, "guard", Place(worker[i], IF exist[worker[i].kind] THEN "done" ELSE "enter"))
    /\ UNCHANGED <<exist, handled, answers>>

Enter(i) ==
    /\ Work(i, "enter", Place(worker[i], "run"))
    /\ exist' = [exist EXCEPT ![worker[i].kind] = TRUE]
    /\ UNCHANGED <<handled, answers>>

\* What is to be done is read from ComParams only now.
Run(i) ==
    /\ LET k == worker[i].kind
       IN  Work(i, "run", [at |-> "answer", kind |-> k, id |-> field[k]])
    /\ handled' = handled \cup {field[worker[i].kind]}
    /\ UNCHANGED <<exist, answers>>

\* And whom to answer, when it is done.
Finish(i) ==
    /\ Work(i, "answer", Place(worker[i], "done"))
    /\ Answer(worker[i].id)
    /\ exist' = [exist EXCEPT ![worker[i].kind] = FALSE]
    /\ UNCHANGED handled

-----------------------------------------------------------------------------
RxStep(l) == StoreField(l) \/ PushBack(l) \/ Send(l)
DispatcherStep ==
    \/ DispatchTrk \/ DispatchTrkOutput
    \/ \E k \in Configs : DispatchConfig(k)
    \/ \E k \in Slow : DispatchSlow(k)
    \/ Size \/ TakePermit \/ HandleConfig \/ StartErase \/ Erase
    \/ PushOutput \/ SendOutput
WorkerStep(i) == Guard(i) \/ Enter(i) \/ Run(i) \/ Finish(i)

Next ==
    /\ ~undefined
    /\ \/ \E l \in Links, k \in Commands : Receive(l, k)
       \/ \E l \in Links : RxStep(l)
       \/ DispatcherStep
       \/ GivePermit
       \/ \E i \in Ids : WorkerStep(i)

Spec == Init /\ [][Next]_vars

-----------------------------------------------------------------------------
(***************************************************************************)
(* What is promised.                                                       *)
(***************************************************************************)
\* An answer goes to the link that asked, unless a command of another link was
\* under way with it: handlers and detached threads read ComParams.comtype when they
\* answer, not when the command came (signalFeedBack(..., tmp->comtype, ...)).
AnswersAsker ==
    \A a \in answers : a[1] \in crossed \/ a[1] = NoId \/ asked[a[1]].link = a[2]

\* No setting is left in its vector: there is always a message of its kind to
\* come, a receiver or MSG_Com_TrkOutput about to send one, or the dispatcher at
\* the vector, which it leaves only when it has found it empty.  So each is dealt
\* with, as long as the dispatcher goes on.
NoSettingLeft ==
    \A k \in Configs : (vector[k] # <<>> /\ ~undefined) =>
        \/ \E i \in DOMAIN queue : queue[i] = k
        \/ \E l \in Links : rx[l].at = "send" /\ rx[l].kind = k
        \/ dispatcher.at # "idle" /\ dispatcher.kind = k

=============================================================================
