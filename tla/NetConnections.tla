--------------------------- MODULE NetConnections ---------------------------
(***************************************************************************)
(* The network connections of CEventParsing: the thread that accepts them  *)
(* (thread_Getaccept), one receiver for each (thread_netrecvEvent), the    *)
(* thread that reclaims those that have ended (thread_ReclaimConnect) and  *)
(* the sender of answers (thread_comsendEvent).  What a connection is kept *)
(* in is a heap block, CConnectVECTOR, which malloc does not initialise;   *)
(* connetVector lists the blocks and mutexConn guards the list, but not    *)
(* the fields of a block.  One action is one critical section of mutexConn *)
(* or one access to a field; the reclaim thread keeps the mutex over many. *)
(*                                                                         *)
(* No statement ever closes the descriptor of a connection.  A client is a *)
(* connection's other end, so one that comes back is another client.  The  *)
(* way from a command to its answer is what AckChannel says of it when     *)
(* nothing overlaps: a queue.                                              *)
(***************************************************************************)
EXTENDS Naturals, Sequences, FiniteSets, SequencesExt

CONSTANTS Clients,     \* other ends that connect, once each
          Blocks,      \* addresses malloc can return
          Fds,         \* descriptors the process can have open
          MaxAsked,    \* bound: commands in a behaviour
          NoClient, NoBlock

ASSUME NetAssumption ==
    /\ NoClient \notin Clients
    /\ NoBlock \notin Blocks
    /\ Fds # {}
    /\ MaxAsked \in Nat

VARIABLES client,                \* each client's end of its connection
          peer,                  \* the client a descriptor leads to
          heap,                  \* blocks malloc has handed out
          connfd, bConnecting,   \* fields of each block
          connetVector,          \* the blocks, in the order of the accepts
          accepting, pConnect,   \* the accept thread's place and block
          receiver, mine,        \* each receiver's state and block
          iter,                  \* the reclaim thread: 0, or its place in
                                 \* the list while it holds mutexConn
          answers                \* answers on their way to the sender

\* History: commands so far; the reclaim thread used a block whose thread had
\* not been created; an answer to a closed end has raised SIGPIPE, which ends
\* the program.
VARIABLES asked, undefined, killed

block == <<heap, connfd, bConnecting>>
threads == <<accepting, pConnect, receiver, mine>>
vars == <<client, peer, block, connetVector, threads, iter, answers, asked,
          undefined, killed>>
over == <<undefined, killed>>

Answer == [fd : Fds, to : Clients]

TypeOK ==
    /\ client \in [Clients -> {"out", "waiting", "open", "gone"}]
    /\ peer \in [Fds -> Clients \cup {NoClient}]
    /\ heap \subseteq Blocks
    /\ connfd \in [Blocks -> Fds]
    /\ bConnecting \in [Blocks -> BOOLEAN]
    /\ connetVector \in Seq(heap)
    /\ accepting \in {"accept", "push", "mark", "create"}
    /\ pConnect \in Blocks \cup {NoBlock}
    /\ receiver \in [Clients -> {"none", "recv", "closing", "ended"}]
    /\ mine \in [Clients -> Blocks \cup {NoBlock}]
    /\ iter \in 0 .. Len(connetVector) + 1
    /\ answers \in Seq(Answer)
    /\ asked \in 0 .. MaxAsked
    /\ {undefined, killed} \subseteq BOOLEAN

Init ==
    /\ client = [c \in Clients |-> "out"]
    /\ peer = [f \in Fds |-> NoClient]
    /\ heap = {}
    /\ connfd = [b \in Blocks |-> CHOOSE f \in Fds : TRUE]
    /\ bConnecting = [b \in Blocks |-> FALSE]
    /\ connetVector = <<>>
    /\ accepting = "accept" /\ pConnect = NoBlock
    /\ receiver = [c \in Clients |-> "none"]
    /\ mine = [c \in Clients |-> NoBlock]
    /\ iter = 0
    /\ answers = <<>>
    /\ asked = 0 /\ undefined = FALSE /\ killed = FALSE

-----------------------------------------------------------------------------
(***************************************************************************)
(* The clients.                                                            *)
(***************************************************************************)
Connect(c) == client[c] = "out" /\ client' = [client EXCEPT ![c] = "waiting"]
Close(c)   == client[c] = "open" /\ client' = [client EXCEPT ![c] = "gone"]

Client == /\ \E c \in Clients : Connect(c) \/ Close(c)
          /\ UNCHANGED <<peer, block, connetVector, threads, iter, answers,
                         asked, over>>

-----------------------------------------------------------------------------
(***************************************************************************)
(* thread_Getaccept.                                                       *)
(***************************************************************************)
\* accept fails, and is tried again, while every descriptor is in use.  What
\* bConnecting holds after malloc is anything.
Accept ==
    /\ accepting = "accept"
    /\ \E c \in Clients, f \in Fds, b \in Blocks \ heap, rubbish \in BOOLEAN :
          /\ client[c] = "waiting"
          /\ peer[f] = NoClient
          /\ client' = [client EXCEPT ![c] = "open"]
          /\ peer' = [peer EXCEPT ![f] = c]
          /\ heap' = heap \cup {b}
          /\ connfd' = [connfd EXCEPT ![b] = f]
          /\ bConnecting' = [bConnecting EXCEPT ![b] = rubbish]
          /\ pConnect' = b
    /\ accepting' = "push"
    /\ UNCHANGED <<connetVector, receiver, mine, iter, answers, asked, over>>

Push ==
    /\ accepting = "push"
    /\ iter = 0
    /\ connetVector' = Append(connetVector, pConnect)
    /\ accepting' = "mark"
    /\ UNCHANGED <<client, peer, block, pConnect, receiver, mine, iter,
                   answers, asked, over>>

\* Mutant: the mark is left to chance.
Mark_Omitted ==
    /\ accepting = "mark"
    /\ accepting' = "create"
    /\ UNCHANGED <<client, peer, block, connetVector, pConnect, receiver, mine,
                   iter, answers, asked, over>>
Mark ==
    /\ accepting = "mark"
    /\ bConnecting' = [bConnecting EXCEPT ![pConnect] = TRUE]
    /\ accepting' = "create"
    /\ UNCHANGED <<client, peer, heap, connfd, connetVector, pConnect,
                   receiver, mine, iter, answers, asked, over>>

Create ==
    LET c == peer[connfd[pConnect]] IN
    /\ accepting = "create"
    /\ receiver' = [receiver EXCEPT ![c] = "recv"]
    /\ mine' = [mine EXCEPT ![c] = pConnect]
    /\ pConnect' = NoBlock
    /\ accepting' = "accept"
    /\ UNCHANGED <<client, peer, block, connetVector, iter, answers, asked,
                   over>>

-----------------------------------------------------------------------------
(***************************************************************************)
(* thread_netrecvEvent.                                                    *)
(***************************************************************************)
\* A command, which a client may have sent before it closed its end, and the
\* answer that will come of it, to the descriptor of the connection.
Command(c) ==
    /\ receiver[c] = "recv"
    /\ asked < MaxAsked
    /\ asked' = asked + 1
    /\ answers' = Append(answers, [fd |-> connfd[mine[c]], to |-> c])
    /\ UNCHANGED <<client, peer, block, connetVector, threads, iter, over>>

\* Mutant: the loop is left and the connection not marked.
EndOfFile_KeepsMark(c) ==
    /\ receiver[c] = "recv"
    /\ client[c] = "gone"
    /\ receiver' = [receiver EXCEPT ![c] = "closing"]
    /\ UNCHANGED <<client, peer, block, connetVector, accepting, pConnect,
                   mine, iter, answers, asked, over>>
\* crecv returns -2.
EndOfFile(c) ==
    /\ receiver[c] = "recv"
    /\ client[c] = "gone"
    /\ bConnecting' = [bConnecting EXCEPT ![mine[c]] = FALSE]
    /\ receiver' = [receiver EXCEPT ![c] = "closing"]
    /\ UNCHANGED <<client, peer, heap, connfd, connetVector, accepting,
                   pConnect, mine, iter, answers, asked, over>>

ThreadEnds(c) ==
    /\ receiver[c] = "closing"
    /\ receiver' = [receiver EXCEPT ![c] = "ended"]
    /\ UNCHANGED <<client, peer, block, connetVector, accepting, pConnect,
                   mine, iter, answers, asked, over>>

-----------------------------------------------------------------------------
(***************************************************************************)
(* thread_ReclaimConnect.                                                  *)
(***************************************************************************)
ReclaimLock ==
    /\ iter = 0
    /\ iter' = 1
    /\ UNCHANGED <<client, peer, block, connetVector, threads, answers, asked,
                   over>>

\* Mutant: the descriptor is closed along with the connection.
FreeConnect_Closes(b) ==
    /\ heap' = heap \ {b}
    /\ peer' = [peer EXCEPT ![connfd[b]] = NoClient]
FreeConnect(b) ==
    /\ heap' = heap \ {b}
    /\ UNCHANGED peer

\* Mutant: the place after the one erased is passed over.
AfterErase_Skips == iter' = iter + 1
AfterErase == UNCHANGED iter

\* OSA_thrDelete waits until the receiver has ended, with mutexConn held.  A
\* receiver that still runs is cancelled in its select or read.  In a block
\* that the accept thread has not got further with, the thread to be deleted
\* is not initialised either.
ReclaimNext ==
    LET b == connetVector[iter]
        c == peer[connfd[b]] IN
    /\ iter \in DOMAIN connetVector
    /\ \/ /\ bConnecting[b]
          /\ iter' = iter + 1
          /\ UNCHANGED <<peer, heap, connetVector, receiver, mine, undefined>>
       \/ /\ ~bConnecting[b]
          /\ b = pConnect
          /\ undefined' = TRUE
          /\ UNCHANGED <<peer, heap, connetVector, receiver, mine, iter>>
       \/ /\ ~bConnecting[b]
          /\ b # pConnect
          /\ receiver[c] # "closing"
          /\ receiver' = [receiver EXCEPT ![c] = "ended"]
          /\ mine' = [mine EXCEPT ![c] = NoBlock]
          /\ connetVector' = RemoveAt(connetVector, iter)
          /\ FreeConnect(b)
          /\ AfterErase
          /\ UNCHANGED undefined
    /\ UNCHANGED <<client, connfd, bConnecting, accepting, pConnect, answers,
                   asked, killed>>

ReclaimUnlock ==
    /\ iter = Len(connetVector) + 1
    /\ iter' = 0
    /\ UNCHANGED <<client, peer, block, connetVector, threads, answers, asked,
                   over>>

Reclaim == ReclaimLock \/ ReclaimNext \/ ReclaimUnlock

-----------------------------------------------------------------------------
(***************************************************************************)
(* thread_comsendEvent, for an answer to a network connection.             *)
(***************************************************************************)
\* Mutant: the last connection decides.
MaySend_Last == connetVector # <<>> /\ bConnecting[Last(connetVector)]
\* The first connection decides, whichever the answer is for.
MaySend == connetVector # <<>> /\ bConnecting[Head(connetVector)]

TakeAnswer == /\ iter = 0
              /\ answers # <<>>
              /\ answers' = Tail(answers)
              /\ UNCHANGED <<client, peer, block, connetVector, threads, iter,
                             asked, undefined>>

\* An answer written to a client that has closed its end is lost and may, as
\* SIGPIPE is left as it is, end the program.
Write == /\ MaySend
         /\ TakeAnswer
         /\ killed' \in {FALSE, client[peer[Head(answers).fd]] = "gone"}

Drop == /\ ~MaySend
        /\ TakeAnswer
        /\ UNCHANGED killed

-----------------------------------------------------------------------------
Over == undefined \/ killed

Next ==
    /\ ~Over
    /\ \/ Client
       \/ Accept \/ Push \/ Mark \/ Create
       \/ \E c \in Clients : Command(c) \/ EndOfFile(c) \/ ThreadEnds(c)
       \/ Reclaim
       \/ Write \/ Drop

Spec == Init /\ [][Next]_vars

\* Threads run.  The reclaim thread gives mutexConn back and takes it again
\* three seconds later, so one that asks for it in between gets it.
Fairness ==
    /\ SF_vars(~Over /\ Push)
    /\ WF_vars(~Over /\ (Mark \/ Create))
    /\ \A c \in Clients : WF_vars(~Over /\ (EndOfFile(c) \/ ThreadEnds(c)))
    /\ WF_vars(~Over /\ Reclaim)

FairSpec == Spec /\ Fairness

-----------------------------------------------------------------------------
(***************************************************************************)
(* Properties.                                                             *)
(***************************************************************************)

\* A connection that is in use is kept: as long as its client has not closed it
\* its receiver runs, on a block that is allocated, listed once, marked as
\* connecting and its own; and no block is freed under a running receiver.
\* The reclaim thread may come at any point of the accept and of the end.
LiveKept ==
    ~Over =>
        \A c \in Clients :
            /\ receiver[c] \in {"recv", "closing"} => mine[c] \in heap
            /\ client[c] = "open" /\ receiver[c] # "none" =>
                  /\ receiver[c] = "recv"
                  /\ peer[connfd[mine[c]]] = c
                  /\ bConnecting[mine[c]]
                  /\ Cardinality({i \in DOMAIN connetVector :
                                     connetVector[i] = mine[c]}) = 1

\* However late it is sent, an answer's descriptor leads to the client whose
\* command it answers and to no other that has connected since.
AnswersHome ==
    \A i \in DOMAIN answers : peer[answers[i].fd] = answers[i].to

\* An answer to a client that is still there is dropped only while a client
\* that connected before it has closed its end and has not been reclaimed.
DroppedOnlyBehindClosed ==
    [][Drop /\ client[Head(answers).to] = "open" =>
          /\ connetVector # <<>>
          /\ client[peer[connfd[Head(connetVector)]]] = "gone"]_vars

\* A connection that has been closed is reclaimed in the end.
ClosedReclaimed ==
    \A c \in Clients :
        (client[c] = "gone") ~> Over \/ (receiver[c] = "ended" /\ mine[c] = NoBlock)
=============================================================================
