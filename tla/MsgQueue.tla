------------------------------ MODULE MsgQueue ------------------------------
(***************************************************************************)
(* OSA_msgq (src/src/OSA_CAP/src/osa_msgq.cpp): a ring of message handles  *)
(* guarded by the mutex lock and the condition variables condRd and        *)
(* condWr.  Every dispatcher thread of the program (CMessage, DxTimer, the *)
(* OSA tasks) is the reader of one such queue.                             *)
(*                                                                         *)
(* One action is one critical section: what a thread does between taking   *)
(* lock (or getting it back inside pthread_cond_wait) and releasing it.    *)
(* A thread inside a call and in neither condRd nor condWr is contending   *)
(* for lock.  pthread_cond_signal wakes one waiter of the implementation's *)
(* choice; a woken thread competes with threads that have just called, and *)
(* POSIX allows it to wake with no signal at all.                          *)
(*                                                                         *)
(* Handles are heap blocks: OSA_memAlloc may hand out a block again as     *)
(* soon as it has been freed, and what a freed block holds is lost.        *)
(***************************************************************************)
EXTENDS Naturals, FiniteSets, Sequences

CONSTANTS Producers,          \* threads that call OSA_msgqSendMsg
          Consumers,          \* threads that call OSA_msgqRecvMsg(Ex)
          Handles,            \* addresses OSA_memAlloc can return
          Msgs,               \* what a message carries: its cmd and pPrm
          OSA_MSGQ_LEN_MAX,   \* slots of the ring
          NoHandle, NoMsg

ASSUME QueueAssumption ==
    /\ OSA_MSGQ_LEN_MAX \in Nat \ {0}
    /\ IsFiniteSet(Producers)
    /\ IsFiniteSet(Consumers)
    /\ NoHandle \notin Handles
    /\ NoMsg \notin Msgs

VARIABLES curRd, curWr, count,   \* the fields of OSA_MsgqHndl
          queue,                 \* queue[i]: the handle in slot i
          condRd, condWr,        \* threads waiting in pthread_cond_wait
          heap,                  \* allocated handles
          mem,                   \* mem[h]: the message in block h
          sending,               \* sending[p]: the handle p is sending
          call,                  \* call[c]: the receive call c is in
          held,                  \* held[c]: a handle RecvMsg gave to c
          got                    \* got[c]: the message c received last

ring == <<curRd, curWr, count, queue>>
vars == <<curRd, curWr, count, queue, condRd, condWr, heap, mem,
          sending, call, held, got>>

Slots == 0 .. OSA_MSGQ_LEN_MAX - 1

(***************************************************************************)
(* The receive calls the program makes: RecvMsgEx that waits (the          *)
(* dispatchers), RecvMsg that waits (OSA_mbxWaitMsg) and RecvMsg with      *)
(* OSA_TIMEOUT_NONE (OSA_mbxCheckMsg, OSA_mbxFlush).  Every caller passes  *)
(* a place for the message.                                                *)
(***************************************************************************)
Calls == {"RecvMsgEx", "RecvMsg", "CheckMsg"}

TypeOK ==
    /\ curRd \in Slots
    /\ curWr \in Slots
    /\ count \in 0 .. OSA_MSGQ_LEN_MAX
    /\ queue \in [Slots -> Handles \cup {NoHandle}]
    /\ condRd \in SUBSET Consumers
    /\ condWr \in SUBSET Producers
    /\ heap \in SUBSET Handles
    /\ mem \in [Handles -> Msgs \cup {NoMsg}]
    /\ sending \in [Producers -> Handles \cup {NoHandle}]
    /\ call \in [Consumers -> Calls \cup {"idle"}]
    /\ held \in [Consumers -> Handles \cup {NoHandle}]
    /\ got \in [Consumers -> Msgs \cup {NoMsg}]

-----------------------------------------------------------------------------
\* OSA_msgqCreate; the slots hold nothing the code ever reads.
Init ==
    /\ curRd = 0
    /\ curWr = 0
    /\ count = 0
    /\ queue = [i \in Slots |-> NoHandle]
    /\ condRd = {}
    /\ condWr = {}
    /\ heap = {}
    /\ mem = [h \in Handles |-> NoMsg]
    /\ sending = [p \in Producers |-> NoHandle]
    /\ call = [c \in Consumers |-> "idle"]
    /\ held = [c \in Consumers |-> NoHandle]
    /\ got = [c \in Consumers |-> NoMsg]

\* pthread_cond_signal: the possible sets of waiters after it.
AfterSignal(cond) == IF cond = {} THEN {cond} ELSE {cond \ {t} : t \in cond}

\* Mutant: a full ring that only has slots left until there are none.
HasRoom_OffByOne == count <= OSA_MSGQ_LEN_MAX
HasRoom == count < OSA_MSGQ_LEN_MAX

\* Mutant: an index that does not wrap.
Advance_NoWrap(cur) == cur + 1
Advance(cur) == (cur + 1) % OSA_MSGQ_LEN_MAX

\* Mutant: Send does not signal.
SignalRd_Never == UNCHANGED condRd
SignalRd == condRd' \in AfterSignal(condRd)

\* Mutant: the signal of a receive is left out unless the ring was full.
SignalWr_WhenFull == IF HasRoom THEN UNCHANGED condWr
                                ELSE condWr' \in AfterSignal(condWr)
\* Mutant: a receive does not signal.
SignalWr_Never == UNCHANGED condWr
SignalWr == condWr' \in AfterSignal(condWr)

\* OSA_msgqFreeMsgHndl
Free(h) == /\ heap' = heap \ {h}
           /\ mem' = [mem EXCEPT ![h] = NoMsg]

-----------------------------------------------------------------------------
\* OSA_msgqSendMsg: the block is allocated and filled before the lock is
\* taken.  A failed allocation returns OSA_EFAIL and changes nothing.
SendMsg(p, m) ==
    /\ sending[p] = NoHandle
    /\ \E h \in Handles \ heap :
          /\ heap' = heap \cup {h}
          /\ mem' = [mem EXCEPT ![h] = m]
          /\ sending' = [sending EXCEPT ![p] = h]
    /\ UNCHANGED <<ring, condRd, condWr, call, held, got>>

InSend(p) == sending[p] # NoHandle /\ p \notin condWr

\* OSA_msgqSend with room in the ring.
SendPut(p) ==
    /\ InSend(p)
    /\ HasRoom
    /\ queue' = [queue EXCEPT ![curWr] = sending[p]]
    /\ curWr' = Advance(curWr)
    /\ count' = count + 1
    /\ SignalRd
    /\ sending' = [sending EXCEPT ![p] = NoHandle]
    /\ UNCHANGED <<curRd, condWr, heap, mem, call, held, got>>

\* OSA_msgqSend on a full ring; every sender passes OSA_TIMEOUT_FOREVER.
SendBlock(p) ==
    /\ InSend(p)
    /\ ~HasRoom
    /\ condWr' = condWr \cup {p}
    /\ UNCHANGED <<ring, condRd, heap, mem, sending, call, held, got>>

-----------------------------------------------------------------------------
RecvCall(c, k) ==
    /\ call[c] = "idle"
    /\ held[c] = NoHandle
    /\ call' = [call EXCEPT ![c] = k]
    /\ UNCHANGED <<ring, condRd, condWr, heap, mem, sending, held, got>>

InRecv(c) == call[c] # "idle" /\ c \notin condRd

\* Mutant: the slot is given up and curRd stays.
TakeSlot_KeepRead ==
    /\ count' = count - 1
    /\ SignalWr
    /\ UNCHANGED <<curRd, curWr, queue, condRd, sending>>
\* The part RecvMsgEx and RecvMsg share: the slot at curRd is given up.
TakeSlot ==
    /\ curRd' = Advance(curRd)
    /\ count' = count - 1
    /\ SignalWr
    /\ UNCHANGED <<curWr, queue, condRd, sending>>

\* Mutant: the block is freed before the message is copied out.
RecvMsgEx_FreeFirst(c) ==
    /\ InRecv(c)
    /\ call[c] = "RecvMsgEx"
    /\ count > 0
    /\ Free(queue[curRd])
    /\ got' = [got EXCEPT ![c] = mem'[queue[curRd]]]
    /\ TakeSlot
    /\ call' = [call EXCEPT ![c] = "idle"]
    /\ UNCHANGED held
\* OSA_msgqRecvMsgEx copies the message out and frees its block.
RecvMsgEx(c) ==
    /\ InRecv(c)
    /\ call[c] = "RecvMsgEx"
    /\ count > 0
    /\ got' = [got EXCEPT ![c] = mem[queue[curRd]]]
    /\ Free(queue[curRd])
    /\ TakeSlot
    /\ call' = [call EXCEPT ![c] = "idle"]
    /\ UNCHANGED held

\* OSA_msgqRecvMsg hands the block itself to the caller.
RecvMsg(c) ==
    /\ InRecv(c)
    /\ call[c] \in {"RecvMsg", "CheckMsg"}
    /\ count > 0
    /\ got' = [got EXCEPT ![c] = mem[queue[curRd]]]
    /\ held' = [held EXCEPT ![c] = queue[curRd]]
    /\ TakeSlot
    /\ call' = [call EXCEPT ![c] = "idle"]
    /\ UNCHANGED <<heap, mem>>

RecvBlock(c) ==
    /\ InRecv(c)
    /\ call[c] \in {"RecvMsgEx", "RecvMsg"}
    /\ count = 0
    /\ condRd' = condRd \cup {c}
    /\ UNCHANGED <<ring, condWr, heap, mem, sending, call, held, got>>

\* OSA_TIMEOUT_NONE on an empty ring: OSA_EFAIL.
RecvFail(c) ==
    /\ InRecv(c)
    /\ call[c] = "CheckMsg"
    /\ count = 0
    /\ call' = [call EXCEPT ![c] = "idle"]
    /\ got' = [got EXCEPT ![c] = NoMsg]
    /\ UNCHANGED <<ring, condRd, condWr, heap, mem, sending, held>>

\* The receiver of a block frees it when it is done with it.
FreeMsgHndl(c) ==
    /\ held[c] # NoHandle
    /\ Free(held[c])
    /\ held' = [held EXCEPT ![c] = NoHandle]
    /\ UNCHANGED <<ring, condRd, condWr, sending, call, got>>

\* pthread_cond_wait returns with no signal.
SpuriousWakeup ==
    /\ \/ /\ \E c \in condRd : condRd' = condRd \ {c}
          /\ UNCHANGED condWr
       \/ /\ \E p \in condWr : condWr' = condWr \ {p}
          /\ UNCHANGED condRd
    /\ UNCHANGED <<ring, heap, mem, sending, call, held, got>>

-----------------------------------------------------------------------------
Producer(p) == \/ \E m \in Msgs : SendMsg(p, m)
               \/ SendPut(p)
               \/ SendBlock(p)

Consumer(c) == \/ \E k \in Calls : RecvCall(c, k)
               \/ RecvMsgEx(c)
               \/ RecvMsg(c)
               \/ RecvBlock(c)
               \/ RecvFail(c)
               \/ FreeMsgHndl(c)

Next == \/ \E p \in Producers : Producer(p)
        \/ \E c \in Consumers : Consumer(c)
        \/ SpuriousWakeup

Spec == Init /\ [][Next]_vars

(***************************************************************************)
(* Fairness: a thread that is ready to run runs, which for a thread that   *)
(* contends for lock means that the mutex is eventually granted.  Readers  *)
(* are loops around the receive call (CMessage.cpp:96, DxTimer.cpp:340,    *)
(* osa_tsk.cpp:12) and free what they hold.  Nobody has to send, and       *)
(* spurious wakeups need not happen.                                       *)
(***************************************************************************)
Fairness ==
    /\ \A p \in Producers : WF_vars(SendPut(p) \/ SendBlock(p))
    /\ \A c \in Consumers : WF_vars(Consumer(c))

FairSpec == Spec /\ Fairness

-----------------------------------------------------------------------------
(***************************************************************************)
(* Properties.                                                             *)
(***************************************************************************)

\* The slots between curRd and curWr, the only ones the code may read.
Occupied == {(curRd + i) % OSA_MSGQ_LEN_MAX : i \in 0 .. count - 1}

SentHandles   == {sending[p] : p \in Producers} \ {NoHandle}
QueuedHandles == {queue[i] : i \in Occupied}
HeldHandles   == {held[c] : c \in Consumers} \ {NoHandle}

\* The write index is where the read index will be after count receives, so
\* SendPut never overwrites a message that has not been received.
RingInv == curWr = (curRd + count) % OSA_MSGQ_LEN_MAX

\* Every allocated block has exactly one owner - a sender, a slot of the ring
\* or a receiver - and nobody holds a freed block: no message is leaked, freed
\* twice, delivered twice or read after it was freed, whatever block
\* OSA_memAlloc recycles in between.
OneOwner ==
    /\ heap = SentHandles \cup QueuedHandles \cup HeldHandles
    /\ SentHandles \cap QueuedHandles = {}
    /\ SentHandles \cap HeldHandles = {}
    /\ QueuedHandles \cap HeldHandles = {}
    /\ \A p, q \in Producers :
          sending[p] = sending[q] => p = q \/ sending[p] = NoHandle
    /\ \A c, d \in Consumers : held[c] = held[d] => c = d \/ held[c] = NoHandle
    /\ \A i, j \in Occupied : queue[i] = queue[j] => i = j

\* Only threads in a call that may wait are waiting.
WaitersInCall ==
    /\ \A c \in condRd : call[c] \in {"RecvMsgEx", "RecvMsg"}
    /\ \A p \in condWr : sending[p] # NoHandle

AwakeReceivers == {c \in Consumers : InRecv(c)}
AwakeSenders   == {p \in Producers : InSend(p)}

\* A message is never left in the ring while the threads that could take it
\* sleep: as long as a receiver waits, at least as many receivers are awake
\* inside a call as there are messages; and the same for senders and free
\* slots.  Send and receive signal one waiter each, only after the change,
\* and woken threads may find the message or the slot taken by another.
NoLostWakeup ==
    /\ condRd # {} => count <= Cardinality(AwakeReceivers)
    /\ condWr # {} => OSA_MSGQ_LEN_MAX - count <= Cardinality(AwakeSenders)

\* The ring is a FIFO of the messages the handles carry: accepted in the order
\* of the sends, delivered once and unchanged, in that order.
Fifo == INSTANCE BoundedFifo WITH
    Capacity <- OSA_MSGQ_LEN_MAX,
    fifo     <- [i \in 1 .. count |->
                    mem[queue[(curRd + i - 1) % OSA_MSGQ_LEN_MAX]]],
    outbox   <- [p \in Producers |-> IF sending[p] = NoHandle
                                     THEN NoMsg ELSE mem[sending[p]]],
    asking   <- [c \in Consumers |->
                    CASE call[c] = "idle"     -> "no"
                      [] call[c] = "CheckMsg" -> "poll"
                      [] OTHER                -> "wait"],
    result   <- got

\* Safety part of the promise: every step of the ring is a step of the FIFO or
\* invisible to it.
ImplementsFifo == Fifo!Spec

\* Liveness part: with messages waiting and receivers asking some receiver is
\* served, with room and senders sending some sender is.
ServesEventually == Fifo!FairSpec

\* A set of senders blocked on a full ring never stays as it is: each receive
\* wakes one of them.  (Which one is up to pthread_cond_signal, so a single
\* sender among several may be passed over for ever.)
BlockedSendersMove ==
    \A S \in SUBSET Producers \ {{}} : (condWr = S) ~> (condWr # S)
=============================================================================
