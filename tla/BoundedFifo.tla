---------------------------- MODULE BoundedFifo ----------------------------
(***************************************************************************)
(* What a message queue of the OSA library promises to the threads that    *)
(* share it, with no ring, lock, condition variable or heap in sight: a    *)
(* message a sender submits is accepted once, at the tail, when there is   *)
(* room; a receiver gets the message at the head; a receiver that only     *)
(* polls is told when there is none.  MsgQueue implements this module.     *)
(***************************************************************************)
EXTENDS Naturals, Sequences

CONSTANTS Producers,   \* threads that send
          Consumers,   \* threads that receive
          Msgs,        \* what a message carries (its cmd and pPrm)
          NoMsg,       \* the absence of a message
          Capacity     \* how many accepted messages may be waiting

VARIABLES fifo,        \* accepted and not yet delivered, oldest first
          outbox,      \* outbox[p]: the message p is sending, or NoMsg
          asking,      \* asking[c]: "no", "wait" (FOREVER) or "poll" (NONE)
          result       \* result[c]: what the last finished receive returned

vars == <<fifo, outbox, asking, result>>

Init == /\ fifo = <<>>
        /\ outbox = [p \in Producers |-> NoMsg]
        /\ asking = [c \in Consumers |-> "no"]
        /\ result = [c \in Consumers |-> NoMsg]

Submit(p, m) == /\ outbox[p] = NoMsg
                /\ outbox' = [outbox EXCEPT ![p] = m]
                /\ UNCHANGED <<fifo, asking, result>>

Accept(p) == /\ outbox[p] # NoMsg
             /\ Len(fifo) < Capacity
             /\ fifo' = Append(fifo, outbox[p])
             /\ outbox' = [outbox EXCEPT ![p] = NoMsg]
             /\ UNCHANGED <<asking, result>>

Ask(c, how) == /\ asking[c] = "no"
               /\ asking' = [asking EXCEPT ![c] = how]
               /\ UNCHANGED <<fifo, outbox, result>>

Deliver(c) == /\ asking[c] # "no"
              /\ fifo # <<>>
              /\ result' = [result EXCEPT ![c] = Head(fifo)]
              /\ fifo' = Tail(fifo)
              /\ asking' = [asking EXCEPT ![c] = "no"]
              /\ UNCHANGED outbox

Refuse(c) == /\ asking[c] = "poll"
             /\ fifo = <<>>
             /\ result' = [result EXCEPT ![c] = NoMsg]
             /\ asking' = [asking EXCEPT ![c] = "no"]
             /\ UNCHANGED <<fifo, outbox>>

Next == \/ \E p \in Producers : Accept(p) \/ \E m \in Msgs : Submit(p, m)
        \/ \E c \in Consumers : \/ Deliver(c)
                                \/ Refuse(c)
                                \/ \E how \in {"wait", "poll"} : Ask(c, how)

Spec == Init /\ [][Next]_vars

\* Whenever messages wait and someone asks, some receiver is served; whenever
\* there is room and someone sends, some sender is served.
FairSpec == /\ Spec
            /\ WF_vars(\E c \in Consumers : Deliver(c))
            /\ WF_vars(\E p \in Producers : Accept(p))
=============================================================================
