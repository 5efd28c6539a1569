------------------------ MODULE NetConnectionsProofs ------------------------
(***************************************************************************)
(* Theorems about NetConnections for every number of clients, blocks,      *)
(* descriptors and commands: the way an answer takes, and the list, with what *)
(* every live connection has in it.                                        *)
(***************************************************************************)
EXTENDS NetConnections, SequenceTheorems, FiniteSetTheorems, TLAPS

Running == {"recv", "closing"}

\* The part of the type invariant that the proofs use.  That the list holds
\* allocated blocks only is not part of it, nor needed.
Types ==
    /\ client \in [Clients -> {"out", "waiting", "open", "gone"}]
    /\ peer \in [Fds -> Clients \cup {NoClient}]
    /\ heap \subseteq Blocks
    /\ connfd \in [Blocks -> Fds]
    /\ accepting \in {"accept", "push", "mark", "create"}
    /\ pConnect \in Blocks \cup {NoBlock}
    /\ receiver \in [Clients -> {"none", "recv", "closing", "ended"}]
    /\ mine \in [Clients -> Blocks \cup {NoBlock}]
    /\ answers \in Seq(Answer)

\* A receiver that runs has a block that is allocated and whose descriptor
\* leads to its client.
Owned ==
    \A c \in Clients : receiver[c] \in Running =>
        /\ mine[c] \in heap
        /\ peer[connfd[mine[c]]] = c

\* So has the accept thread, from malloc until it creates the receiver.
Accepted ==
    accepting # "accept" => /\ pConnect \in heap
                            /\ peer[connfd[pConnect]] \in Clients

IInv == Types /\ Owned /\ Accepted /\ AnswersHome

-----------------------------------------------------------------------------
LEMMA InvHolds == Init => IInv
<1> SUFFICES ASSUME Init PROVE IInv
    OBVIOUS
<1>1. (CHOOSE f \in Fds : TRUE) \in Fds
    BY NetAssumption
<1>2. answers = <<>> /\ DOMAIN answers = {}
    BY DEF Init
<1>3. Types
    BY <1>1, <1>2 DEF Init, Types
<1> QED  BY <1>2, <1>3 DEF Init, IInv, Owned, Accepted, AnswersHome, Running

\* What is left of the answers when the first one has been taken, and what there
\* is when one has been added.
LEMMA TakenHome ==
    ASSUME Types, AnswersHome, answers # <<>>,
           answers' = Tail(answers), UNCHANGED peer
    PROVE  AnswersHome' /\ answers' \in Seq(Answer)
<1>1. answers \in Seq(Answer)
    BY DEF Types
<1>2. /\ answers' \in Seq(Answer)
      /\ \A j \in DOMAIN answers' : /\ j + 1 \in DOMAIN answers
                                    /\ answers'[j] = answers[j + 1]
    BY <1>1
<1>3. ASSUME NEW j \in DOMAIN answers'
      PROVE  peer'[answers'[j].fd] = answers'[j].to
    BY <1>2 DEF AnswersHome
<1> QED  BY <1>2, <1>3 DEF AnswersHome

LEMMA AddedHome ==
    ASSUME Types, AnswersHome, NEW a \in Answer, peer[a.fd] = a.to,
           answers' = Append(answers, a), UNCHANGED peer
    PROVE  AnswersHome' /\ answers' \in Seq(Answer)
<1>1. answers \in Seq(Answer)
    BY DEF Types
<1>2. /\ answers' \in Seq(Answer)
      /\ \A j \in DOMAIN answers' :
            answers'[j] = a \/ (j \in DOMAIN answers /\ answers'[j] = answers[j])
    BY <1>1
<1>3. ASSUME NEW j \in DOMAIN answers'
      PROVE  peer'[answers'[j].fd] = answers'[j].to
    BY <1>2 DEF AnswersHome
<1> QED  BY <1>2, <1>3 DEF AnswersHome

\* A descriptor that accept returns was in use for nobody, and a block that
\* malloc returns by nobody.
LEMMA AcceptKeeps == IInv /\ Accept => IInv'
<1> SUFFICES ASSUME IInv, Accept PROVE IInv'
    OBVIOUS
<1> USE DEF IInv
<1>1. PICK c \in Clients, f \in Fds, b \in Blocks \ heap :
          /\ peer[f] = NoClient
          /\ client' = [client EXCEPT ![c] = "open"]
          /\ peer' = [peer EXCEPT ![f] = c]
          /\ heap' = heap \cup {b}
          /\ connfd' = [connfd EXCEPT ![b] = f]
          /\ pConnect' = b
    BY DEF Accept
<1>2. /\ accepting' = "push"
      /\ UNCHANGED <<receiver, mine, answers>>
    BY DEF Accept
<1>3. \A g \in Fds : peer[g] \in Clients => peer'[g] = peer[g]
    BY <1>1, NetAssumption DEF Types
<1>4. Types'
    BY <1>1, <1>2 DEF Types
<1>5. Owned'
    BY <1>1, <1>2, <1>3 DEF Owned, Types
<1>6. Accepted'
    BY <1>1, <1>2 DEF Accepted, Types
<1>7. AnswersHome'
    <2>1. ASSUME NEW i \in DOMAIN answers
          PROVE  peer'[answers[i].fd] = answers[i].to
        <3>1. answers[i] \in Answer
            BY DEF Types
        <3>2. answers[i].fd \in Fds /\ answers[i].to \in Clients
            BY <3>1 DEF Answer
        <3> QED  BY <1>3, <3>2 DEF AnswersHome
    <2> QED  BY <1>2, <2>1 DEF AnswersHome
<1> QED  BY <1>4, <1>5, <1>6, <1>7

\* The reclaim thread frees the block of a receiver that it knows has ended.
LEMMA ReclaimKeeps == IInv /\ ReclaimNext => IInv'
<1> SUFFICES ASSUME IInv, ReclaimNext PROVE IInv'
    OBVIOUS
<1> USE DEF IInv
<1> DEFINE b == connetVector[iter]
           c == peer[connfd[b]]
<1>1. UNCHANGED <<client, connfd, accepting, pConnect, answers>>
    BY DEF ReclaimNext
<1>2. CASE UNCHANGED <<peer, heap, receiver, mine>>
    BY <1>1, <1>2 DEF Types, Owned, Accepted, AnswersHome
<1>3. CASE /\ b # pConnect
           /\ receiver[c] # "closing"
           /\ receiver' = [receiver EXCEPT ![c] = "ended"]
           /\ mine' = [mine EXCEPT ![c] = NoBlock]
           /\ heap' = heap \ {b}
           /\ UNCHANGED peer
    <2>1. Types'
        BY <1>1, <1>3 DEF Types
    <2>2. Owned'
        <3>1. ASSUME NEW d \in Clients, receiver'[d] \in Running
              PROVE  /\ d # c
                     /\ receiver[d] = receiver'[d]
                     /\ mine'[d] = mine[d]
            BY <1>3, <3>1 DEF Types, Running
        <3>2. ASSUME NEW d \in Clients, receiver'[d] \in Running
              PROVE  mine'[d] \in heap' /\ peer'[connfd'[mine'[d]]] = d
            BY <1>1, <1>3, <3>1, <3>2 DEF Owned
        <3> QED  BY <3>2 DEF Owned
    <2>3. Accepted'
        BY <1>1, <1>3 DEF Accepted
    <2>4. AnswersHome'
        BY <1>1, <1>3 DEF AnswersHome
    <2> QED  BY <2>1, <2>2, <2>3, <2>4
<1> QED  BY <1>2, <1>3 DEF ReclaimNext, FreeConnect

LEMMA InvKept == IInv /\ [Next]_vars => IInv'
<1> SUFFICES ASSUME IInv, [Next]_vars PROVE IInv'
    OBVIOUS
<1> USE DEF IInv
<1>1. ASSUME Client PROVE IInv'
    BY <1>1 DEF Client, Connect, Close, threads, block, Types, Owned, Accepted,
                AnswersHome
<1>2. ASSUME Push \/ Mark PROVE IInv'
    BY <1>2 DEF Push, Mark, block, Types, Owned, Accepted, AnswersHome
<1>3. ASSUME Create PROVE IInv'
    <2> DEFINE c == peer[connfd[pConnect]]
    <2>1. c \in Clients /\ pConnect \in heap
        BY <1>3 DEF Create, Accepted
    <2>2. Types'
        BY <1>3, <2>1 DEF Create, block, Types
    <2>3. Owned'
        BY <1>3, <2>1 DEF Create, block, Owned, Types
    <2> QED  BY <1>3, <2>2, <2>3 DEF Create, block, Accepted, AnswersHome
<1>4. ASSUME NEW c \in Clients, Command(c) PROVE IInv'
    <2> DEFINE a == [fd |-> connfd[mine[c]], to |-> c]
    <2>1. a \in Answer /\ peer[a.fd] = a.to
        BY <1>4 DEF Command, Owned, Running, Types, Answer
    <2>2. AnswersHome' /\ answers' \in Seq(Answer)
        <3>1. answers' = Append(answers, a) /\ UNCHANGED peer
            BY <1>4 DEF Command
        <3> HIDE DEF a
        <3> QED  BY <2>1, <3>1, AddedHome
    <2> QED  BY <1>4, <2>2 DEF Command, block, threads, Types, Owned, Accepted
<1>5. ASSUME NEW c \in Clients, EndOfFile(c) \/ ThreadEnds(c) PROVE IInv'
    BY <1>5 DEF EndOfFile, ThreadEnds, block, Types, Owned, Accepted,
                AnswersHome, Running
<1>6. ASSUME ReclaimLock \/ ReclaimUnlock PROVE IInv'
    BY <1>6 DEF ReclaimLock, ReclaimUnlock, block, threads, Types, Owned,
                Accepted, AnswersHome
<1>7. ASSUME TakeAnswer PROVE IInv'
    <2>1. AnswersHome' /\ answers' \in Seq(Answer)
        BY <1>7, TakenHome DEF TakeAnswer
    <2> QED  BY <1>7, <2>1 DEF TakeAnswer, block, threads, Types, Owned, Accepted
<1>8. ASSUME UNCHANGED vars PROVE IInv'
    BY <1>8 DEF vars, block, threads, Types, Owned, Accepted, AnswersHome
<1> QED  BY <1>1, <1>2, <1>3, <1>4, <1>5, <1>6, <1>7, <1>8, AcceptKeeps,
            ReclaimKeeps DEF Next, Reclaim, Write, Drop

-----------------------------------------------------------------------------
LEMMA SpecInv == Spec => []IInv
BY InvHolds, InvKept, PTL DEF Spec

\* An answer on its way has the descriptor of the client it is for, whoever has
\* come and gone since: with thread_netrecvEvent taking the descriptor from its
\* own block, nobody closing it and nobody freeing the block.
THEOREM AnswersGoHome == Spec => []AnswersHome
<1>1. IInv => AnswersHome
    BY DEF IInv
<1> QED  BY <1>1, SpecInv, PTL

\* No block is freed under a receiver that runs (thread_ReclaimConnect).
THEOREM NoneFreedInUse ==
    Spec => [](\A c \in Clients : receiver[c] \in Running => mine[c] \in heap)
<1>1. IInv => \A c \in Clients : receiver[c] \in Running => mine[c] \in heap
    BY DEF IInv, Owned
<1> QED  BY <1>1, SpecInv, PTL

-----------------------------------------------------------------------------
Positions(b) == {i \in DOMAIN connetVector : connetVector[i] = b}

\* The list holds allocated blocks, each once.
ListOfBlocks ==
    /\ connetVector \in Seq(heap)
    /\ iter \in 0 .. Len(connetVector) + 1
    /\ \A i, j \in DOMAIN connetVector : connetVector[i] = connetVector[j] => i = j

OtherTypes ==
    /\ bConnecting \in [Blocks -> BOOLEAN]
    /\ asked \in 0 .. MaxAsked
    /\ undefined \in BOOLEAN /\ killed \in BOOLEAN

\* The accept thread's block belongs to a client that has no receiver yet; it comes
\* into the list in one step and gets its mark in the next.
Arriving ==
    /\ accepting = "accept" <=> pConnect = NoBlock
    /\ pConnect # NoBlock =>
          /\ receiver[peer[connfd[pConnect]]] = "none"
          /\ accepting = "push" <=> Positions(pConnect) = {}
          /\ accepting = "create" => bConnecting[pConnect]
    /\ \A c \in Clients : mine[c] # NoBlock => mine[c] # pConnect

\* Every other block of the list belongs to a client that has one, and the other way
\* round.
Belongs ==
    /\ \A i \in DOMAIN connetVector :
          connetVector[i] # pConnect =>
             /\ peer[connfd[connetVector[i]]] \in Clients
             /\ mine[peer[connfd[connetVector[i]]]] = connetVector[i]
    /\ \A c \in Clients : mine[c] # NoBlock => /\ Positions(mine[c]) # {}
                                               /\ peer[connfd[mine[c]]] = c
    /\ \A c \in Clients : receiver[c] = "none" => mine[c] = NoBlock

\* A client that has not connected has no receiver; one that is there, and has one,
\* has it running and its connection marked.
Kept ==
    \A c \in Clients :
        /\ client[c] \in {"out", "waiting"} => receiver[c] = "none"
                                               /\ \A f \in Fds : peer[f] # c
        /\ client[c] = "open" /\ receiver[c] # "none" =>
              receiver[c] = "recv" /\ bConnecting[mine[c]]

LInv == /\ IInv /\ ListOfBlocks /\ OtherTypes
        /\ Arriving /\ Belongs /\ Kept

-----------------------------------------------------------------------------
\* What RemoveAt leaves.
LEMMA RemovedAt ==
    ASSUME NEW S, NEW s \in Seq(S), NEW k \in DOMAIN s
    PROVE  /\ RemoveAt(s, k) \in Seq(S)
           /\ Len(RemoveAt(s, k)) = Len(s) - 1
           /\ \A j \in 1 .. Len(s) - 1 :
                 RemoveAt(s, k)[j] = IF j < k THEN s[j] ELSE s[j + 1]
<1>1. k \in 1 .. Len(s) /\ Len(s) \in Nat
    OBVIOUS
<1> DEFINE a == SubSeq(s, 1, k - 1)
           z == SubSeq(s, k + 1, Len(s))
<1>2. a \in Seq(S) /\ Len(a) = k - 1 /\ \A j \in 1 .. k - 1 : a[j] = s[j]
    BY <1>1, SubSeqProperties
<1>3. z \in Seq(S) /\ Len(z) = Len(s) - k /\ \A j \in 1 .. Len(s) - k : z[j] = s[k + j]
    <2>1. k + 1 \in Int /\ Len(s) \in Int /\ \A i \in k + 1 .. Len(s) : s[i] \in S
        BY <1>1
    <2>2. /\ z \in Seq(S)
          /\ Len(z) = IF k + 1 <= Len(s) THEN Len(s) - (k + 1) + 1 ELSE 0
          /\ \A j \in 1 .. Len(s) - (k + 1) + 1 : z[j] = s[(k + 1) + j - 1]
        BY <2>1, SubSeqProperties
    <2> HIDE DEF z
    <2>3. \A j \in 1 .. Len(s) - k : (k + 1) + j - 1 = k + j
        BY <1>1
    <2> QED  BY <1>1, <2>2, <2>3
<1>4. /\ a \o z \in Seq(S) /\ Len(a \o z) = Len(s) - 1
      /\ \A j \in 1 .. Len(s) - 1 :
            (a \o z)[j] = IF j <= Len(a) THEN a[j] ELSE z[j - Len(a)]
    <2> HIDE DEF a, z
    <2>1. Len(a) + Len(z) = Len(s) - 1
        BY <1>1, <1>2, <1>3
    <2>2. /\ a \o z \in Seq(S) /\ Len(a \o z) = Len(a) + Len(z)
          /\ \A j \in 1 .. Len(a) + Len(z) :
                (a \o z)[j] = IF j <= Len(a) THEN a[j] ELSE z[j - Len(a)]
        BY ONLY <1>2, <1>3, ConcatProperties
    <2> QED  BY <2>1, <2>2
<1>5. ASSUME NEW j \in 1 .. Len(s) - 1
      PROVE  (a \o z)[j] = IF j < k THEN s[j] ELSE s[j + 1]
    <2> HIDE DEF a, z
    <2>1. CASE j < k
        BY <1>1, <1>2, <1>4, <2>1
    <2>2. CASE ~(j < k)
        <3>1. j - (k - 1) \in 1 .. Len(s) - k /\ k + (j - (k - 1)) = j + 1
            BY <1>1, <2>2
        <3>2. z[j - (k - 1)] = s[j + 1]
            BY <1>3, <3>1
        <3> QED  BY <1>1, <1>2, <1>4, <2>2, <3>2
    <2> QED  BY <2>1, <2>2
<1> QED  BY <1>4, <1>5 DEF RemoveAt

\* The list without one of its blocks.
LEMMA Erased ==
    ASSUME ListOfBlocks, NEW k \in DOMAIN connetVector, NEW b, b = connetVector[k],
           connetVector' = RemoveAt(connetVector, k)
    PROVE  /\ connetVector' \in Seq(heap \ {b})
           /\ Len(connetVector') = Len(connetVector) - 1
           /\ \A i, j \in DOMAIN connetVector' : connetVector'[i] = connetVector'[j] => i = j
           /\ \A j \in DOMAIN connetVector' :
                 connetVector'[j] # b
                 /\ \E i \in DOMAIN connetVector : connetVector'[j] = connetVector[i]
           /\ \A c : c # b => (Positions(c)' = {} <=> Positions(c) = {})
<1> DEFINE from(j) == IF j < k THEN j ELSE j + 1
           to(i)   == IF i < k THEN i ELSE i - 1
<1>1. connetVector \in Seq(heap) /\ DOMAIN connetVector = 1 .. Len(connetVector)
      /\ Len(connetVector) \in Nat
    BY DEF ListOfBlocks
<1>2. /\ connetVector' \in Seq(heap) /\ DOMAIN connetVector' = 1 .. Len(connetVector) - 1
      /\ Len(connetVector') = Len(connetVector) - 1
      /\ \A j \in DOMAIN connetVector' : connetVector'[j] = connetVector[from(j)]
    <2>1. /\ connetVector' \in Seq(heap)
          /\ Len(connetVector') = Len(connetVector) - 1
          /\ \A j \in 1 .. Len(connetVector) - 1 :
                connetVector'[j] = IF j < k THEN connetVector[j] ELSE connetVector[j + 1]
        BY <1>1, RemovedAt
    <2>2. DOMAIN connetVector' = 1 .. Len(connetVector) - 1
        BY <2>1
    <2> QED  BY <1>1, <2>1, <2>2
<1>3. \A j \in DOMAIN connetVector' : from(j) \in DOMAIN connetVector \ {k}
    BY <1>1, <1>2
<1>4. \A i \in DOMAIN connetVector \ {k} : to(i) \in DOMAIN connetVector' /\ from(to(i)) = i
    BY <1>1, <1>2
<1>5. \A i, j \in DOMAIN connetVector' : from(i) = from(j) => i = j
    BY <1>1, <1>2
<1> HIDE DEF from, to
<1>6. \A j \in DOMAIN connetVector' : connetVector'[j] # b
    BY <1>2, <1>3 DEF ListOfBlocks
<1>7. connetVector' \in Seq(heap \ {b})
    <2>1. \A j \in 1 .. Len(connetVector') : connetVector'[j] \in heap \ {b}
        BY <1>1, <1>2, <1>6
    <2>2. Len(connetVector') \in Nat
          /\ connetVector' = [j \in 1 .. Len(connetVector') |-> connetVector'[j]]
        BY <1>2
    <2> QED  BY ONLY <2>1, <2>2, SeqDef
<1>8. \A i, j \in DOMAIN connetVector' : connetVector'[i] = connetVector'[j] => i = j
    BY <1>2, <1>3, <1>5 DEF ListOfBlocks
<1>9. ASSUME NEW c, c # b PROVE Positions(c)' = {} <=> Positions(c) = {}
    <2>1. ASSUME NEW j \in Positions(c)' PROVE from(j) \in Positions(c)
        BY <1>2, <1>3, <2>1 DEF Positions
    <2>2. ASSUME NEW i \in Positions(c) PROVE to(i) \in Positions(c)'
        BY <1>2, <1>4, <1>9, <2>2 DEF Positions
    <2> QED  BY <2>1, <2>2
<1> QED  BY <1>2, <1>3, <1>6, <1>7, <1>8, <1>9

\* The list with one block more.
LEMMA Listed ==
    ASSUME ListOfBlocks, NEW b \in heap, Positions(b) = {},
           connetVector' = Append(connetVector, b)
    PROVE  /\ connetVector' \in Seq(heap)
           /\ Len(connetVector') = Len(connetVector) + 1
           /\ \A i, j \in DOMAIN connetVector' : connetVector'[i] = connetVector'[j] => i = j
           /\ \A j \in DOMAIN connetVector' :
                 connetVector'[j] = b
                 \/ \E i \in DOMAIN connetVector : connetVector'[j] = connetVector[i]
           /\ Positions(b)' # {}
           /\ \A c : c # b => (Positions(c)' = {} <=> Positions(c) = {})
<1>1. connetVector \in Seq(heap)
    BY DEF ListOfBlocks
<1>2. /\ connetVector' \in Seq(heap)
      /\ DOMAIN connetVector' = DOMAIN connetVector \cup {Len(connetVector) + 1}
      /\ Len(connetVector) + 1 \notin DOMAIN connetVector
      /\ Len(connetVector') = Len(connetVector) + 1
      /\ connetVector'[Len(connetVector) + 1] = b
      /\ \A i \in DOMAIN connetVector : connetVector'[i] = connetVector[i]
    BY <1>1
<1>3. \A i \in DOMAIN connetVector : connetVector[i] # b
    BY DEF Positions
<1>4. \A i, j \in DOMAIN connetVector' : connetVector'[i] = connetVector'[j] => i = j
    BY <1>2, <1>3 DEF ListOfBlocks
<1>5. Positions(b)' # {}
    BY <1>2 DEF Positions
<1>6. ASSUME NEW c, c # b PROVE Positions(c)' = {} <=> Positions(c) = {}
    BY <1>2, <1>6 DEF Positions
<1> QED  BY <1>2, <1>4, <1>5, <1>6

-----------------------------------------------------------------------------
LEMMA ListHolds == Init => LInv
<1> SUFFICES ASSUME Init PROVE LInv
    OBVIOUS
<1>1. IInv
    BY InvHolds
<1>2. /\ connetVector = <<>> /\ iter = 0 /\ accepting = "accept" /\ pConnect = NoBlock
      /\ receiver = [c \in Clients |-> "none"] /\ mine = [c \in Clients |-> NoBlock]
      /\ client = [c \in Clients |-> "out"] /\ peer = [f \in Fds |-> NoClient]
    BY DEF Init
<1>3. ListOfBlocks
    BY <1>2 DEF ListOfBlocks
<1>4. OtherTypes
    <2>1. bConnecting \in [Blocks -> BOOLEAN]
        BY DEF Init
    <2>2. asked \in 0 .. MaxAsked
        BY NetAssumption DEF Init
    <2>3. undefined \in BOOLEAN /\ killed \in BOOLEAN
        BY DEF Init
    <2> QED  BY <2>1, <2>2, <2>3 DEF OtherTypes
<1>5. Arriving /\ Kept
    BY <1>2, NetAssumption DEF Arriving, Kept
<1>6. Belongs
    BY <1>2 DEF Belongs
<1> QED  BY <1>1, <1>3, <1>4, <1>5, <1>6 DEF LInv

\* A block in the list is allocated, so it is neither the one malloc returns next nor
\* none at all.
LEMMA ListedBlocks ==
    ASSUME LInv
    PROVE  /\ \A i \in DOMAIN connetVector : connetVector[i] \in heap
           /\ \A b : Positions(b) # {} => b \in heap
           /\ \A c \in Clients : mine[c] # NoBlock => mine[c] \in heap
           /\ NoBlock \notin heap
<1>1. \A i \in DOMAIN connetVector : connetVector[i] \in heap
    BY DEF LInv, ListOfBlocks
<1>2. \A b : Positions(b) # {} => b \in heap
    BY <1>1 DEF Positions
<1> QED  BY <1>1, <1>2, NetAssumption DEF LInv, Belongs, IInv, Types

LEMMA AcceptList ==
    ASSUME LInv, Accept
    PROVE  LInv'
<1>1. IInv'
    BY AcceptKeeps DEF LInv
<1>2. PICK c \in Clients, f \in Fds, b \in Blocks \ heap, rubbish \in BOOLEAN :
          /\ client[c] = "waiting"
          /\ peer[f] = NoClient
          /\ client' = [client EXCEPT ![c] = "open"]
          /\ peer' = [peer EXCEPT ![f] = c]
          /\ heap' = heap \cup {b}
          /\ connfd' = [connfd EXCEPT ![b] = f]
          /\ bConnecting' = [bConnecting EXCEPT ![b] = rubbish]
          /\ pConnect' = b
    BY DEF Accept
<1>3. /\ accepting = "accept" /\ accepting' = "push"
      /\ UNCHANGED <<connetVector, receiver, mine, iter, answers, asked, over>>
    BY DEF Accept
<1>4. /\ Types /\ ListOfBlocks /\ OtherTypes /\ Arriving /\ Belongs /\ Kept
      /\ pConnect = NoBlock
    BY <1>3 DEF LInv, IInv, Arriving
<1>5. \A d : Positions(d)' = Positions(d)
    BY <1>3 DEF Positions
<1>6. Positions(b) = {} /\ \A d \in Clients : mine[d] # b
    <2>1. b # NoBlock /\ b \notin heap
        BY <1>2, NetAssumption
    <2> QED  BY <2>1, ListedBlocks
<1>7. peer'[connfd'[b]] = c /\ \A g \in Fds : peer[g] \in Clients => peer'[g] = peer[g]
    BY <1>2, <1>4, NetAssumption DEF Types
<1>8. ListOfBlocks'
    <2>1. connetVector \in Seq(heap \cup {b})
        BY <1>4 DEF ListOfBlocks
    <2> QED  BY <1>2, <1>3, <1>4, <2>1 DEF ListOfBlocks
<1>9. OtherTypes'
    BY <1>2, <1>3, <1>4 DEF OtherTypes, over
<1>10. receiver[c] = "none"
    BY <1>2, <1>4 DEF Kept
<1>11. Arriving'
    BY <1>2, <1>3, <1>5, <1>6, <1>7, <1>10, NetAssumption DEF Arriving
<1>12. Belongs'
    <2>1. ASSUME NEW i \in DOMAIN connetVector
          PROVE  /\ peer'[connfd'[connetVector[i]]] \in Clients
                 /\ mine[peer'[connfd'[connetVector[i]]]] = connetVector[i]
        <3>1. /\ connetVector[i] # b /\ connetVector[i] # pConnect
              /\ connetVector[i] \in Blocks
            BY <1>2, <1>4, ListedBlocks DEF Types
        <3>2. connfd'[connetVector[i]] = connfd[connetVector[i]]
              /\ connfd[connetVector[i]] \in Fds
            BY <1>2, <1>4, <3>1 DEF Types
        <3> QED  BY <1>4, <1>7, <3>1, <3>2 DEF Belongs
    <2>2. ASSUME NEW d \in Clients, mine[d] # NoBlock
          PROVE  peer'[connfd'[mine[d]]] = d
        <3>1. mine[d] # b /\ mine[d] \in Blocks
            BY <1>4, <1>6, <2>2 DEF Types
        <3>2. connfd'[mine[d]] = connfd[mine[d]] /\ connfd[mine[d]] \in Fds
            BY <1>2, <1>4, <3>1 DEF Types
        <3> QED  BY <1>4, <1>7, <2>2, <3>2 DEF Belongs
    <2> QED  BY <1>3, <1>4, <1>5, <2>1, <2>2 DEF Belongs
<1>13. Kept'
    <2>1. ASSUME NEW d \in Clients, client'[d] \in {"out", "waiting"}
          PROVE  receiver'[d] = "none" /\ \A g \in Fds : peer'[g] # d
        BY <1>2, <1>3, <1>4, <2>1 DEF Kept, Types
    <2>2. ASSUME NEW d \in Clients, client'[d] = "open", receiver'[d] # "none"
          PROVE  receiver'[d] = "recv" /\ bConnecting'[mine'[d]]
        <3>1. d # c /\ client[d] = "open" /\ receiver[d] # "none"
            BY <1>2, <1>3, <1>4, <1>10, <2>2 DEF Types
        <3>2. mine[d] # b
            BY <1>6
        <3>3. receiver[d] = "recv" /\ mine[d] \in Blocks
            BY <1>4, <3>1 DEF Kept, LInv, IInv, Owned, Running, Types
        <3> QED  BY <1>2, <1>3, <1>4, <3>1, <3>2, <3>3 DEF Kept, OtherTypes
    <2> QED  BY <2>1, <2>2 DEF Kept
<1> QED  BY <1>1, <1>8, <1>9, <1>11, <1>12, <1>13 DEF LInv

LEMMA PushList ==
    ASSUME LInv, IInv', Push
    PROVE  LInv'
<1>1. /\ accepting = "push" /\ accepting' = "mark" /\ iter = 0
      /\ connetVector' = Append(connetVector, pConnect)
      /\ UNCHANGED <<client, peer, heap, connfd, bConnecting, pConnect, receiver, mine,
                     iter, asked, undefined, killed>>
    BY DEF Push, block, over
<1>2. /\ ListOfBlocks /\ OtherTypes /\ Arriving /\ Belongs /\ Kept
      /\ pConnect # NoBlock /\ pConnect \in heap
    BY <1>1 DEF LInv, IInv, Arriving, Accepted
<1>3. Positions(pConnect) = {}
    BY <1>1, <1>2 DEF Arriving
<1>4. /\ connetVector' \in Seq(heap)
      /\ Len(connetVector') = Len(connetVector) + 1
      /\ \A i, j \in DOMAIN connetVector' : connetVector'[i] = connetVector'[j] => i = j
      /\ \A j \in DOMAIN connetVector' :
            connetVector'[j] = pConnect
            \/ \E i \in DOMAIN connetVector : connetVector'[j] = connetVector[i]
      /\ Positions(pConnect)' # {}
      /\ \A c : c # pConnect => (Positions(c)' = {} <=> Positions(c) = {})
    BY <1>1, <1>2, <1>3, Listed
<1>5. ListOfBlocks'
    BY <1>1, <1>2, <1>4 DEF ListOfBlocks
<1>6. OtherTypes' /\ Kept'
    BY <1>1, <1>2 DEF OtherTypes, Kept
<1>7. Arriving'
    BY <1>1, <1>2, <1>4 DEF Arriving
<1>8. Belongs'
    BY <1>1, <1>2, <1>4 DEF Belongs, Arriving
<1> QED  BY <1>5, <1>6, <1>7, <1>8 DEF LInv

LEMMA MarkList ==
    ASSUME LInv, IInv', Mark
    PROVE  LInv'
<1>1. /\ accepting = "mark" /\ accepting' = "create"
      /\ bConnecting' = [bConnecting EXCEPT ![pConnect] = TRUE]
      /\ UNCHANGED <<client, peer, heap, connfd, connetVector, pConnect, receiver, mine,
                     iter, asked, undefined, killed>>
    BY DEF Mark, over
<1>2. /\ ListOfBlocks /\ OtherTypes /\ Arriving /\ Belongs /\ Kept
      /\ pConnect # NoBlock /\ pConnect \in Blocks
    BY <1>1 DEF LInv, IInv, Arriving, Accepted, Types
<1>3. \A b : Positions(b)' = Positions(b)
    BY <1>1 DEF Positions
<1>4. \A b \in Blocks : bConnecting[b] => bConnecting'[b]
    BY <1>1, <1>2 DEF OtherTypes
<1>5. ListOfBlocks' /\ OtherTypes'
    BY <1>1, <1>2 DEF ListOfBlocks, OtherTypes
<1>6. Arriving'
    BY <1>1, <1>2, <1>3 DEF Arriving, OtherTypes
<1>7. Belongs'
    BY <1>1, <1>2, <1>3 DEF Belongs
<1>8. Kept'
    <2>1. ASSUME NEW c \in Clients, receiver[c] = "recv" PROVE mine[c] \in Blocks
        BY <2>1 DEF LInv, IInv, Owned, Running, Types
    <2> QED  BY <1>1, <1>2, <1>4, <2>1 DEF Kept
<1> QED  BY <1>5, <1>6, <1>7, <1>8 DEF LInv

LEMMA CreateList ==
    ASSUME LInv, IInv', Create
    PROVE  LInv'
<1> DEFINE c == peer[connfd[pConnect]]
<1>1. /\ accepting = "create" /\ accepting' = "accept" /\ pConnect' = NoBlock
      /\ receiver' = [receiver EXCEPT ![c] = "recv"]
      /\ mine' = [mine EXCEPT ![c] = pConnect]
      /\ UNCHANGED <<client, peer, heap, connfd, bConnecting, connetVector, iter, asked,
                     undefined, killed>>
    BY DEF Create, block, over
<1>2. /\ Types /\ ListOfBlocks /\ OtherTypes /\ Arriving /\ Belongs /\ Kept
      /\ pConnect # NoBlock /\ pConnect \in heap /\ c \in Clients
    BY <1>1 DEF LInv, IInv, Arriving, Accepted
<1>3. /\ Positions(pConnect) # {} /\ bConnecting[pConnect]
      /\ receiver[c] = "none" /\ mine[c] = NoBlock
    BY <1>1, <1>2 DEF Arriving, Belongs
<1>4. \A b : Positions(b)' = Positions(b)
    BY <1>1 DEF Positions
<1>5. /\ receiver'[c] = "recv" /\ mine'[c] = pConnect
      /\ \A d \in Clients \ {c} : receiver'[d] = receiver[d] /\ mine'[d] = mine[d]
    BY <1>1, <1>2 DEF Types
<1>6. connfd[pConnect] \in Fds /\ client[c] \notin {"out", "waiting"}
    BY <1>2 DEF Kept, Types
<1>7. NoBlock \notin heap
    BY ListedBlocks
<1> HIDE DEF c
<1>8. ListOfBlocks' /\ OtherTypes'
    BY <1>1, <1>2 DEF ListOfBlocks, OtherTypes
<1>9. Arriving'
    BY <1>1 DEF Arriving
<1>10. Belongs'
    <2>1. ASSUME NEW i \in DOMAIN connetVector
          PROVE  /\ peer[connfd[connetVector[i]]] \in Clients
                 /\ mine'[peer[connfd[connetVector[i]]]] = connetVector[i]
        <3>1. CASE connetVector[i] = pConnect
            BY <1>2, <1>5, <3>1 DEF c
        <3>2. CASE connetVector[i] # pConnect
            <4>1. /\ peer[connfd[connetVector[i]]] \in Clients
                  /\ mine[peer[connfd[connetVector[i]]]] = connetVector[i]
                  /\ connetVector[i] # NoBlock
                BY <1>2, <1>7, <3>2, ListedBlocks DEF Belongs
            <4> QED  BY <1>3, <1>5, <4>1
        <3> QED  BY <3>1, <3>2
    <2>2. \A d \in Clients : mine'[d] # NoBlock => /\ Positions(mine'[d]) # {}
                                                   /\ peer[connfd[mine'[d]]] = d
        BY <1>2, <1>3, <1>5 DEF Belongs, c
    <2>3. \A d \in Clients : receiver'[d] = "none" => mine'[d] = NoBlock
        BY <1>2, <1>5 DEF Belongs
    <2> QED  BY <1>1, <1>4, <2>1, <2>2, <2>3 DEF Belongs
<1>11. Kept'
    BY <1>1, <1>2, <1>3, <1>5, <1>6 DEF Kept
<1> QED  BY <1>8, <1>9, <1>10, <1>11 DEF LInv

LEMMA EndOfFileList ==
    ASSUME LInv, IInv', NEW c \in Clients, EndOfFile(c)
    PROVE  LInv'
<1>1. /\ receiver[c] = "recv" /\ client[c] = "gone"
      /\ bConnecting' = [bConnecting EXCEPT ![mine[c]] = FALSE]
      /\ receiver' = [receiver EXCEPT ![c] = "closing"]
      /\ UNCHANGED <<client, peer, heap, connfd, connetVector, accepting, pConnect,
                     mine, iter, asked, undefined, killed>>
    BY DEF EndOfFile, over
<1>2. /\ Types /\ Owned /\ ListOfBlocks /\ OtherTypes /\ Arriving /\ Belongs /\ Kept
      /\ mine[c] \in heap /\ mine[c] \in Blocks /\ peer[connfd[mine[c]]] = c
      /\ mine[c] # NoBlock
    BY <1>1, NetAssumption DEF LInv, IInv, Owned, Running, Types
<1>3. \A b : Positions(b)' = Positions(b)
    BY <1>1 DEF Positions
<1>4. \A b \in Blocks : b # mine[c] => bConnecting'[b] = bConnecting[b]
    BY <1>1, <1>2 DEF OtherTypes
<1>5. ListOfBlocks' /\ OtherTypes'
    BY <1>1, <1>2 DEF ListOfBlocks, OtherTypes
<1>6. Arriving'
    <2>1. pConnect # NoBlock => /\ pConnect # mine[c] /\ pConnect \in Blocks
                                /\ peer[connfd[pConnect]] # c
        BY <1>1, <1>2 DEF Arriving, Types
    <2> QED  BY <1>1, <1>2, <1>3, <1>4, <2>1 DEF Arriving, Types
<1>7. Belongs'
    BY <1>1, <1>2, <1>3 DEF Belongs, Types
<1>8. Kept'
    <2>1. ASSUME NEW d \in Clients, client[d] = "open", receiver'[d] # "none"
          PROVE  receiver'[d] = "recv" /\ bConnecting'[mine[d]]
        <3>1. d # c /\ receiver'[d] = receiver[d]
            BY <1>1, <1>2, <2>1 DEF Types
        <3>2. receiver[d] = "recv" /\ bConnecting[mine[d]]
            BY <1>2, <2>1, <3>1 DEF Kept
        <3>3. mine[d] # mine[c] /\ mine[d] \in Blocks
            BY <1>2, <3>1, <3>2 DEF Owned, Running, Types
        <3> QED  BY <1>4, <3>1, <3>2, <3>3
    <2>2. ASSUME NEW d \in Clients, client[d] \in {"out", "waiting"}
          PROVE  receiver'[d] = "none" /\ \A f \in Fds : peer[f] # d
        BY <1>1, <1>2, <2>2 DEF Kept, Types
    <2> QED  BY <1>1, <2>1, <2>2 DEF Kept
<1> QED  BY <1>5, <1>6, <1>7, <1>8 DEF LInv

LEMMA ThreadEndsList ==
    ASSUME LInv, IInv', NEW c \in Clients, ThreadEnds(c)
    PROVE  LInv'
<1>1. /\ receiver[c] = "closing"
      /\ receiver' = [receiver EXCEPT ![c] = "ended"]
      /\ UNCHANGED <<client, peer, heap, connfd, bConnecting, connetVector, accepting,
                     pConnect, mine, iter, asked, undefined, killed>>
    BY DEF ThreadEnds, block, over
<1>2. /\ Types /\ ListOfBlocks /\ OtherTypes /\ Arriving /\ Belongs /\ Kept
    BY DEF LInv, IInv
<1>3. \A b : Positions(b)' = Positions(b)
    BY <1>1 DEF Positions
<1>4. \A d : receiver'[d] # receiver[d] => d = c
    BY <1>1, <1>2 DEF Types
<1>5. ListOfBlocks' /\ OtherTypes'
    BY <1>1, <1>2 DEF ListOfBlocks, OtherTypes
<1>6. Arriving'
    BY <1>1, <1>2, <1>3, <1>4 DEF Arriving
<1>7. Belongs'
    BY <1>1, <1>2, <1>3 DEF Belongs, Types
<1>8. Kept'
    BY <1>1, <1>2 DEF Kept, Types
<1> QED  BY <1>5, <1>6, <1>7, <1>8 DEF LInv

\* The block that is freed is that of a client that has gone, as its mark says.
LEMMA ReclaimList ==
    ASSUME LInv, IInv', ReclaimNext
    PROVE  LInv'
<1> DEFINE b == connetVector[iter]
           c == peer[connfd[b]]
<1>1. /\ iter \in DOMAIN connetVector
      /\ UNCHANGED <<client, connfd, bConnecting, accepting, pConnect, asked, killed>>
    BY DEF ReclaimNext
<1>2. /\ Types /\ ListOfBlocks /\ OtherTypes /\ Arriving /\ Belongs /\ Kept
      /\ Len(connetVector) \in Nat /\ iter \in 1 .. Len(connetVector)
      /\ b \in heap /\ b \in Blocks /\ b # NoBlock
    BY <1>1, NetAssumption DEF LInv, IInv, ListOfBlocks, Types
<1>3. CASE UNCHANGED <<peer, heap, connetVector, receiver, mine>>
           /\ iter' \in {iter, iter + 1} /\ undefined' \in BOOLEAN
    <2>1. \A d : Positions(d)' = Positions(d)
        BY <1>3 DEF Positions
    <2>2. ListOfBlocks'
        BY <1>2, <1>3 DEF ListOfBlocks
    <2>3. OtherTypes'
        BY <1>1, <1>2, <1>3 DEF OtherTypes
    <2>4. Arriving' /\ Belongs' /\ Kept'
        BY <1>1, <1>2, <1>3, <2>1 DEF Arriving, Belongs, Kept
    <2> QED  BY <2>2, <2>3, <2>4 DEF LInv
<1>4. CASE /\ ~bConnecting[b] /\ b # pConnect
           /\ receiver' = [receiver EXCEPT ![c] = "ended"]
           /\ mine' = [mine EXCEPT ![c] = NoBlock]
           /\ connetVector' = RemoveAt(connetVector, iter)
           /\ heap' = heap \ {b}
           /\ UNCHANGED <<peer, iter, undefined>>
    <2>1. c \in Clients /\ mine[c] = b
        BY <1>1, <1>2, <1>4 DEF Belongs
    <2>2. receiver[c] # "none" /\ client[c] \notin {"open", "out", "waiting"}
        BY <1>2, <1>4, <2>1 DEF Belongs, Kept
    <2>3. /\ connetVector' \in Seq(heap \ {b})
          /\ Len(connetVector') = Len(connetVector) - 1
          /\ \A i, j \in DOMAIN connetVector' : connetVector'[i] = connetVector'[j] => i = j
          /\ \A j \in DOMAIN connetVector' :
                connetVector'[j] # b
                /\ \E i \in DOMAIN connetVector : connetVector'[j] = connetVector[i]
          /\ \A d : d # b => (Positions(d)' = {} <=> Positions(d) = {})
        BY <1>1, <1>2, <1>4, Erased DEF LInv
    <2>4. /\ receiver'[c] = "ended" /\ mine'[c] = NoBlock
          /\ \A d \in Clients \ {c} : receiver'[d] = receiver[d] /\ mine'[d] = mine[d]
        BY <1>2, <1>4, <2>1 DEF Types
    <2>5. \A d \in Clients \ {c} : mine[d] # b
        BY <1>2 DEF Belongs
    <2> HIDE DEF b, c
    <2>6. ListOfBlocks' /\ OtherTypes'
        BY <1>1, <1>2, <1>4, <2>3 DEF ListOfBlocks, OtherTypes
    <2>7. Arriving'
        BY <1>1, <1>2, <1>4, <2>2, <2>3, <2>4 DEF Arriving
    <2>8. Belongs'
        <3>1. ASSUME NEW j \in DOMAIN connetVector', connetVector'[j] # pConnect
              PROVE  /\ peer[connfd[connetVector'[j]]] \in Clients
                     /\ mine'[peer[connfd[connetVector'[j]]]] = connetVector'[j]
            <4>1. PICK i \in DOMAIN connetVector : connetVector'[j] = connetVector[i]
                BY <2>3
            <4>2. connetVector[i] # b
                BY <2>3, <4>1
            <4>3. /\ peer[connfd[connetVector[i]]] \in Clients
                  /\ mine[peer[connfd[connetVector[i]]]] = connetVector[i]
                BY <1>2, <3>1, <4>1 DEF Belongs
            <4> QED  BY <2>1, <2>4, <4>1, <4>2, <4>3
        <3>2. ASSUME NEW d \in Clients, mine'[d] # NoBlock
              PROVE  Positions(mine[d])' # {} /\ peer[connfd[mine'[d]]] = d
            <4>1. d # c /\ mine'[d] = mine[d] /\ mine[d] # b
                BY <2>4, <2>5, <3>2
            <4>2. \A e : e = mine[d] => Positions(e)' # {}
                <5>1. Positions(mine[d]) # {}
                    BY <1>2, <3>2, <4>1 DEF Belongs
                <5> QED  BY <2>3, <4>1, <5>1
            <4>3. \A e : e = mine'[d] => Positions(e)' # {}
                BY <4>1, <4>2
            <4>4. Positions(mine[d])' # {}
                BY <4>3 DEF Positions
            <4> QED  BY <1>2, <3>2, <4>1, <4>4 DEF Belongs
        <3>3. \A d \in Clients : receiver'[d] = "none" => mine'[d] = NoBlock
            BY <1>2, <2>4 DEF Belongs
        <3> QED  BY <1>1, <1>4, <3>1, <3>2, <3>3 DEF Belongs, Positions
    <2>9. Kept'
        BY <1>1, <1>2, <1>4, <2>1, <2>2, <2>4 DEF Kept
    <2> QED  BY <2>6, <2>7, <2>8, <2>9 DEF LInv
<1> QED  BY <1>2, <1>3, <1>4 DEF ReclaimNext, FreeConnect, AfterErase, OtherTypes

\* Clients come and go; a client that goes keeps its receiver for a while.
LEMMA ClientList ==
    ASSUME LInv, IInv', Client
    PROVE  LInv'
<1>1. PICK c \in Clients : Connect(c) \/ Close(c)
    BY DEF Client
<1>2. UNCHANGED <<peer, heap, connfd, bConnecting, connetVector, accepting, pConnect,
                  receiver, mine, iter, asked, undefined, killed>>
    BY DEF Client, block, threads, over
<1>3. /\ ListOfBlocks /\ OtherTypes /\ Arriving /\ Belongs /\ Kept /\ Types
    BY DEF LInv, IInv
<1>4. \A b : Positions(b)' = Positions(b)
    BY <1>2 DEF Positions
<1>5. ListOfBlocks' /\ OtherTypes' /\ Arriving'
    BY <1>2, <1>3, <1>4 DEF ListOfBlocks, OtherTypes, Arriving
<1>6. Belongs'
    BY <1>2, <1>3, <1>4 DEF Belongs, Positions
<1>7. Kept'
    BY <1>1, <1>2, <1>3 DEF Connect, Close, Kept, Types
<1> QED  BY <1>5, <1>6, <1>7 DEF LInv

\* Steps that leave clients, blocks and the list as they are.
LEMMA ElsewhereList ==
    ASSUME LInv, IInv',
           UNCHANGED <<client, peer, heap, connfd, bConnecting, connetVector, accepting,
                       pConnect, receiver, mine>>,
           iter' \in 0 .. Len(connetVector) + 1, OtherTypes'
    PROVE  LInv'
<1>1. ListOfBlocks /\ Arriving /\ Belongs /\ Kept
    BY DEF LInv
<1>2. \A b : Positions(b)' = Positions(b)
    BY DEF Positions
<1>3. ListOfBlocks' /\ Arriving' /\ Kept'
    BY <1>1, <1>2 DEF ListOfBlocks, Arriving, Kept
<1>4. Belongs'
    BY <1>1, <1>2 DEF Belongs, Positions
<1> QED  BY <1>3, <1>4 DEF LInv

LEMMA ListKept == LInv /\ [Next]_vars => LInv'
<1> SUFFICES ASSUME LInv, [Next]_vars PROVE LInv'
    OBVIOUS
<1>1. IInv'
    BY InvKept DEF LInv
<1>2. OtherTypes /\ iter \in 0 .. Len(connetVector) + 1 /\ connetVector \in Seq(heap)
    BY DEF LInv, ListOfBlocks
<1>3. ASSUME NEW c \in Clients, Command(c) PROVE LInv'
    <2>1. OtherTypes'
        BY <1>2, <1>3, NetAssumption DEF Command, block, over, OtherTypes
    <2> QED  BY <1>1, <1>2, <1>3, <2>1, ElsewhereList DEF Command, block, threads
<1>4. ASSUME ReclaimLock \/ ReclaimUnlock PROVE LInv'
    <2>1. OtherTypes'
        BY <1>2, <1>4 DEF ReclaimLock, ReclaimUnlock, block, over, OtherTypes
    <2>2. iter' \in 0 .. Len(connetVector) + 1
        BY <1>2, <1>4 DEF ReclaimLock, ReclaimUnlock
    <2> QED  BY <1>1, <1>4, <2>1, <2>2, ElsewhereList
             DEF ReclaimLock, ReclaimUnlock, block, threads
<1>5. ASSUME Write \/ Drop PROVE LInv'
    <2>1. killed' \in BOOLEAN
        BY <1>2, <1>5 DEF Write, Drop, OtherTypes
    <2>2. OtherTypes'
        BY <1>2, <1>5, <2>1 DEF Write, Drop, TakeAnswer, block, OtherTypes
    <2> QED  BY <1>1, <1>2, <1>5, <2>2, ElsewhereList
             DEF Write, Drop, TakeAnswer, block, threads
<1>6. ASSUME UNCHANGED vars PROVE LInv'
    <2>1. OtherTypes'
        BY <1>2, <1>6 DEF vars, block, OtherTypes
    <2> QED  BY <1>1, <1>2, <1>6, <2>1, ElsewhereList DEF vars, block, threads
<1> QED  BY <1>1, <1>3, <1>4, <1>5, <1>6, AcceptList, PushList, MarkList, CreateList,
            EndOfFileList, ThreadEndsList, ReclaimList, ClientList DEF Next, Reclaim

LEMMA SpecList == Spec => []LInv
BY ListHolds, ListKept, PTL DEF Spec

-----------------------------------------------------------------------------
\* Types, among them that connetVector lists allocated blocks only and that the
\* reclaim thread's place in it is never beyond its end, whatever it has erased.
THEOREM TypeCorrect == Spec => []TypeOK
<1>1. ASSUME LInv PROVE TypeOK
    <2>1. {undefined, killed} \subseteq BOOLEAN
        BY <1>1 DEF LInv, OtherTypes
    <2> QED  BY <1>1, <2>1 DEF LInv, IInv, Types, ListOfBlocks, OtherTypes, TypeOK
<1> QED  BY <1>1, SpecList, PTL

\* A connection in use is kept: thread_ReclaimConnect never takes a connection that
\* thread_Getaccept is still entering, or whose client has not closed it, for an
\* ended one, and never frees a block twice or under its receiver.
THEOREM LiveIsKept == Spec => []LiveKept
<1>1. ASSUME LInv PROVE LiveKept
    <2>1. Types /\ Owned /\ ListOfBlocks /\ Belongs /\ Kept
        BY <1>1 DEF LInv, IInv
    <2>2. ASSUME NEW c \in Clients, client[c] = "open", receiver[c] # "none"
          PROVE  /\ receiver[c] = "recv"
                 /\ peer[connfd[mine[c]]] = c
                 /\ bConnecting[mine[c]]
                 /\ Cardinality(Positions(mine[c])) = 1
        <3>1. receiver[c] = "recv" /\ bConnecting[mine[c]]
            BY <2>1, <2>2 DEF Kept
        <3>2. mine[c] # NoBlock /\ peer[connfd[mine[c]]] = c
            BY <2>1, <3>1, NetAssumption DEF Owned, Running, Types
        <3>3. PICK i \in DOMAIN connetVector : connetVector[i] = mine[c]
            BY <2>1, <3>2 DEF Belongs, Positions
        <3>4. Positions(mine[c]) = {i}
            BY <2>1, <3>3 DEF ListOfBlocks, Positions
        <3> QED  BY <3>1, <3>2, <3>4, FS_Singleton
    <2>3. \A c \in Clients : receiver[c] \in {"recv", "closing"} => mine[c] \in heap
        BY <2>1 DEF Owned, Running
    <2> QED  BY <2>2, <2>3 DEF LiveKept, Positions
<1> QED  BY <1>1, SpecList, PTL
-----------------------------------------------------------------------------
(***************************************************************************)
(* Which answers are dropped.                                              *)
(***************************************************************************)
\* An answer is for a client whose receiver has been created.
Heard == \A i \in DOMAIN answers : receiver[answers[i].to] # "none"

\* The accept thread's block is the last of the list.
LastIn ==
    \A i \in DOMAIN connetVector : connetVector[i] = pConnect => i = Len(connetVector)

LEMMA ReceiversStay ==
    ASSUME LInv, [Next]_vars, NEW d \in Clients, receiver[d] # "none"
    PROVE  receiver'[d] # "none"
<1>1. receiver \in [Clients -> {"none", "recv", "closing", "ended"}]
    BY DEF LInv, IInv, Types
<1>2. ASSUME UNCHANGED receiver PROVE receiver'[d] # "none"
    BY <1>2
<1>3. ASSUME NEW c, NEW r \in {"recv", "closing", "ended"}, receiver' = [receiver EXCEPT ![c] = r]
      PROVE  receiver'[d] # "none"
    BY <1>1, <1>3
<1>4. CASE Create
    BY <1>3, <1>4 DEF Create
<1>5. CASE \E c \in Clients : EndOfFile(c) \/ ThreadEnds(c)
    BY <1>3, <1>5 DEF EndOfFile, ThreadEnds
<1>6. CASE ReclaimNext
    BY <1>2, <1>3, <1>6 DEF ReclaimNext
<1>7. CASE Accept \/ Push \/ Mark \/ Client \/ Write \/ Drop \/ ReclaimLock \/ ReclaimUnlock
           \/ UNCHANGED vars \/ \E c \in Clients : Command(c)
    <2>1. UNCHANGED receiver
        BY <1>7 DEF Accept, Push, Mark, Client, Write, Drop, TakeAnswer, ReclaimLock,
                    ReclaimUnlock, Command, vars, threads
    <2> QED  BY <1>2, <2>1
<1> QED  BY <1>4, <1>5, <1>6, <1>7 DEF Next, Reclaim

LEMMA HeardKept ==
    ASSUME LInv, Heard, [Next]_vars
    PROVE  Heard'
<1>1. answers \in Seq(Answer)
    BY DEF LInv, IInv, Types
<1>2. \A i \in DOMAIN answers : receiver'[answers[i].to] # "none"
    <2>1. ASSUME NEW i \in DOMAIN answers PROVE answers[i].to \in Clients
        <3>1. answers[i] \in Answer
            BY <1>1
        <3> QED  BY <3>1 DEF Answer
    <2> QED  BY <2>1, ReceiversStay DEF Heard
<1>3. CASE UNCHANGED answers
    BY <1>2, <1>3 DEF Heard
<1>4. ASSUME NEW c \in Clients, Command(c) PROVE Heard'
    <2> DEFINE a == [fd |-> connfd[mine[c]], to |-> c]
    <2>1. receiver'[c] # "none" /\ answers' = Append(answers, a)
        BY <1>4 DEF Command, threads
    <2>2. a.to = c
        OBVIOUS
    <2>3. ASSUME NEW i \in DOMAIN answers' PROVE receiver'[answers'[i].to] # "none"
        <3> HIDE DEF a
        <3>1. answers'[i] = a \/ (i \in DOMAIN answers /\ answers'[i] = answers[i])
            BY <1>1, <2>1
        <3> QED  BY <1>2, <2>1, <2>2, <3>1
    <2> QED  BY <2>3 DEF Heard
<1>5. CASE Write \/ Drop
    <2>1. answers # <<>> /\ answers' = Tail(answers)
        BY <1>5 DEF Write, Drop, TakeAnswer
    <2>2. ASSUME NEW i \in DOMAIN answers'
          PROVE  i + 1 \in DOMAIN answers /\ answers'[i] = answers[i + 1]
        BY <1>1, <2>1
    <2> QED  BY <1>2, <2>2 DEF Heard
<1>6. CASE Client \/ Accept \/ Push \/ Mark \/ Create \/ Reclaim \/ UNCHANGED vars
           \/ \E c \in Clients : EndOfFile(c) \/ ThreadEnds(c)
    BY <1>3, <1>6 DEF Client, Accept, Push, Mark, Create, Reclaim, ReclaimLock, ReclaimNext,
                      ReclaimUnlock, EndOfFile, ThreadEnds, vars
<1> QED  BY <1>4, <1>5, <1>6 DEF Next

LEMMA LastKept ==
    ASSUME LInv, LastIn, [Next]_vars
    PROVE  LastIn'
<1>1. /\ connetVector \in Seq(heap) /\ Len(connetVector) \in Nat
      /\ DOMAIN connetVector = 1 .. Len(connetVector)
      /\ heap \subseteq Blocks /\ Arriving /\ ListOfBlocks
    BY DEF LInv, IInv, Types, ListOfBlocks
<1>2. CASE UNCHANGED <<connetVector, pConnect>>
    BY <1>2 DEF LastIn
<1>3. ASSUME UNCHANGED connetVector, pConnect' \notin heap PROVE LastIn'
    BY <1>1, <1>3 DEF LastIn
<1>4. CASE Accept
    BY <1>3, <1>4 DEF Accept
<1>5. CASE Create
    BY <1>1, <1>3, <1>5, NetAssumption DEF Create
<1>6. CASE Push
    <2>1. connetVector' = Append(connetVector, pConnect) /\ UNCHANGED pConnect
          /\ Positions(pConnect) = {}
        <3>1. accepting = "push" /\ accepting # "accept"
            BY <1>6 DEF Push
        <3> QED  BY <1>1, <1>6, <3>1 DEF Push, Arriving
    <2>2. \A i \in DOMAIN connetVector : connetVector[i] # pConnect
        BY <2>1 DEF Positions
    <2>3. ASSUME NEW i \in DOMAIN connetVector', connetVector'[i] = pConnect
          PROVE  i = Len(connetVector')
        <3>1. Len(connetVector') = Len(connetVector) + 1 /\ i \in 1 .. Len(connetVector) + 1
            BY <1>1, <2>1, AppendProperties
        <3>2. i \in 1 .. Len(connetVector) => connetVector'[i] = connetVector[i]
            BY <1>1, <2>1
        <3> QED  BY <1>1, <2>2, <2>3, <3>1, <3>2
    <2> QED  BY <2>1, <2>3 DEF LastIn
<1>7. CASE ReclaimNext
    <2>1. UNCHANGED pConnect /\ iter \in DOMAIN connetVector
        BY <1>7 DEF ReclaimNext
    <2>2. CASE UNCHANGED connetVector
        BY <1>2, <2>1, <2>2
    <2>3. CASE /\ connetVector' = RemoveAt(connetVector, iter)
               /\ connetVector[iter] # pConnect
        <3>1. /\ Len(connetVector') = Len(connetVector) - 1
              /\ connetVector' \in Seq(heap)
              /\ \A j \in 1 .. Len(connetVector) - 1 :
                    connetVector'[j] = IF j < iter THEN connetVector[j]
                                                   ELSE connetVector[j + 1]
            BY <1>1, <2>1, <2>3, RemovedAt
        <3>2. ASSUME NEW j \in DOMAIN connetVector', connetVector'[j] = pConnect
              PROVE  j = Len(connetVector')
            <4>1. j \in 1 .. Len(connetVector) - 1 /\ iter \in 1 .. Len(connetVector)
                BY <1>1, <2>1, <3>1
            <4>2. CASE j < iter
                <5>1. connetVector[j] = pConnect /\ j \in DOMAIN connetVector
                    BY <1>1, <3>1, <3>2, <4>1, <4>2
                <5>2. j = Len(connetVector)
                    BY <5>1 DEF LastIn
                <5> QED  BY <1>1, <4>1, <5>2
            <4>3. CASE ~(j < iter)
                <5>1. connetVector[j + 1] = pConnect /\ j + 1 \in DOMAIN connetVector
                    BY <1>1, <3>1, <3>2, <4>1, <4>3
                <5>2. j + 1 = Len(connetVector)
                    BY <5>1 DEF LastIn
                <5> QED  BY <1>1, <3>1, <4>1, <5>2
            <4> QED  BY <4>2, <4>3
        <3> QED  BY <2>1, <3>2 DEF LastIn
    <2> QED  BY <1>7, <2>2, <2>3 DEF ReclaimNext
<1>8. CASE Client \/ Mark \/ Write \/ Drop \/ ReclaimLock \/ ReclaimUnlock \/ UNCHANGED vars
           \/ \E c \in Clients : Command(c) \/ EndOfFile(c) \/ ThreadEnds(c)
    BY <1>2, <1>8 DEF Client, Mark, Write, Drop, TakeAnswer, ReclaimLock, ReclaimUnlock,
                      Command, EndOfFile, ThreadEnds, vars, threads
<1> QED  BY <1>4, <1>5, <1>6, <1>7, <1>8 DEF Next, Reclaim

\* The client of an answer is in the list and marked, so that the list is not empty; the
\* first of the list is not that of the accept thread, which is behind it.
LEMMA DroppedBehind ==
    ASSUME LInv, Heard, LastIn, Drop, client[Head(answers).to] = "open"
    PROVE  /\ connetVector # <<>>
           /\ client[peer[connfd[Head(connetVector)]]] = "gone"
<1> DEFINE c == Head(answers).to
           b == Head(connetVector)
           d == peer[connfd[b]]
<1>1. /\ connetVector \in Seq(heap) /\ Len(connetVector) \in Nat
      /\ DOMAIN connetVector = 1 .. Len(connetVector)
      /\ Types /\ Arriving /\ Belongs /\ Kept /\ Owned
    BY DEF LInv, IInv, ListOfBlocks
<1>2. c \in Clients /\ receiver[c] # "none" /\ client[c] = "open"
    <2>1. answers # <<>> /\ answers \in Seq(Answer)
        BY <1>1 DEF Drop, TakeAnswer, Types
    <2>2. 1 \in DOMAIN answers /\ Head(answers) = answers[1] /\ Head(answers) \in Answer
        BY <2>1
    <2> QED  BY <2>2 DEF Heard, Answer
<1> HIDE DEF c
<1>3. receiver[c] = "recv" /\ bConnecting[mine[c]] /\ mine[c] # NoBlock
    BY <1>1, <1>2, NetAssumption DEF Kept, Owned, Running, Types
<1>4. PICK i \in DOMAIN connetVector : connetVector[i] = mine[c]
    BY <1>1, <1>2, <1>3 DEF Belongs, Positions
<1>5. connetVector # <<>> /\ b = connetVector[1] /\ 1 \in DOMAIN connetVector
    BY <1>1, <1>4
<1>6. b # pConnect
    <2> SUFFICES ASSUME b = pConnect PROVE FALSE
        OBVIOUS
    <2>1. Len(connetVector) = 1
        BY <1>5 DEF LastIn
    <2>2. i = 1
        BY <1>1, <1>4, <2>1
    <2>3. mine[c] = pConnect
        BY <1>4, <1>5, <2>2
    <2> QED  BY <1>1, <1>2, <1>3, <2>3 DEF Arriving
<1>7. ~bConnecting[b]
    BY <1>5 DEF Drop, MaySend
<1>8. d \in Clients /\ mine[d] = b /\ b # NoBlock
    <2>1. b \in heap /\ heap \subseteq Blocks
        BY <1>1, <1>5 DEF Types
    <2> QED  BY <1>1, <1>5, <1>6, <2>1, NetAssumption DEF Belongs
<1> HIDE DEF b, d
<1>9. receiver[d] # "none" /\ client[d] # "open"
    BY <1>1, <1>7, <1>8 DEF Belongs, Kept
<1>10. client[d] = "gone"
    BY <1>1, <1>8, <1>9 DEF Kept, Types
<1> QED  BY <1>5, <1>10 DEF b, d

\* An answer to a client that is still there is dropped only when the first connection
\* of the list is one that its client has closed (thread_comsendEvent asks the first).
THEOREM DroppedBehindClosed == Spec => DroppedOnlyBehindClosed
<1>1. Init => LInv /\ Heard /\ LastIn
    BY ListHolds DEF Init, Heard, LastIn
<1>2. LInv /\ Heard /\ LastIn /\ [Next]_vars => (LInv /\ Heard /\ LastIn)'
    BY ListKept, HeardKept, LastKept
<1>3. LInv /\ Heard /\ LastIn /\ [Next]_vars =>
          [Drop /\ client[Head(answers).to] = "open" =>
              /\ connetVector # <<>>
              /\ client[peer[connfd[Head(connetVector)]]] = "gone"]_vars
    BY DroppedBehind
<1> QED  BY <1>1, <1>2, <1>3, PTL DEF Spec, DroppedOnlyBehindClosed
=============================================================================
