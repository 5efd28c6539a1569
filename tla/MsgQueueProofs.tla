--------------------------- MODULE MsgQueueProofs ---------------------------
(***************************************************************************)
(* Theorems about MsgQueue for every number of threads, messages, handles  *)
(* and slots: its types and its ring, the wakeups of its two conditions,   *)
(* the owner of every block, and that the ring is a FIFO.                  *)
(***************************************************************************)
EXTENDS MsgQueue, FiniteSetTheorems, SequenceTheorems, TLAPS

L == OSA_MSGQ_LEN_MAX

\* Up to twice the length, the remainder is one conditional subtraction.
LEMMA ModL ==
    ASSUME NEW a \in Nat, a < 2 * L
    PROVE  a % L = IF a < L THEN a ELSE a - L
<1>1. L \in Nat /\ L > 0
    BY QueueAssumption DEF L
<1>2. CASE a < L
    BY <1>1, <1>2
<1>3. CASE a >= L
    <2>1. a - L \in Nat /\ a - L < L
        BY <1>1, <1>3
    <2> QED  BY <1>1, <1>3, <2>1
<1> QED  BY <1>1, <1>2, <1>3

LEMMA AdvanceInSlots ==
    ASSUME NEW cur \in Slots
    PROVE  /\ Advance(cur) \in Slots
           /\ Advance(cur) = IF cur + 1 = L THEN 0 ELSE cur + 1
BY ModL, QueueAssumption DEF Advance, Slots, L

LEMMA AfterSignalSubset ==
    ASSUME NEW cond, NEW next \in AfterSignal(cond)
    PROVE  next \subseteq cond
BY DEF AfterSignal


-----------------------------------------------------------------------------
(***************************************************************************)
(* The n slots from rd on, and how far behind rd a slot lies.              *)
(***************************************************************************)
Window(rd, n) == {(rd + i) % L : i \in 0 .. n - 1}
Behind(rd, s) == IF s >= rd THEN s - rd ELSE s + L - rd

LEMMA WindowMember ==
    ASSUME NEW rd \in Slots, NEW n \in 0 .. L, NEW s \in Slots
    PROVE  s \in Window(rd, n) <=> Behind(rd, s) < n
<1>1. L \in Nat /\ L > 0 /\ Slots = 0 .. L - 1
    BY QueueAssumption DEF L, Slots
<1>2. ASSUME s \in Window(rd, n) PROVE Behind(rd, s) < n
    <2>1. PICK i \in 0 .. n - 1 : s = (rd + i) % L
        BY <1>2 DEF Window
    <2>2. s = IF rd + i < L THEN rd + i ELSE rd + i - L
        BY <1>1, <2>1, ModL
    <2> QED  BY <1>1, <2>1, <2>2 DEF Behind
<1>3. ASSUME Behind(rd, s) < n PROVE s \in Window(rd, n)
    <2> DEFINE i == Behind(rd, s)
    <2>1. i \in 0 .. n - 1
        BY <1>1, <1>3 DEF Behind
    <2>2. rd + i = s \/ rd + i = s + L
        BY <1>1 DEF Behind
    <2> DEFINE k == rd + i
    <2>3. k \in Nat /\ k < 2 * L
        BY <1>1, <2>1
    <2> HIDE DEF k
    <2>4. k % L = IF k < L THEN k ELSE k - L
        BY <2>3, ModL
    <2>5. (rd + i) % L = s
        BY <1>1, <2>1, <2>2, <2>4 DEF k
    <2> QED  BY <2>1, <2>5 DEF Window
<1> QED  BY <1>2, <1>3

LEMMA WindowInSlots ==
    ASSUME NEW rd \in Slots, NEW n \in 0 .. L
    PROVE  Window(rd, n) \subseteq Slots
<1>1. L \in Nat /\ L > 0 /\ Slots = 0 .. L - 1
    BY QueueAssumption DEF L, Slots
<1>2. ASSUME NEW i \in 0 .. n - 1 PROVE (rd + i) % L \in Slots
    BY <1>1, <1>2, ModL
<1> QED  BY <1>2 DEF Window

\* Writing at the end of the window makes it one slot longer.
LEMMA WindowGrows ==
    ASSUME NEW rd \in Slots, NEW n \in 0 .. L - 1,
           NEW wr \in Slots, wr = (rd + n) % L
    PROVE  /\ wr \notin Window(rd, n)
           /\ Window(rd, n + 1) = Window(rd, n) \cup {wr}
           /\ Advance(wr) = (rd + (n + 1)) % L
<1>1. L \in Nat /\ L > 0 /\ Slots = 0 .. L - 1
    BY QueueAssumption DEF L, Slots
<1>2. wr = IF rd + n < L THEN rd + n ELSE rd + n - L
    BY <1>1, ModL
<1>3. Behind(rd, wr) = n
    BY <1>1, <1>2 DEF Behind
<1>4. ASSUME NEW s \in Slots
      PROVE  Behind(rd, s) < n + 1 <=> (Behind(rd, s) < n \/ s = wr)
    BY <1>1, <1>2 DEF Behind
<1>5. Window(rd, n + 1) \subseteq Slots /\ Window(rd, n) \subseteq Slots
    BY <1>1, WindowInSlots
<1>6. \A s \in Slots : /\ s \in Window(rd, n) <=> Behind(rd, s) < n
                       /\ s \in Window(rd, n + 1) <=> Behind(rd, s) < n + 1
    BY <1>1, WindowMember
<1>7. Advance(wr) = (rd + (n + 1)) % L
    <2>1. Advance(wr) = IF wr + 1 = L THEN 0 ELSE wr + 1
        BY AdvanceInSlots
    <2> DEFINE k == rd + (n + 1)
    <2>2. k \in Nat /\ k < 2 * L
        BY <1>1
    <2>3. Advance(wr) = IF k < L THEN k ELSE k - L
        BY <1>1, <1>2, <2>1
    <2> HIDE DEF k
    <2>4. k % L = IF k < L THEN k ELSE k - L
        BY <2>2, ModL
    <2>5. Advance(wr) = k % L
        BY <2>3, <2>4
    <2> QED  BY <2>5 DEF k
<1>8. wr \notin Window(rd, n)
    <2>1. ~(Behind(rd, wr) < n)
        BY <1>1, <1>3
    <2> QED  BY <1>6, <2>1
<1>9. Window(rd, n + 1) = Window(rd, n) \cup {wr}
    BY <1>4, <1>5, <1>6
<1> QED  BY <1>7, <1>8, <1>9

\* Reading at the start of the window makes it one slot shorter.
LEMMA WindowShrinks ==
    ASSUME NEW rd \in Slots, NEW n \in 1 .. L
    PROVE  /\ rd \in Window(rd, n)
           /\ Window(Advance(rd), n - 1) = Window(rd, n) \ {rd}
           /\ (Advance(rd) + (n - 1)) % L = (rd + n) % L
<1>1. L \in Nat /\ L > 0 /\ Slots = 0 .. L - 1
    BY QueueAssumption DEF L, Slots
<1> DEFINE nx == Advance(rd)
<1>2. nx \in Slots /\ nx = IF rd + 1 = L THEN 0 ELSE rd + 1
    BY AdvanceInSlots
<1>3. ASSUME NEW s \in Slots
      PROVE  Behind(nx, s) < n - 1 <=> (Behind(rd, s) < n /\ s # rd)
    BY <1>1, <1>2 DEF Behind
<1>4. Window(nx, n - 1) \subseteq Slots /\ Window(rd, n) \subseteq Slots
    BY <1>1, <1>2, WindowInSlots
<1>5. \A s \in Slots : /\ s \in Window(rd, n) <=> Behind(rd, s) < n
                       /\ s \in Window(nx, n - 1) <=> Behind(nx, s) < n - 1
    BY <1>1, <1>2, WindowMember
<1>6. Behind(rd, rd) < n
    BY <1>1 DEF Behind
<1>7. (nx + (n - 1)) % L = (rd + n) % L
    <2>1. (rd + n) % L = IF rd + n < L THEN rd + n ELSE rd + n - L
        BY <1>1, ModL
    <2> DEFINE k == nx + (n - 1)
    <2>2. k \in Nat /\ k < 2 * L
        BY <1>1, <1>2
    <2>3. (rd + n) % L = IF k < L THEN k ELSE k - L
        BY <1>1, <1>2, <2>1
    <2> HIDE DEF k
    <2>4. k % L = IF k < L THEN k ELSE k - L
        BY <2>2, ModL
    <2>5. k % L = (rd + n) % L
        BY <2>3, <2>4
    <2> QED  BY <2>5 DEF k
<1> HIDE DEF nx
<1>8. Window(nx, n - 1) = Window(rd, n) \ {rd}
    BY <1>3, <1>4, <1>5
<1> QED  BY <1>5, <1>6, <1>7, <1>8 DEF nx

-----------------------------------------------------------------------------
(***************************************************************************)
(* The inductive invariant.  TypeOK alone is not inductive: a receive      *)
(* reads mem at queue[curRd], which is a handle only because the slots     *)
(* between curRd and curWr have been written, and those are the count      *)
(* slots of the window only because of RingInv.                            *)
(***************************************************************************)
SlotsHoldHandles == \A i \in Occupied : queue[i] \in Handles

RingOK == /\ curRd \in Slots
          /\ curWr \in Slots
          /\ count \in 0 .. OSA_MSGQ_LEN_MAX
          /\ queue \in [Slots -> Handles \cup {NoHandle}]
          /\ RingInv
          /\ SlotsHoldHandles

IInv == TypeOK /\ RingInv /\ SlotsHoldHandles

LEMMA OccupiedIsWindow == Occupied = Window(curRd, count)
BY DEF Occupied, Window, L

\* Storing a handle at curWr keeps the ring in order.
LEMMA PutKeepsRing ==
    ASSUME RingOK, HasRoom, NEW h \in Handles,
           queue' = [queue EXCEPT ![curWr] = h],
           curWr' = Advance(curWr), count' = count + 1, curRd' = curRd
    PROVE  RingOK'
<1> USE QueueAssumption DEF RingOK
<1>1. count \in 0 .. L - 1 /\ count' \in 0 .. L
    BY DEF HasRoom, L
<1>2. curWr = (curRd + count) % L
    BY DEF RingInv, L
<1>3. /\ Window(curRd, count') = Window(curRd, count) \cup {curWr}
      /\ curWr' = (curRd + count') % L
    BY <1>1, <1>2, WindowGrows
<1>4. curWr' \in Slots
    BY AdvanceInSlots
<1>5. RingInv'
    BY <1>3 DEF RingInv, L
<1>6. Occupied' = Occupied \cup {curWr}
    BY <1>3, OccupiedIsWindow DEF Occupied, Window, L
<1>7. Occupied \subseteq Slots
    BY WindowInSlots, OccupiedIsWindow DEF L
<1>8. SlotsHoldHandles'
    BY <1>6, <1>7 DEF SlotsHoldHandles
<1>9. queue' \in [Slots -> Handles \cup {NoHandle}]
    OBVIOUS
<1> QED  BY <1>1, <1>4, <1>5, <1>8, <1>9 DEF L

\* The slot a receive reads holds a handle, and giving it up keeps the ring in
\* order.
LEMMA TakeKeepsRing ==
    ASSUME RingOK, count > 0,
           curRd' = Advance(curRd), count' = count - 1,
           curWr' = curWr, queue' = queue
    PROVE  /\ RingOK'
           /\ queue[curRd] \in Handles
           /\ curRd \in Occupied
           /\ Occupied' = Occupied \ {curRd}
<1> USE QueueAssumption DEF RingOK
<1>1. count \in 1 .. L /\ count' \in 0 .. L
    BY DEF L
<1>2. /\ curRd \in Window(curRd, count)
      /\ Window(curRd', count') = Window(curRd, count) \ {curRd}
      /\ (curRd' + count') % L = (curRd + count) % L
    BY <1>1, WindowShrinks
<1>3. curRd' \in Slots
    BY AdvanceInSlots
<1>4. RingInv'
    BY <1>2 DEF RingInv, L
<1>5. curRd \in Occupied /\ Occupied' = Occupied \ {curRd}
    BY <1>2, OccupiedIsWindow DEF Occupied, Window, L
<1>6. queue[curRd] \in Handles /\ SlotsHoldHandles'
    BY <1>5 DEF SlotsHoldHandles
<1> QED  BY <1>1, <1>3, <1>4, <1>5, <1>6 DEF L

LEMMA RingFrame ==
    ASSUME RingOK, UNCHANGED ring
    PROVE  RingOK' /\ Occupied' = Occupied
BY DEF RingOK, ring, RingInv, SlotsHoldHandles, Occupied

LEMMA InvHolds == Init => IInv
<1> SUFFICES ASSUME Init PROVE IInv
    OBVIOUS
<1> USE QueueAssumption DEF Init
<1>1. 0 \in Slots
    BY DEF Slots
<1>2. TypeOK
    BY <1>1 DEF TypeOK
<1>3. (0 + 0) % L = 0
    BY ModL DEF L
<1>4. RingInv
    BY <1>3 DEF RingInv, L
<1>5. SlotsHoldHandles
    BY DEF SlotsHoldHandles, Occupied
<1> QED  BY <1>2, <1>4, <1>5 DEF IInv

LEMMA InvKept == IInv /\ [Next]_vars => IInv'
<1> SUFFICES ASSUME IInv, [Next]_vars PROVE TypeOK' /\ RingOK'
    BY DEF IInv, RingOK
<1> USE QueueAssumption
<1>0. TypeOK /\ RingOK
    BY DEF IInv, TypeOK, RingOK
<1>1. ASSUME NEW p \in Producers, NEW m \in Msgs, SendMsg(p, m)
      PROVE  TypeOK' /\ RingOK'
    BY <1>0, <1>1, RingFrame DEF SendMsg, TypeOK, ring
<1>2. ASSUME NEW p \in Producers, SendPut(p)
      PROVE  TypeOK' /\ RingOK'
    <2>1. sending[p] \in Handles
        BY <1>0, <1>2 DEF SendPut, InSend, TypeOK
    <2>2. RingOK'
        BY <1>0, <1>2, <2>1, PutKeepsRing DEF SendPut
    <2>3. condRd' \in SUBSET Consumers
        BY <1>0, <1>2, AfterSignalSubset DEF SendPut, SignalRd, TypeOK
    <2> QED  BY <1>0, <1>2, <2>2, <2>3 DEF SendPut, TypeOK, RingOK
<1>3. ASSUME NEW p \in Producers, SendBlock(p)
      PROVE  TypeOK' /\ RingOK'
    BY <1>0, <1>3, RingFrame DEF SendBlock, TypeOK, ring
<1>4. ASSUME NEW c \in Consumers, NEW k \in Calls, RecvCall(c, k)
      PROVE  TypeOK' /\ RingOK'
    BY <1>0, <1>4, RingFrame DEF RecvCall, TypeOK, ring
<1>5. ASSUME TakeSlot, count > 0
      PROVE  /\ RingOK'
             /\ queue[curRd] \in Handles
             /\ condWr' \in SUBSET Producers
             /\ condRd' = condRd
             /\ sending' = sending
    <2>1. RingOK' /\ queue[curRd] \in Handles
        BY <1>0, <1>5, TakeKeepsRing DEF TakeSlot
    <2>2. condWr' \in SUBSET Producers
        BY <1>0, <1>5, AfterSignalSubset DEF TakeSlot, SignalWr, TypeOK
    <2> QED  BY <1>5, <2>1, <2>2 DEF TakeSlot
<1>6. ASSUME NEW c \in Consumers, RecvMsgEx(c)
      PROVE  TypeOK' /\ RingOK'
    <2>1. /\ RingOK'
          /\ queue[curRd] \in Handles
          /\ condWr' \in SUBSET Producers
          /\ condRd' = condRd
          /\ sending' = sending
        BY <1>5, <1>6 DEF RecvMsgEx
    <2> QED  BY <1>0, <1>6, <2>1 DEF RecvMsgEx, Free, TypeOK, RingOK, Calls
<1>7. ASSUME NEW c \in Consumers, RecvMsg(c)
      PROVE  TypeOK' /\ RingOK'
    <2>1. /\ RingOK'
          /\ queue[curRd] \in Handles
          /\ condWr' \in SUBSET Producers
          /\ condRd' = condRd
          /\ sending' = sending
        BY <1>5, <1>7 DEF RecvMsg
    <2> QED  BY <1>0, <1>7, <2>1 DEF RecvMsg, TypeOK, RingOK, Calls
<1>8. ASSUME NEW c \in Consumers, RecvBlock(c)
      PROVE  TypeOK' /\ RingOK'
    BY <1>0, <1>8, RingFrame DEF RecvBlock, TypeOK, ring
<1>9. ASSUME NEW c \in Consumers, RecvFail(c)
      PROVE  TypeOK' /\ RingOK'
    BY <1>0, <1>9, RingFrame DEF RecvFail, TypeOK, ring, Calls
<1>10. ASSUME NEW c \in Consumers, FreeMsgHndl(c)
       PROVE  TypeOK' /\ RingOK'
    BY <1>0, <1>10, RingFrame DEF FreeMsgHndl, Free, TypeOK, ring
<1>11. ASSUME SpuriousWakeup
       PROVE  TypeOK' /\ RingOK'
    BY <1>0, <1>11, RingFrame DEF SpuriousWakeup, TypeOK, ring
<1>12. ASSUME UNCHANGED vars
       PROVE  TypeOK' /\ RingOK'
    BY <1>0, <1>12, RingFrame DEF vars, TypeOK, ring
<1> QED
    BY <1>1, <1>2, <1>3, <1>4, <1>6, <1>7, <1>8, <1>9, <1>10, <1>11, <1>12
    DEF Next, Producer, Consumer

\* The types hold of every reachable state; in particular a receive never
\* dereferences a slot that no send has written.
THEOREM TypeCorrect == Spec => []TypeOK
<1>1. IInv => TypeOK
    BY DEF IInv
<1> QED  BY <1>1, InvHolds, InvKept, PTL DEF Spec

\* The write index is always count slots after the read index.
THEOREM RingCorrect == Spec => []RingInv
<1>1. IInv => RingInv
    BY DEF IInv
<1> QED  BY <1>1, InvHolds, InvKept, PTL DEF Spec

-----------------------------------------------------------------------------
(***************************************************************************)
(* No lost wakeup.  A signal that finds a waiter adds it to the threads    *)
(* that are awake, the thread that completes a call leaves them, and count *)
(* changes by one: the inequalities keep their balance.                    *)
(***************************************************************************)
LEMMA AwakeFinite ==
    /\ IsFiniteSet(AwakeReceivers)
    /\ IsFiniteSet(AwakeSenders)
    /\ Cardinality(AwakeReceivers) \in Nat
    /\ Cardinality(AwakeSenders) \in Nat
BY QueueAssumption, FS_Subset, FS_CardinalityType
   DEF AwakeReceivers, AwakeSenders

LEMMA CardinalityAdd ==
    ASSUME NEW S, NEW t, IsFiniteSet(S), t \notin S
    PROVE  Cardinality(S \cup {t}) = Cardinality(S) + 1
BY FS_AddElement

LEMMA CardinalityTake ==
    ASSUME NEW S, NEW t, IsFiniteSet(S), t \in S
    PROVE  Cardinality(S \ {t}) = Cardinality(S) - 1
BY FS_RemoveElement

\* While somebody waits on cond, n items are left to no more than the awake.
Balanced(cond, n, awake) == cond # {} => n <= Cardinality(awake)

\* Fewer waiters and more awake threads keep the balance.
LEMMA BalancedMore ==
    ASSUME NEW cond, NEW awake, NEW cond2, NEW awake2, NEW n \in Nat,
           Balanced(cond, n, awake), cond2 \subseteq cond,
           awake \subseteq awake2, IsFiniteSet(awake2)
    PROVE  Balanced(cond2, n, awake2)
<1>1. /\ Cardinality(awake) <= Cardinality(awake2)
      /\ Cardinality(awake) \in Nat
      /\ Cardinality(awake2) \in Nat
    BY FS_Subset, FS_CardinalityType
<1>2. cond2 # {} => cond # {}
    OBVIOUS
<1> QED  BY <1>1, <1>2 DEF Balanced

\* One item more and a signal: the waiter that is woken is one awake more.
LEMMA BalancedSignal ==
    ASSUME NEW cond, NEW awake, NEW cond2 \in AfterSignal(cond), NEW awake2,
           NEW n \in Nat, Balanced(cond, n, awake), IsFiniteSet(awake),
           cond \cap awake = {}, awake2 = awake \cup (cond \ cond2)
    PROVE  Balanced(cond2, n + 1, awake2)
<1> SUFFICES ASSUME cond2 # {} PROVE n + 1 <= Cardinality(awake2)
    BY DEF Balanced
<1>1. PICK t \in cond : cond2 = cond \ {t}
    BY DEF AfterSignal
<1>2. awake2 = awake \cup {t} /\ t \notin awake
    BY <1>1
<1>3. Cardinality(awake2) = Cardinality(awake) + 1
    BY <1>2, CardinalityAdd
<1>4. n <= Cardinality(awake) /\ Cardinality(awake) \in Nat
    BY <1>1, FS_CardinalityType DEF Balanced
<1> QED  BY <1>3, <1>4

\* One item less and one awake thread less.
LEMMA BalancedLeave ==
    ASSUME NEW cond, NEW awake, NEW t \in awake, NEW n \in Nat,
           Balanced(cond, n, awake), IsFiniteSet(awake)
    PROVE  Balanced(cond, n - 1, awake \ {t})
<1>1. /\ Cardinality(awake \ {t}) = Cardinality(awake) - 1
      /\ Cardinality(awake) \in Nat
    BY CardinalityTake, FS_CardinalityType
<1> QED  BY <1>1 DEF Balanced

LEMMA NoLostWakeupIsBalance ==
    NoLostWakeup <=>
        /\ Balanced(condRd, count, AwakeReceivers)
        /\ Balanced(condWr, OSA_MSGQ_LEN_MAX - count, AwakeSenders)
BY DEF NoLostWakeup, Balanced

WInv == WaitersInCall /\ NoLostWakeup

LEMMA WInvKept == IInv /\ WInv /\ [Next]_vars => WInv'
<1> SUFFICES ASSUME IInv, WInv, [Next]_vars PROVE WInv'
    OBVIOUS
<1> DEFINE room == OSA_MSGQ_LEN_MAX - count
           Rd == AwakeReceivers
           Wr == AwakeSenders
<1>1. /\ TypeOK /\ WaitersInCall
      /\ count \in Nat /\ room \in Nat
      /\ Balanced(condRd, count, Rd)
      /\ Balanced(condWr, room, Wr)
    BY QueueAssumption, NoLostWakeupIsBalance DEF IInv, WInv, TypeOK
<1>2. /\ IsFiniteSet(Rd) /\ IsFiniteSet(Rd')
      /\ IsFiniteSet(Wr) /\ IsFiniteSet(Wr')
    BY QueueAssumption, FS_Subset DEF AwakeReceivers, AwakeSenders
<1>3. condRd \cap Rd = {} /\ condWr \cap Wr = {}
    BY DEF AwakeReceivers, AwakeSenders, InRecv, InSend
<1>4. SUFFICES /\ WaitersInCall'
               /\ Balanced(condRd', count', Rd')
               /\ Balanced(condWr', OSA_MSGQ_LEN_MAX - count', Wr')
    BY DEF WInv, NoLostWakeup, Balanced
<1> DEFINE Goal == /\ WaitersInCall'
                   /\ Balanced(condRd', count', Rd')
                   /\ Balanced(condWr', OSA_MSGQ_LEN_MAX - count', Wr')
<1>5. ASSUME count' = count, condRd' \subseteq condRd, condWr' \subseteq condWr,
             Rd \subseteq Rd', Wr \subseteq Wr'
      PROVE  /\ Balanced(condRd', count', Rd')
             /\ Balanced(condWr', OSA_MSGQ_LEN_MAX - count', Wr')
    <2>1. Balanced(condRd', count, Rd')
        BY <1>1, <1>2, <1>5, BalancedMore
    <2>2. Balanced(condWr', room, Wr')
        BY <1>1, <1>2, <1>5, BalancedMore
    <2> QED  BY <1>5, <2>1, <2>2
<1>6. ASSUME NEW p \in Producers, NEW m \in Msgs, SendMsg(p, m)
      PROVE  Goal
    <2>1. WaitersInCall'
        BY <1>1, <1>6, QueueAssumption DEF SendMsg, WaitersInCall, TypeOK
    <2>2. Rd \subseteq Rd' /\ Wr \subseteq Wr'
        BY <1>1, <1>6, QueueAssumption
        DEF SendMsg, AwakeReceivers, AwakeSenders, InRecv, InSend, TypeOK
    <2> QED  BY <1>5, <1>6, <2>1, <2>2 DEF SendMsg, ring
<1>7. ASSUME NEW p \in Producers, SendPut(p)
      PROVE  Goal
    <2>1. /\ count' = count + 1 /\ condRd' \in AfterSignal(condRd)
          /\ condRd' \subseteq condRd /\ condWr' = condWr /\ p \notin condWr
        BY <1>7, AfterSignalSubset DEF SendPut, SignalRd, InSend
    <2>2. WaitersInCall'
        BY <1>1, <1>7, <2>1 DEF SendPut, WaitersInCall, TypeOK
    <2>3. Rd' = Rd \cup (condRd \ condRd')
        BY <1>1, <1>7, <2>1
        DEF SendPut, AwakeReceivers, InRecv, WaitersInCall, TypeOK
    <2>4. p \in Wr /\ Wr' = Wr \ {p}
        BY <1>1, <1>7, <2>1, QueueAssumption
        DEF SendPut, AwakeSenders, InSend, TypeOK
    <2>5. Balanced(condRd', count + 1, Rd')
        BY <1>1, <1>2, <1>3, <2>1, <2>3, BalancedSignal
    <2>6. Balanced(condWr, room - 1, Wr')
        BY <1>1, <1>2, <2>4, BalancedLeave
    <2>7. OSA_MSGQ_LEN_MAX - count' = room - 1
        BY <1>1, <2>1, QueueAssumption
    <2> QED  BY <2>1, <2>2, <2>5, <2>6, <2>7
<1>8. ASSUME NEW p \in Producers, SendBlock(p)
      PROVE  Goal
    <2>1. WaitersInCall'
        BY <1>1, <1>8 DEF SendBlock, WaitersInCall, InSend
    <2>2. Rd' = Rd
        BY <1>8 DEF SendBlock, AwakeReceivers, InRecv
    <2>3. count' = count /\ room = 0
        BY <1>1, <1>8, QueueAssumption DEF SendBlock, HasRoom, TypeOK, ring
    <2>4. Cardinality(Wr') \in Nat
        BY <1>2, FS_CardinalityType
    <2>5. Balanced(condWr', OSA_MSGQ_LEN_MAX - count', Wr')
        BY <2>3, <2>4 DEF Balanced
    <2> QED  BY <1>1, <1>8, <2>1, <2>2, <2>3, <2>5 DEF SendBlock
<1>9. ASSUME NEW c \in Consumers, NEW k \in Calls, RecvCall(c, k)
      PROVE  Goal
    <2>1. WaitersInCall'
        BY <1>1, <1>9 DEF RecvCall, WaitersInCall, TypeOK, Calls
    <2>2. Rd \subseteq Rd' /\ Wr \subseteq Wr'
        BY <1>1, <1>9
        DEF RecvCall, AwakeReceivers, AwakeSenders, InRecv, InSend, TypeOK, Calls
    <2> QED  BY <1>5, <1>9, <2>1, <2>2 DEF RecvCall, ring
<1>10. ASSUME NEW c \in Consumers, InRecv(c), count > 0, TakeSlot,
              call' = [call EXCEPT ![c] = "idle"]
       PROVE  Goal
    <2>1. /\ count' = count - 1 /\ condWr' \in AfterSignal(condWr)
          /\ condWr' \subseteq condWr /\ condRd' = condRd /\ c \notin condRd
          /\ sending' = sending
        BY <1>10, AfterSignalSubset DEF TakeSlot, SignalWr, InRecv
    <2>2. WaitersInCall'
        BY <1>1, <1>10, <2>1 DEF WaitersInCall, TypeOK
    <2>3. Wr' = Wr \cup (condWr \ condWr')
        BY <1>1, <2>1 DEF AwakeSenders, InSend, WaitersInCall, TypeOK
    <2>4. c \in Rd /\ Rd' = Rd \ {c}
        BY <1>1, <1>10, <2>1 DEF AwakeReceivers, InRecv, TypeOK
    <2>5. Balanced(condWr', room + 1, Wr')
        BY <1>1, <1>2, <1>3, <2>1, <2>3, BalancedSignal
    <2>6. Balanced(condRd, count - 1, Rd')
        BY <1>1, <1>2, <2>4, BalancedLeave
    <2>7. OSA_MSGQ_LEN_MAX - count' = room + 1
        BY <1>1, <2>1, QueueAssumption
    <2> QED  BY <2>1, <2>2, <2>5, <2>6, <2>7
<1>11. ASSUME NEW c \in Consumers, RecvMsgEx(c) \/ RecvMsg(c)
       PROVE  Goal
    BY <1>10, <1>11 DEF RecvMsgEx, RecvMsg
<1>12. ASSUME NEW c \in Consumers, RecvBlock(c)
       PROVE  Goal
    <2>1. WaitersInCall'
        BY <1>1, <1>12 DEF RecvBlock, WaitersInCall
    <2>2. Wr' = Wr
        BY <1>12 DEF RecvBlock, AwakeSenders, InSend
    <2>3. count' = 0 /\ count = 0
        BY <1>12 DEF RecvBlock, ring
    <2>4. Cardinality(Rd') \in Nat
        BY <1>2, FS_CardinalityType
    <2>5. Balanced(condRd', count', Rd')
        BY <2>3, <2>4 DEF Balanced
    <2> QED  BY <1>1, <1>12, <2>1, <2>2, <2>3, <2>5 DEF RecvBlock
<1>13. ASSUME NEW c \in Consumers, RecvFail(c)
       PROVE  Goal
    <2>1. WaitersInCall'
        BY <1>1, <1>13 DEF RecvFail, WaitersInCall, InRecv, TypeOK
    <2>2. Wr' = Wr
        BY <1>13 DEF RecvFail, AwakeSenders, InSend
    <2>3. count' = 0 /\ count = 0
        BY <1>13 DEF RecvFail, ring
    <2>4. Cardinality(Rd') \in Nat
        BY <1>2, FS_CardinalityType
    <2>5. Balanced(condRd', count', Rd')
        BY <2>3, <2>4 DEF Balanced
    <2> QED  BY <1>1, <1>13, <2>1, <2>2, <2>3, <2>5 DEF RecvFail
<1>14. ASSUME NEW c \in Consumers, FreeMsgHndl(c)
       PROVE  Goal
    <2>1. WaitersInCall' /\ Rd' = Rd /\ Wr' = Wr
        BY <1>1, <1>14
        DEF FreeMsgHndl, WaitersInCall, AwakeReceivers, AwakeSenders,
            InRecv, InSend
    <2> QED  BY <1>5, <1>14, <2>1 DEF FreeMsgHndl, ring
<1>15. ASSUME SpuriousWakeup
       PROVE  Goal
    <2>1. condRd' \subseteq condRd /\ condWr' \subseteq condWr
        BY <1>15 DEF SpuriousWakeup
    <2>2. WaitersInCall' /\ Rd \subseteq Rd' /\ Wr \subseteq Wr'
        BY <1>1, <1>15, <2>1
        DEF SpuriousWakeup, WaitersInCall, AwakeReceivers, AwakeSenders,
            InRecv, InSend
    <2> QED  BY <1>5, <1>15, <2>1, <2>2 DEF SpuriousWakeup, ring
<1>16. ASSUME UNCHANGED vars
       PROVE  Goal
    <2>1. WaitersInCall' /\ Rd' = Rd /\ Wr' = Wr
        BY <1>1, <1>16
        DEF vars, WaitersInCall, AwakeReceivers, AwakeSenders, InRecv, InSend
    <2> QED  BY <1>5, <1>16, <2>1 DEF vars
<1> QED
    BY <1>6, <1>7, <1>8, <1>9, <1>11, <1>12, <1>13, <1>14, <1>15, <1>16
    DEF Next, Producer, Consumer

\* No signal is lost: while a receiver sleeps, every message in the ring has an
\* awake receiver inside a call to take it, and the same for senders and slots.
THEOREM NoLostWakeupHolds == Spec => []NoLostWakeup
<1>1. Init => WInv
    BY DEF Init, WInv, WaitersInCall, NoLostWakeup
<1>2. WInv => NoLostWakeup
    BY DEF WInv
<1> QED  BY <1>1, <1>2, InvHolds, InvKept, WInvKept, PTL DEF Spec

-----------------------------------------------------------------------------
(***************************************************************************)
(* Threads that own at most one handle each, f[t] or NoHandle.             *)
(***************************************************************************)
HandlesOf(f, T) == {f[t] : t \in T} \ {NoHandle}
Single(f, T) == \A t, u \in T : f[t] = f[u] => t = u \/ f[t] = NoHandle

\* A thread that owns nothing gets a handle that no other owns.
LEMMA OwnerGets ==
    ASSUME NEW T, NEW f \in [T -> Handles \cup {NoHandle}], NEW t \in T,
           NEW h \in Handles,
           f[t] = NoHandle, h \notin HandlesOf(f, T), Single(f, T)
    PROVE  /\ HandlesOf([f EXCEPT ![t] = h], T) = HandlesOf(f, T) \cup {h}
           /\ Single([f EXCEPT ![t] = h], T)
<1> DEFINE g == [f EXCEPT ![t] = h]
<1>1. h # NoHandle
    BY QueueAssumption
<1>2. \A u \in T : g[u] = IF u = t THEN h ELSE f[u]
    OBVIOUS
<1>3. \A u \in T : f[u] # h
    BY <1>1 DEF HandlesOf
<1> QED  BY <1>1, <1>2, <1>3 DEF HandlesOf, Single

\* A thread gives its handle away.
LEMMA OwnerGives ==
    ASSUME NEW T, NEW f \in [T -> Handles \cup {NoHandle}], NEW t \in T,
           f[t] # NoHandle, Single(f, T)
    PROVE  /\ HandlesOf([f EXCEPT ![t] = NoHandle], T) = HandlesOf(f, T) \ {f[t]}
           /\ Single([f EXCEPT ![t] = NoHandle], T)
<1> DEFINE g == [f EXCEPT ![t] = NoHandle]
<1>1. \A u \in T : g[u] = IF u = t THEN NoHandle ELSE f[u]
    OBVIOUS
<1>2. \A u \in T : u # t => f[u] # f[t]
    BY DEF Single
<1> QED  BY <1>1, <1>2 DEF HandlesOf, Single

-----------------------------------------------------------------------------
(***************************************************************************)
(* The slots of the ring own handles too.                                  *)
(***************************************************************************)
SlotsSingle == \A i, j \in Occupied : queue[i] = queue[j] => i = j

\* A send gives the slot at curWr a handle that no slot has.
LEMMA RingGets ==
    ASSUME RingOK, HasRoom, NEW h \in Handles,
           queue' = [queue EXCEPT ![curWr] = h],
           curWr' = Advance(curWr), count' = count + 1, curRd' = curRd,
           h \notin QueuedHandles, SlotsSingle
    PROVE  QueuedHandles' = QueuedHandles \cup {h} /\ SlotsSingle'
<1> USE QueueAssumption DEF RingOK
<1>1. count \in 0 .. L - 1 /\ curWr = (curRd + count) % L
    BY DEF HasRoom, RingInv, L
<1>2. curWr \notin Occupied /\ Occupied' = Occupied \cup {curWr}
    <2>1. /\ curWr \notin Window(curRd, count)
          /\ Window(curRd, count') = Window(curRd, count) \cup {curWr}
        BY <1>1, WindowGrows
    <2> QED  BY <2>1, OccupiedIsWindow DEF Occupied, Window, L
<1>3. Occupied \subseteq Slots
    BY WindowInSlots, OccupiedIsWindow DEF L
<1>4. queue'[curWr] = h /\ \A i \in Occupied : queue'[i] = queue[i]
    BY <1>2, <1>3
<1>5. \A i \in Occupied : queue[i] # h
    BY DEF QueuedHandles
<1>6. SlotsSingle'
    BY <1>2, <1>4, <1>5 DEF SlotsSingle
<1>7. QueuedHandles' = QueuedHandles \cup {h}
    BY <1>2, <1>4 DEF QueuedHandles
<1> QED  BY <1>6, <1>7

\* A receive takes the handle from the slot at curRd, the only one to have it.
LEMMA RingGives ==
    ASSUME RingOK, count > 0, SlotsSingle,
           curRd' = Advance(curRd), count' = count - 1,
           curWr' = curWr, queue' = queue
    PROVE  /\ QueuedHandles' = QueuedHandles \ {queue[curRd]}
           /\ queue[curRd] \in QueuedHandles
           /\ SlotsSingle'
<1>1. curRd \in Occupied /\ Occupied' = Occupied \ {curRd}
    BY TakeKeepsRing
<1>2. SlotsSingle'
    BY <1>1 DEF SlotsSingle
<1>3. \A i \in Occupied : i # curRd => queue[i] # queue[curRd]
    BY <1>1 DEF SlotsSingle
<1> QED  BY <1>1, <1>2, <1>3 DEF QueuedHandles

-----------------------------------------------------------------------------
(***************************************************************************)
(* Who owns what.  A receiver in a call holds nothing: it frees what it    *)
(* has before it calls again.  An allocated block has a message.           *)
(***************************************************************************)
EmptyHanded == \A c \in Consumers : call[c] # "idle" => held[c] = NoHandle
BlocksFilled == \A h \in heap : mem[h] \in Msgs

Owners ==
    /\ heap = SentHandles \cup QueuedHandles \cup HeldHandles
    /\ SentHandles \cap QueuedHandles = {}
    /\ SentHandles \cap HeldHandles = {}
    /\ QueuedHandles \cap HeldHandles = {}
    /\ Single(sending, Producers)
    /\ Single(held, Consumers)
    /\ SlotsSingle

OInv == Owners /\ EmptyHanded /\ BlocksFilled

LEMMA OwnersIsOneOwner == Owners <=> OneOwner
BY DEF Owners, OneOwner, Single, SlotsSingle

LEMMA OwnersHold == Init => OInv
<1> SUFFICES ASSUME Init PROVE OInv
    OBVIOUS
<1>1. Occupied = {}
    BY DEF Init, Occupied
<1>2. SentHandles = {} /\ HeldHandles = {} /\ QueuedHandles = {}
    BY <1>1 DEF Init, SentHandles, HeldHandles, QueuedHandles
<1> QED
    BY <1>1, <1>2
    DEF Init, OInv, Owners, EmptyHanded, BlocksFilled, Single, SlotsSingle

LEMMA OwnersFrame ==
    ASSUME UNCHANGED <<queue, curRd, count>>
    PROVE  QueuedHandles' = QueuedHandles /\ (SlotsSingle => SlotsSingle')
BY DEF QueuedHandles, SlotsSingle, Occupied

LEMMA OwnersKept == IInv /\ OInv /\ [Next]_vars => OInv'
<1> SUFFICES ASSUME IInv, OInv, [Next]_vars PROVE OInv'
    OBVIOUS
<1>0. /\ TypeOK /\ RingOK /\ OInv
      /\ SentHandles = HandlesOf(sending, Producers)
      /\ HeldHandles = HandlesOf(held, Consumers)
      /\ SentHandles' = HandlesOf(sending', Producers)
      /\ HeldHandles' = HandlesOf(held', Consumers)
    BY DEF IInv, TypeOK, RingOK, SentHandles, HeldHandles, HandlesOf
<1>1. /\ sending \in [Producers -> Handles \cup {NoHandle}]
      /\ held \in [Consumers -> Handles \cup {NoHandle}]
      /\ mem \in [Handles -> Msgs \cup {NoMsg}]
      /\ call \in [Consumers -> Calls \cup {"idle"}]
      /\ heap \in SUBSET Handles
    BY <1>0 DEF TypeOK
<1>2. ASSUME NEW p \in Producers, NEW m \in Msgs, SendMsg(p, m)
      PROVE  OInv'
    <2>1. PICK h \in Handles \ heap :
             /\ heap' = heap \cup {h}
             /\ mem' = [mem EXCEPT ![h] = m]
             /\ sending' = [sending EXCEPT ![p] = h]
        BY <1>2 DEF SendMsg
    <2>2. UNCHANGED <<queue, curRd, count, held, call>> /\ sending[p] = NoHandle
        BY <1>2 DEF SendMsg, ring
    <2>3. QueuedHandles' = QueuedHandles /\ SlotsSingle'
        BY <1>0, <2>2, OwnersFrame DEF OInv, Owners
    <2>4. /\ h \notin SentHandles \cup QueuedHandles \cup HeldHandles
          /\ h \in Handles /\ h \notin HandlesOf(sending, Producers)
          /\ Single(sending, Producers)
        BY <1>0, <2>1 DEF OInv, Owners
    <2>5. SentHandles' = SentHandles \cup {h} /\ Single(sending', Producers)
        <3>1. /\ HandlesOf([sending EXCEPT ![p] = h], Producers)
                    = HandlesOf(sending, Producers) \cup {h}
              /\ Single([sending EXCEPT ![p] = h], Producers)
            BY <1>1, <2>2, <2>4, OwnerGets
        <3> QED  BY <1>0, <2>1, <3>1
    <2>6. HeldHandles' = HeldHandles /\ Single(held', Consumers)
        BY <1>0, <2>2 DEF OInv, Owners
    <2>7. heap' = heap \cup {h}
        BY <2>1
    <2>8. Owners'
        BY <1>0, <2>3, <2>4, <2>5, <2>6, <2>7 DEF OInv, Owners
    <2>9. EmptyHanded' /\ BlocksFilled'
        BY <1>0, <1>1, <2>1, <2>2 DEF OInv, EmptyHanded, BlocksFilled
    <2> QED  BY <2>8, <2>9 DEF OInv
<1>3. ASSUME NEW p \in Producers, SendPut(p)
      PROVE  OInv'
    <2> DEFINE h == sending[p]
    <2>1. /\ h \in Handles /\ h # NoHandle
          /\ sending' = [sending EXCEPT ![p] = NoHandle]
          /\ UNCHANGED <<heap, mem, call, held>>
        BY <1>1, <1>3 DEF SendPut, InSend
    <2>2. h \in SentHandles /\ h \notin QueuedHandles
        BY <1>0, <2>1 DEF OInv, Owners, HandlesOf
    <2>3. SentHandles' = SentHandles \ {h} /\ Single(sending', Producers)
        BY <1>0, <1>1, <2>1, OwnerGives DEF OInv, Owners
    <2>4. QueuedHandles' = QueuedHandles \cup {h} /\ SlotsSingle'
        BY <1>0, <1>3, <2>1, <2>2, RingGets DEF SendPut, OInv, Owners
    <2>5. HeldHandles' = HeldHandles /\ Single(held', Consumers)
        BY <1>0, <2>1 DEF OInv, Owners
    <2>6. Owners'
        BY <1>0, <2>1, <2>2, <2>3, <2>4, <2>5 DEF OInv, Owners
    <2>7. EmptyHanded' /\ BlocksFilled'
        BY <1>0, <2>1 DEF OInv, EmptyHanded, BlocksFilled
    <2> QED  BY <2>6, <2>7 DEF OInv
<1>4. ASSUME NEW c \in Consumers, RecvMsgEx(c)
      PROVE  OInv'
    <2> DEFINE h == queue[curRd]
    <2>1. /\ heap' = heap \ {h} /\ mem' = [mem EXCEPT ![h] = NoMsg]
          /\ call' = [call EXCEPT ![c] = "idle"]
          /\ UNCHANGED <<sending, held>>
        BY <1>4 DEF RecvMsgEx, Free, TakeSlot
    <2>2. /\ QueuedHandles' = QueuedHandles \ {h} /\ h \in QueuedHandles
          /\ SlotsSingle'
        BY <1>0, <1>4, RingGives DEF RecvMsgEx, TakeSlot, OInv, Owners
    <2>3. /\ SentHandles' = SentHandles /\ HeldHandles' = HeldHandles
          /\ Single(sending', Producers) /\ Single(held', Consumers)
        BY <1>0, <2>1 DEF OInv, Owners
    <2>4. Owners'
        BY <1>0, <2>1, <2>2, <2>3 DEF OInv, Owners
    <2>5. EmptyHanded' /\ BlocksFilled'
        BY <1>0, <1>1, <2>1 DEF OInv, EmptyHanded, BlocksFilled
    <2> QED  BY <2>4, <2>5 DEF OInv
<1>5. ASSUME NEW c \in Consumers, RecvMsg(c)
      PROVE  OInv'
    <2> DEFINE h == queue[curRd]
    <2>1. /\ held' = [held EXCEPT ![c] = h]
          /\ call' = [call EXCEPT ![c] = "idle"]
          /\ UNCHANGED <<sending, heap, mem>>
        BY <1>5 DEF RecvMsg, TakeSlot
    <2>2. /\ QueuedHandles' = QueuedHandles \ {h} /\ h \in QueuedHandles
          /\ SlotsSingle'
        BY <1>0, <1>5, RingGives DEF RecvMsg, TakeSlot, OInv, Owners
    <2>3. held[c] = NoHandle
        BY <1>0, <1>5 DEF RecvMsg, InRecv, OInv, EmptyHanded
    <2>4. h \in Handles /\ h \notin HeldHandles
        BY <1>0, <1>1, <2>2 DEF OInv, Owners
    <2>5. HeldHandles' = HeldHandles \cup {h} /\ Single(held', Consumers)
        <3>1. h \notin HandlesOf(held, Consumers) /\ Single(held, Consumers)
            BY <1>0, <2>4 DEF OInv, Owners
        <3> HIDE DEF h
        <3>2. /\ HandlesOf([held EXCEPT ![c] = h], Consumers)
                    = HandlesOf(held, Consumers) \cup {h}
              /\ Single([held EXCEPT ![c] = h], Consumers)
            BY <1>1, <2>3, <2>4, <3>1, OwnerGets
        <3> QED  BY <1>0, <2>1, <3>2
    <2>6. SentHandles' = SentHandles /\ Single(sending', Producers)
        BY <1>0, <2>1 DEF OInv, Owners
    <2>7. Owners'
        BY <1>0, <2>1, <2>2, <2>5, <2>6 DEF OInv, Owners
    <2>8. EmptyHanded' /\ BlocksFilled'
        BY <1>0, <1>1, <2>1 DEF OInv, EmptyHanded, BlocksFilled
    <2> QED  BY <2>7, <2>8 DEF OInv
<1>6. ASSUME NEW c \in Consumers, FreeMsgHndl(c)
      PROVE  OInv'
    <2> DEFINE h == held[c]
    <2>1. /\ h # NoHandle /\ held' = [held EXCEPT ![c] = NoHandle]
          /\ heap' = heap \ {h} /\ mem' = [mem EXCEPT ![h] = NoMsg]
          /\ UNCHANGED <<queue, curRd, count, sending, call>>
        BY <1>6 DEF FreeMsgHndl, Free, ring
    <2>2. QueuedHandles' = QueuedHandles /\ SlotsSingle'
        BY <1>0, <2>1, OwnersFrame DEF OInv, Owners
    <2>3. HeldHandles' = HeldHandles \ {h} /\ Single(held', Consumers)
        BY <1>0, <1>1, <2>1, OwnerGives DEF OInv, Owners
    <2>4. h \in HeldHandles
        BY <1>0, <2>1 DEF HandlesOf
    <2>5. SentHandles' = SentHandles /\ Single(sending', Producers)
        BY <1>0, <2>1 DEF OInv, Owners
    <2>6. Owners'
        BY <1>0, <2>1, <2>2, <2>3, <2>4, <2>5 DEF OInv, Owners
    <2>7. EmptyHanded' /\ BlocksFilled'
        BY <1>0, <1>1, <2>1 DEF OInv, EmptyHanded, BlocksFilled
    <2> QED  BY <2>6, <2>7 DEF OInv
<1>7. ASSUME UNCHANGED <<ring, heap, mem, sending, held>>,
             \A c \in Consumers : call'[c] # "idle" =>
                 call[c] # "idle" \/ held[c] = NoHandle
      PROVE  OInv'
    <2>1. QueuedHandles' = QueuedHandles /\ SlotsSingle'
        BY <1>0, <1>7, OwnersFrame DEF ring, OInv, Owners
    <2>2. SentHandles' = SentHandles /\ HeldHandles' = HeldHandles
        BY <1>0, <1>7
    <2>3. Owners' /\ BlocksFilled'
        BY <1>0, <1>7, <2>1, <2>2 DEF OInv, Owners, BlocksFilled
    <2>4. EmptyHanded'
        BY <1>0, <1>7 DEF OInv, EmptyHanded
    <2> QED  BY <2>3, <2>4 DEF OInv
<1>8. ASSUME NEW p \in Producers, SendBlock(p)
      PROVE  OInv'
    BY <1>7, <1>8 DEF SendBlock
<1>9. ASSUME NEW c \in Consumers,
             (\E k \in Calls : RecvCall(c, k)) \/ RecvBlock(c) \/ RecvFail(c)
      PROVE  OInv'
    BY <1>1, <1>7, <1>9 DEF RecvCall, RecvBlock, RecvFail
<1>10. ASSUME SpuriousWakeup \/ UNCHANGED vars
       PROVE  OInv'
    BY <1>7, <1>10 DEF SpuriousWakeup, vars, ring
<1> QED
    BY <1>2, <1>3, <1>4, <1>5, <1>6, <1>8, <1>9, <1>10
    DEF Next, Producer, Consumer

\* Every allocated block has one owner and nobody has a freed one, whatever
\* blocks OSA_memAlloc hands out again (osa_msgq.cpp).
THEOREM OneOwnerHolds == Spec => []OneOwner
<1>1. OInv => OneOwner
    BY OwnersIsOneOwner DEF OInv
<1> QED  BY <1>1, InvHolds, InvKept, OwnersHold, OwnersKept, PTL DEF Spec

-----------------------------------------------------------------------------
(***************************************************************************)
(* The ring as a FIFO.  FifoOf, OutboxOf and AskingOf are the refinement   *)
(* mapping of MsgQueue, SlotAt(i) is where the i-th message is.            *)
(***************************************************************************)
SlotAt(i) == (curRd + i - 1) % OSA_MSGQ_LEN_MAX
FifoOf    == [i \in 1 .. count |-> mem[queue[SlotAt(i)]]]
OutboxOf  == [p \in Producers |-> IF sending[p] = NoHandle
                                  THEN NoMsg ELSE mem[sending[p]]]
AskingOf  == [c \in Consumers |-> CASE call[c] = "idle"     -> "no"
                                    [] call[c] = "CheckMsg" -> "poll"
                                    [] OTHER                -> "wait"]

LEMMA SlotOccupied ==
    ASSUME RingOK, NEW i \in 1 .. count
    PROVE  SlotAt(i) \in Occupied /\ SlotAt(i) \in Slots
<1>1. count \in Nat /\ curRd \in Int
    BY QueueAssumption DEF RingOK, Slots
<1>2. i - 1 \in 0 .. count - 1 /\ curRd + i - 1 = curRd + (i - 1)
    BY <1>1
<1>3. SlotAt(i) \in Occupied
    BY <1>2 DEF SlotAt, Occupied
<1>4. Occupied \subseteq Slots
    BY WindowInSlots, OccupiedIsWindow DEF RingOK, L
<1> QED  BY <1>3, <1>4

\* Nothing happens to the FIFO unless a message in it changes.
LEMMA FifoFrame ==
    ASSUME RingOK, UNCHANGED <<curRd, count, queue>>,
           \A h \in QueuedHandles : mem'[h] = mem[h]
    PROVE  FifoOf' = FifoOf
<1>1. \A i \in 1 .. count : SlotAt(i)' = SlotAt(i)
    BY DEF SlotAt
<1>2. \A i \in 1 .. count : mem'[queue[SlotAt(i)]] = mem[queue[SlotAt(i)]]
    BY SlotOccupied DEF QueuedHandles
<1> QED  BY <1>1, <1>2 DEF FifoOf

\* A send appends its message.
LEMMA FifoPut ==
    ASSUME RingOK, HasRoom, NEW h \in Handles,
           queue' = [queue EXCEPT ![curWr] = h],
           curRd' = curRd, count' = count + 1, mem' = mem
    PROVE  FifoOf' = Append(FifoOf, mem[h]) /\ Len(FifoOf) = count
<1>1. /\ count \in 0 .. L - 1 /\ curWr = (curRd + count) % L
      /\ curRd \in Slots /\ curWr \in Slots /\ curRd \in Int
    BY QueueAssumption DEF RingOK, HasRoom, RingInv, L, Slots
<1>2. curWr \notin Occupied
    <2>1. curWr \notin Window(curRd, count)
        BY <1>1, WindowGrows
    <2> QED  BY <2>1, OccupiedIsWindow
<1>3. \A i \in 1 .. count' : SlotAt(i)' = SlotAt(i)
    BY DEF SlotAt
<1>4. ASSUME NEW i \in 1 .. count
      PROVE  queue'[SlotAt(i)] = queue[SlotAt(i)]
    BY <1>2, SlotOccupied DEF RingOK
<1>5. SlotAt(count + 1) = curWr
    BY <1>1 DEF SlotAt, L
<1>6. queue'[curWr] = h
    BY <1>1 DEF RingOK
<1>7. count \in Nat /\ FifoOf = [i \in 1 .. count |-> mem[queue[SlotAt(i)]]]
    BY <1>1 DEF FifoOf
<1>8. FifoOf' = [i \in 1 .. count + 1 |->
                    IF i = count + 1 THEN mem[h] ELSE mem[queue[SlotAt(i)]]]
    BY <1>1, <1>3, <1>4, <1>5, <1>6 DEF FifoOf
<1>9. Len(FifoOf) = count
    BY <1>7
<1> QED  BY <1>7, <1>8, <1>9

\* The rest of a sequence, as a function.
LEMMA TailOf ==
    ASSUME NEW S, NEW n \in Nat \ {0}, NEW f \in [1 .. n -> S]
    PROVE  /\ Tail(f) \in [1 .. n - 1 -> S]
           /\ \A i \in 1 .. n - 1 : Tail(f)[i] = f[i + 1]
           /\ f # <<>> /\ Head(f) = f[1]
<1>1. f \in Seq(S) /\ Len(f) = n
    OBVIOUS
<1>2. f # <<>>
    BY <1>1
<1>3. Tail(f) \in Seq(S) /\ Len(Tail(f)) = n - 1
    BY <1>1, <1>2, HeadTailProperties
<1>4. \A i \in 1 .. n - 1 : Tail(f)[i] = f[i + 1]
    BY <1>1, <1>2, <1>3, HeadTailProperties
<1>5. Tail(f) \in [1 .. n - 1 -> S]
    BY <1>3, LenProperties
<1>6. Head(f) = f[1]
    OBVIOUS
<1> QED  BY <1>2, <1>4, <1>5, <1>6

\* A receive takes the first message.
LEMMA FifoTake ==
    ASSUME RingOK, count > 0, curRd' = Advance(curRd), count' = count - 1,
           queue' = queue, SlotsSingle,
           \A h \in QueuedHandles \ {queue[curRd]} : mem'[h] = mem[h]
    PROVE  FifoOf' = Tail(FifoOf) /\ Head(FifoOf) = mem[queue[curRd]] /\ FifoOf # <<>>
<1>1. /\ count \in 1 .. L /\ curRd \in Slots /\ L \in Nat \ {0}
      /\ Slots = 0 .. L - 1
    BY QueueAssumption DEF RingOK, L, Slots
<1>2. SlotAt(1) = curRd
    BY <1>1, ModL DEF SlotAt, L
<1>3. ASSUME NEW i \in 1 .. count - 1
      PROVE  SlotAt(i)' = SlotAt(i + 1)
    <2>1. Advance(curRd) = IF curRd + 1 = L THEN 0 ELSE curRd + 1
        BY <1>1, AdvanceInSlots
    <2> DEFINE a == Advance(curRd) + i - 1
               b == curRd + (i + 1) - 1
    <2>2. a \in Nat /\ a < 2 * L /\ b \in Nat /\ b < 2 * L
        BY <1>1, <2>1
    <2>3. (IF a < L THEN a ELSE a - L) = (IF b < L THEN b ELSE b - L)
        BY <1>1, <2>1
    <2> HIDE DEF a, b
    <2>4. a % L = b % L
        BY <2>2, <2>3, ModL
    <2> QED  BY <2>4 DEF a, b, SlotAt, L
<1>4. ASSUME NEW i \in 1 .. count - 1
      PROVE  mem'[queue[SlotAt(i + 1)]] = mem[queue[SlotAt(i + 1)]]
    <2>1. i + 1 \in 1 .. count /\ 1 \in 1 .. count
        BY <1>1
    <2>2. SlotAt(i + 1) \in Occupied /\ curRd \in Occupied
        BY <1>2, <2>1, SlotOccupied
    <2>3. SlotAt(i + 1) # curRd
        <3> DEFINE b == curRd + (i + 1) - 1
        <3>1. b \in Nat /\ b < 2 * L /\ b # curRd /\ b - L # curRd
            BY <1>1
        <3> HIDE DEF b
        <3>2. b % L # curRd
            BY <3>1, ModL
        <3> QED  BY <3>2 DEF b, SlotAt, L
    <2> QED  BY <2>2, <2>3 DEF SlotsSingle, QueuedHandles
<1>5. FifoOf = [i \in 1 .. count |-> mem[queue[SlotAt(i)]]]
    BY DEF FifoOf
<1>6. FifoOf' = [i \in 1 .. count - 1 |-> mem[queue[SlotAt(i + 1)]]]
    BY <1>1, <1>3, <1>4 DEF FifoOf
<1> DEFINE S == {FifoOf[i] : i \in 1 .. count}
           t == Tail(FifoOf)
<1>7. FifoOf \in [1 .. count -> S] /\ count \in Nat \ {0}
    BY <1>1, <1>5
<1> HIDE DEF S
<1>8. /\ t \in [1 .. count - 1 -> S]
      /\ \A i \in 1 .. count - 1 : t[i] = FifoOf[i + 1]
      /\ FifoOf # <<>> /\ Head(FifoOf) = FifoOf[1]
    BY <1>7, TailOf
<1> HIDE DEF t
<1>9. \A i \in 1 .. count - 1 : FifoOf[i + 1] = mem[queue[SlotAt(i + 1)]]
    BY <1>1, <1>5
<1>10. t = [i \in 1 .. count - 1 |-> mem[queue[SlotAt(i + 1)]]]
    BY <1>8, <1>9
<1>11. FifoOf[1] = mem[queue[curRd]]
    BY <1>1, <1>2, <1>5
<1> QED  BY <1>6, <1>8, <1>10, <1>11 DEF t

-----------------------------------------------------------------------------
(***************************************************************************)
(* Every step of the ring is a step of the FIFO or leaves it as it is.     *)
(***************************************************************************)
Abstract == <<FifoOf, OutboxOf, AskingOf, got>>

LEMMA AbstractIsFifo == UNCHANGED Abstract => UNCHANGED Fifo!vars
BY DEF Fifo!vars, Abstract, FifoOf, OutboxOf, AskingOf, SlotAt

LEMMA FifoSteps ==
    /\ \A p \in Producers, m \in Msgs :
          /\ OutboxOf[p] = NoMsg /\ OutboxOf' = [OutboxOf EXCEPT ![p] = m]
          /\ UNCHANGED <<FifoOf, AskingOf, got>>
          => Fifo!Next
    /\ \A p \in Producers :
          /\ OutboxOf[p] # NoMsg /\ Len(FifoOf) < OSA_MSGQ_LEN_MAX
          /\ FifoOf' = Append(FifoOf, OutboxOf[p])
          /\ OutboxOf' = [OutboxOf EXCEPT ![p] = NoMsg]
          /\ UNCHANGED <<AskingOf, got>>
          => Fifo!Next
    /\ \A c \in Consumers, how \in {"wait", "poll"} :
          /\ AskingOf[c] = "no" /\ AskingOf' = [AskingOf EXCEPT ![c] = how]
          /\ UNCHANGED <<FifoOf, OutboxOf, got>>
          => Fifo!Next
    /\ \A c \in Consumers :
          /\ AskingOf[c] # "no" /\ FifoOf # <<>>
          /\ got' = [got EXCEPT ![c] = Head(FifoOf)]
          /\ FifoOf' = Tail(FifoOf)
          /\ AskingOf' = [AskingOf EXCEPT ![c] = "no"]
          /\ UNCHANGED OutboxOf
          => Fifo!Next
    /\ \A c \in Consumers :
          /\ AskingOf[c] = "poll" /\ FifoOf = <<>>
          /\ got' = [got EXCEPT ![c] = NoMsg]
          /\ AskingOf' = [AskingOf EXCEPT ![c] = "no"]
          /\ UNCHANGED <<FifoOf, OutboxOf>>
          => Fifo!Next
BY DEF Fifo!Next, Fifo!Submit, Fifo!Accept, Fifo!Ask, Fifo!Deliver, Fifo!Refuse,
       FifoOf, OutboxOf, AskingOf, SlotAt

\* A caller's place in the FIFO changes with its call only.
LEMMA AskingChanges ==
    ASSUME TypeOK, NEW c \in Consumers, NEW k \in Calls \cup {"idle"},
           call' = [call EXCEPT ![c] = k]
    PROVE  AskingOf' = [AskingOf EXCEPT ![c] =
                           CASE k = "idle"     -> "no"
                             [] k = "CheckMsg" -> "poll"
                             [] OTHER          -> "wait"]
BY DEF TypeOK, AskingOf, Calls

LEMMA StepsAreFifoSteps ==
    IInv /\ OInv /\ [Next]_vars => Fifo!Next \/ UNCHANGED Fifo!vars
<1> SUFFICES ASSUME IInv, OInv, [Next]_vars
             PROVE  Fifo!Next \/ UNCHANGED Abstract
    BY AbstractIsFifo
<1>0. TypeOK /\ RingOK /\ SlotsSingle
    BY DEF IInv, TypeOK, RingOK, OInv, Owners
<1>1. /\ sending \in [Producers -> Handles \cup {NoHandle}]
      /\ held \in [Consumers -> Handles \cup {NoHandle}]
      /\ mem \in [Handles -> Msgs \cup {NoMsg}]
      /\ call \in [Consumers -> Calls \cup {"idle"}]
      /\ heap \in SUBSET Handles
    BY <1>0 DEF TypeOK
<1>2. \A p \in Producers : sending[p] # NoHandle =>
          /\ sending[p] \in heap /\ mem[sending[p]] \in Msgs
          /\ sending[p] \notin QueuedHandles \cup HeldHandles
    BY <1>1 DEF OInv, Owners, BlocksFilled, SentHandles
<1>3. QueuedHandles \subseteq heap
    BY DEF OInv, Owners
\* An outbox changes with what its thread sends and what that block holds.
<1>4. ASSUME sending' = sending,
             \A p \in Producers : sending[p] # NoHandle =>
                 mem'[sending[p]] = mem[sending[p]]
      PROVE  OutboxOf' = OutboxOf
    BY <1>4 DEF OutboxOf
<1>5. ASSUME call' = call
      PROVE  AskingOf' = AskingOf
    BY <1>5 DEF AskingOf
<1>6. ASSUME NEW p \in Producers, NEW m \in Msgs, SendMsg(p, m)
      PROVE  Fifo!Next
    <2>1. PICK h \in Handles \ heap :
             /\ mem' = [mem EXCEPT ![h] = m]
             /\ sending' = [sending EXCEPT ![p] = h]
        BY <1>6 DEF SendMsg
    <2>2. /\ sending[p] = NoHandle
          /\ UNCHANGED <<curRd, count, queue, call, got>>
        BY <1>6 DEF SendMsg, ring
    <2>3. \A g \in heap : mem'[g] = mem[g]
        BY <1>1, <2>1
    <2>4. FifoOf' = FifoOf
        BY <1>0, <1>3, <2>2, <2>3, FifoFrame
    <2>5. OutboxOf[p] = NoMsg
        BY <2>2 DEF OutboxOf
    <2>6. ASSUME NEW q \in Producers
          PROVE  OutboxOf'[q] = IF q = p THEN m ELSE OutboxOf[q]
        <3>1. mem'[h] = m /\ h # NoHandle
            BY <1>1, <2>1, QueueAssumption
        <3>2. q = p => sending'[q] = h
            BY <1>1, <2>1
        <3>3. q # p => sending'[q] = sending[q]
            BY <1>1, <2>1
        <3> QED  BY <1>2, <2>3, <3>1, <3>2, <3>3 DEF OutboxOf
    <2>7. OutboxOf' = [OutboxOf EXCEPT ![p] = m]
        BY <2>6 DEF OutboxOf
    <2> QED  BY <1>5, <2>2, <2>4, <2>5, <2>7, FifoSteps
<1>7. ASSUME NEW p \in Producers, SendPut(p)
      PROVE  Fifo!Next
    <2>1. /\ sending[p] \in Handles /\ sending[p] # NoHandle /\ HasRoom
          /\ sending' = [sending EXCEPT ![p] = NoHandle]
          /\ queue' = [queue EXCEPT ![curWr] = sending[p]]
          /\ count' = count + 1
          /\ UNCHANGED <<curRd, mem, call, got>>
        BY <1>1, <1>7 DEF SendPut, InSend
    <2>2. FifoOf' = Append(FifoOf, mem[sending[p]]) /\ Len(FifoOf) = count
        BY <1>0, <2>1, FifoPut
    <2>3. OutboxOf[p] = mem[sending[p]] /\ OutboxOf[p] # NoMsg
        BY <1>2, <2>1, QueueAssumption DEF OutboxOf
    <2>4. OutboxOf' = [OutboxOf EXCEPT ![p] = NoMsg]
        BY <1>1, <2>1 DEF OutboxOf
    <2>5. Len(FifoOf) < OSA_MSGQ_LEN_MAX
        BY <2>1, <2>2 DEF HasRoom
    <2>6. FifoOf' = Append(FifoOf, OutboxOf[p])
        BY <2>2, <2>3
    <2> QED  BY <1>5, <2>1, <2>3, <2>4, <2>5, <2>6, FifoSteps
<1>8. ASSUME NEW c \in Consumers, NEW k \in Calls, RecvCall(c, k)
      PROVE  Fifo!Next
    <2>1. /\ call[c] = "idle" /\ call' = [call EXCEPT ![c] = k]
          /\ UNCHANGED <<curRd, count, queue, mem, sending, got>>
        BY <1>8 DEF RecvCall, ring
    <2>2. FifoOf' = FifoOf /\ OutboxOf' = OutboxOf
        BY <1>0, <1>4, <2>1, FifoFrame
    <2>3. AskingOf[c] = "no"
        BY <2>1 DEF AskingOf
    <2> DEFINE how == IF k = "CheckMsg" THEN "poll" ELSE "wait"
    <2>4. AskingOf' = [AskingOf EXCEPT ![c] = how] /\ how \in {"wait", "poll"}
        BY <1>0, <2>1, AskingChanges DEF Calls
    <2> HIDE DEF how
    <2> QED  BY <2>1, <2>2, <2>3, <2>4, FifoSteps
<1>9. ASSUME NEW c \in Consumers, InRecv(c), count > 0,
             got' = [got EXCEPT ![c] = mem[queue[curRd]]],
             call' = [call EXCEPT ![c] = "idle"],
             curRd' = Advance(curRd), count' = count - 1,
             UNCHANGED <<queue, sending>>,
             \A h \in heap \ {queue[curRd]} : mem'[h] = mem[h]
      PROVE  Fifo!Next
    <2>1. queue[curRd] \in QueuedHandles
        <3>1. curRd \in Window(curRd, count)
            BY <1>0, <1>9, QueueAssumption, WindowShrinks DEF RingOK, L
        <3> QED  BY <3>1, OccupiedIsWindow DEF QueuedHandles
    <2>2. /\ FifoOf' = Tail(FifoOf) /\ FifoOf # <<>>
          /\ Head(FifoOf) = mem[queue[curRd]]
        BY <1>0, <1>3, <1>9, FifoTake
    <2>3. OutboxOf' = OutboxOf
        BY <1>2, <1>4, <1>9, <2>1
    <2>4. AskingOf[c] # "no"
        BY <1>9 DEF AskingOf, InRecv
    <2>5. AskingOf' = [AskingOf EXCEPT ![c] = "no"]
        BY <1>0, <1>9, AskingChanges
    <2> QED  BY <1>9, <2>2, <2>3, <2>4, <2>5, FifoSteps
<1>10. ASSUME NEW c \in Consumers, RecvMsgEx(c) \/ RecvMsg(c)
       PROVE  Fifo!Next
    <2>1. \A h \in heap \ {queue[curRd]} : mem'[h] = mem[h]
        BY <1>1, <1>10 DEF RecvMsgEx, RecvMsg, Free
    <2> QED  BY <1>9, <1>10, <2>1 DEF RecvMsgEx, RecvMsg, TakeSlot
<1>11. ASSUME NEW c \in Consumers, RecvFail(c)
       PROVE  Fifo!Next
    <2>1. /\ call[c] = "CheckMsg" /\ count = 0
          /\ call' = [call EXCEPT ![c] = "idle"]
          /\ got' = [got EXCEPT ![c] = NoMsg]
          /\ UNCHANGED <<curRd, count, queue, mem, sending>>
        BY <1>11 DEF RecvFail, ring
    <2>2. FifoOf' = FifoOf /\ OutboxOf' = OutboxOf
        BY <1>0, <1>4, <2>1, FifoFrame
    <2>3. FifoOf = <<>>
        BY <2>1 DEF FifoOf
    <2>4. AskingOf[c] = "poll"
        BY <2>1 DEF AskingOf
    <2>5. AskingOf' = [AskingOf EXCEPT ![c] = "no"]
        BY <1>0, <2>1, AskingChanges
    <2> QED  BY <2>1, <2>2, <2>3, <2>4, <2>5, FifoSteps
<1>12. ASSUME UNCHANGED <<curRd, count, queue, sending, call, got>>,
              \A h \in heap \ HeldHandles : mem'[h] = mem[h]
       PROVE  UNCHANGED Abstract
    <2>1. \A h \in QueuedHandles : mem'[h] = mem[h]
        BY <1>12 DEF OInv, Owners
    <2>2. FifoOf' = FifoOf
        BY <1>0, <1>12, <2>1, FifoFrame
    <2>3. OutboxOf' = OutboxOf
        BY <1>2, <1>4, <1>12
    <2> QED  BY <1>5, <1>12, <2>2, <2>3 DEF Abstract
<1>13. ASSUME NEW c \in Consumers, FreeMsgHndl(c)
       PROVE  UNCHANGED Abstract
    <2>1. \A h \in heap \ HeldHandles : mem'[h] = mem[h]
        BY <1>1, <1>13 DEF FreeMsgHndl, Free, HeldHandles
    <2> QED  BY <1>12, <1>13, <2>1 DEF FreeMsgHndl, ring
<1>14. ASSUME NEW p \in Producers, SendBlock(p)
       PROVE  UNCHANGED Abstract
    BY <1>12, <1>14 DEF SendBlock, ring
<1>15. ASSUME NEW c \in Consumers, RecvBlock(c)
       PROVE  UNCHANGED Abstract
    BY <1>12, <1>15 DEF RecvBlock, ring
<1>16. ASSUME SpuriousWakeup \/ UNCHANGED vars
       PROVE  UNCHANGED Abstract
    BY <1>12, <1>16 DEF SpuriousWakeup, vars, ring
<1> QED
    BY <1>6, <1>7, <1>8, <1>10, <1>11, <1>13, <1>14, <1>15, <1>16
    DEF Next, Producer, Consumer

LEMMA StartsAsFifo == Init => Fifo!Init
<1> SUFFICES ASSUME Init PROVE Fifo!Init
    OBVIOUS
<1>1. [i \in 1 .. count |-> mem[queue[(curRd + i - 1) % OSA_MSGQ_LEN_MAX]]] = <<>>
    BY DEF Init
<1> QED  BY <1>1 DEF Init, Fifo!Init

\* The ring of handles is a FIFO of messages: each is accepted once, in the order of
\* the sends, and delivered once and unchanged (OSA_msgqSend, OSA_msgqRecvMsg,
\* OSA_msgqRecvMsgEx).
THEOREM RingIsFifo == Spec => ImplementsFifo
<1>1. Spec => [](IInv /\ OInv)
    BY InvHolds, InvKept, OwnersHold, OwnersKept, PTL DEF Spec
<1> QED
    BY <1>1, StartsAsFifo, StepsAreFifoSteps, PTL DEF Spec, ImplementsFifo, Fifo!Spec
=============================================================================
