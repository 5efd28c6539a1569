---------------------------- MODULE MotionProofs ----------------------------
(***************************************************************************)
(* Theorems about Motion, for every table, setting, stick, error, speed    *)
(* and position.  One section for each part: the lemmas about its          *)
(* operators, its inductive invariant, one lemma for each action, the      *)
(* theorems; the last section puts the parts together.                     *)
(***************************************************************************)
EXTENDS Motion, TLAPS, WellFoundedInduction, SequenceTheorems

(***************************************************************************)
(* The packets: motion commands are motions.                               *)
(***************************************************************************)

(***************************************************************************)
(* The bits of a byte.                                                     *)
(***************************************************************************)
LEMMA BitsOf ==
    ASSUME NEW n \in Nat
    PROVE  /\ Packets!Byte(n) \subseteq 0 .. 7
           /\ 0 \in Packets!Byte(n) <=> n % 2 = 1
           /\ 1 \in Packets!Byte(n) <=> (n \div 2) % 2 = 1
           /\ 2 \in Packets!Byte(n) <=> (n \div 4) % 2 = 1
           /\ 3 \in Packets!Byte(n) <=> (n \div 8) % 2 = 1
           /\ 4 \in Packets!Byte(n) <=> (n \div 16) % 2 = 1
           /\ 5 \in Packets!Byte(n) <=> (n \div 32) % 2 = 1
           /\ 6 \in Packets!Byte(n) <=> (n \div 64) % 2 = 1
           /\ 7 \in Packets!Byte(n) <=> (n \div 128) % 2 = 1
<1>1. ASSUME NEW b \in 0 .. 7
      PROVE  b \in Packets!Byte(n) <=> (n \div Packets!Weight[b + 1]) % 2 = 1
    BY DEF Packets!Byte
<1>2. /\ Packets!Weight[0 + 1] = 1 /\ Packets!Weight[1 + 1] = 2 /\ Packets!Weight[2 + 1] = 4
      /\ Packets!Weight[3 + 1] = 8 /\ Packets!Weight[4 + 1] = 16 /\ Packets!Weight[5 + 1] = 32
      /\ Packets!Weight[6 + 1] = 64 /\ Packets!Weight[7 + 1] = 128
    BY DEF Packets!Weight
<1>3. Packets!Byte(n) \subseteq 0 .. 7 /\ n \div 1 = n
    BY DEF Packets!Byte
<1>4. /\ 0 \in 0 .. 7 /\ 1 \in 0 .. 7 /\ 2 \in 0 .. 7 /\ 3 \in 0 .. 7
      /\ 4 \in 0 .. 7 /\ 5 \in 0 .. 7 /\ 6 \in 0 .. 7 /\ 7 \in 0 .. 7
    OBVIOUS
<1> QED
    BY <1>1, <1>2, <1>3, <1>4

\* The bits of a second byte that no request has together with directions.
LEMMA ExtendedBits == Packets!Byte(225) = {0, 5, 6, 7}
<1>1. Packets!Byte(225) \subseteq 0 .. 7
    BY BitsOf
<1>2. /\ 0 \in Packets!Byte(225) /\ 5 \in Packets!Byte(225)
      /\ 6 \in Packets!Byte(225) /\ 7 \in Packets!Byte(225)
      /\ 1 \notin Packets!Byte(225) /\ 2 \notin Packets!Byte(225)
      /\ 3 \notin Packets!Byte(225) /\ 4 \notin Packets!Byte(225)
    BY BitsOf
<1> QED  BY <1>1, <1>2

\* What is kept of the second byte of a request is at most one direction of each
\* axis.
LEMMA KeptDirections ==
    ASSUME NEW c \in SUBSET (0 .. 7)
    PROVE  /\ Packets!Kept(c) \subseteq {1, 2, 3, 4}
           /\ ~({1, 2} \subseteq Packets!Kept(c)) /\ ~({3, 4} \subseteq Packets!Kept(c))
<1>1. CASE c \cap {0, 5, 6, 7} # {} \/ {1, 2} \subseteq c \/ {3, 4} \subseteq c
    BY <1>1, ExtendedBits DEF Packets!Kept, Packets!Opposites, Packets!Up, Packets!Down,
       Packets!Left, Packets!Right
<1>2. CASE ~(c \cap {0, 5, 6, 7} # {} \/ {1, 2} \subseteq c \/ {3, 4} \subseteq c)
  <2>1. Packets!Kept(c) = c
      BY <1>2, ExtendedBits DEF Packets!Kept, Packets!Opposites, Packets!Up, Packets!Down,
         Packets!Left, Packets!Right
  <2>2. c \subseteq {1, 2, 3, 4}
      BY <1>2
  <2> QED  BY <1>2, <2>1, <2>2
<1> QED  BY <1>1, <1>2

\* A packet is the record of its four bytes.
LEMMA PacketRecord ==
    ASSUME NEW p \in Packets!Packets
    PROVE  /\ p.cmd1 \in SUBSET (0 .. 7) /\ p.cmd2 \in SUBSET (0 .. 7)
           /\ p.data1 \in 0 .. 255 /\ p.data2 \in 0 .. 255
           /\ p = [cmd1 |-> p.cmd1, cmd2 |-> p.cmd2, data1 |-> p.data1, data2 |-> p.data2]
BY DEF Packets!Packets

\* The two focus directions of format f in the bytes c1 and c2, the near one and
\* the far one.
Near(f, c1) == IF f = "D" THEN 0 \in c1 ELSE 1 \in c1
FarIn(f, c1, c2) == IF f = "D" THEN 7 \in c2 ELSE 0 \in c1

\* What a command a leaves in the bytes c1 and c2 of a buffer of format f; in the P
\* format no command, and not only a motion, asks for both focus directions.
Fine(f, c1, c2, a) ==
    /\ f = "P" => ~(0 \in c1 /\ 1 \in c1)
    /\ a.do # "other" =>
         /\ 0 \notin c2
         /\ ~(1 \in c2 /\ 2 \in c2) /\ ~(3 \in c2 /\ 4 \in c2) /\ ~(5 \in c2 /\ 6 \in c2)
         /\ ~(FarIn(f, c1, c2) /\ Near(f, c1))
         /\ IF a.do # "focus" THEN a.bit \in c2
            ELSE IF a.bit = 1 THEN FarIn(f, c1, c2) ELSE Near(f, c1)

FineOf(f, p, a) == p \in Packets!Packets /\ Fine(f, p.cmd1, p.cmd2, a)

PacketsInv == /\ packet \in [Packets!Formats -> Packets!Packets]
              /\ \A f \in Packets!Formats : Fine(f, packet[f].cmd1, packet[f].cmd2, asked)

\* The invariant is what the run checks of the packets, and more.
LEMMA PacketsShow == PacketsInv => Packets!TypeOK /\ Packets!MotionIsMotion
<1> SUFFICES ASSUME PacketsInv
             PROVE  Packets!TypeOK /\ Packets!MotionIsMotion
    OBVIOUS
<1>1. Packets!TypeOK
    BY DEF PacketsInv, Packets!TypeOK
<1>2. ASSUME asked.do # "other", NEW f \in Packets!Formats
      PROVE  /\ ~Packets!Extended(packet[f])
             /\ \A pair \in Packets!Opposites \cup {{Packets!Tele, Packets!Wide}} :
                    ~(pair \subseteq packet[f].cmd2)
             /\ ~(Packets!FarBit(f, packet[f]) /\ Packets!NearOf(f) \in packet[f].cmd1)
             /\ IF asked.do # "focus" THEN asked.bit \in packet[f].cmd2
                ELSE IF asked.bit = 1 THEN Packets!FarBit(f, packet[f])
                ELSE Packets!NearOf(f) \in packet[f].cmd1
  <2>1. Fine(f, packet[f].cmd1, packet[f].cmd2, asked)
      BY DEF PacketsInv
  <2>2. ~Packets!Extended(packet[f])
      BY <1>2, <2>1 DEF Fine, Packets!Extended, Packets!Reserved
  <2>3. \A pair \in Packets!Opposites \cup {{Packets!Tele, Packets!Wide}} :
            ~(pair \subseteq packet[f].cmd2)
      BY <1>2, <2>1 DEF Fine, Packets!Opposites, Packets!Tele, Packets!Wide, Packets!Up,
         Packets!Down, Packets!Left, Packets!Right
  <2>4. Packets!FarBit(f, packet[f]) <=> FarIn(f, packet[f].cmd1, packet[f].cmd2)
      BY DEF Packets!FarBit, Packets!FarOfD, Packets!FarOfP, FarIn
  <2>5. Packets!NearOf(f) \in packet[f].cmd1 <=> Near(f, packet[f].cmd1)
      BY DEF Packets!NearOf, Near
  <2> QED  BY <1>2, <2>1, <2>2, <2>3, <2>4, <2>5 DEF Fine
<1>3. Packets!MotionIsMotion
    BY <1>2 DEF Packets!MotionIsMotion
<1> QED  BY <1>1, <1>3

\* A command that leaves every buffer fine keeps the invariant.
LEMMA CommandKeeps ==
    ASSUME packet' = [f \in Packets!Formats |-> packet'[f]],
           \A f \in Packets!Formats : FineOf(f, packet'[f], asked')
    PROVE  PacketsInv'
<1>1. packet' \in [Packets!Formats -> Packets!Packets]
    BY DEF FineOf
<1> QED  BY <1>1 DEF PacketsInv, FineOf

\* MakeMove, after a clearing or not: one direction of the axis asked for.
LEMMA MoveMakes ==
    ASSUME NEW p \in Packets!Packets, NEW d \in {1, 2, 3, 4}, NEW s \in 0 .. 255,
           NEW clear \in BOOLEAN, NEW f \in Packets!Formats
    PROVE  FineOf(f, Packets!MakeMove(p, d, s, clear), [do |-> "move", bit |-> d])
<1> DEFINE c == IF clear THEN {} ELSE Packets!Kept(p.cmd2)
           q == IF clear THEN Packets!PktFormat({}, {}, 0, 0)
                ELSE [p EXCEPT !.cmd1 = {}, !.cmd2 = Packets!Kept(@)]
           r == Packets!MakeMove(p, d, s, clear)
<1>1. /\ c \subseteq {1, 2, 3, 4} /\ ~({1, 2} \subseteq c) /\ ~({3, 4} \subseteq c)
  <2>1. p.cmd2 \in SUBSET (0 .. 7)
      BY PacketRecord
  <2> QED  BY <2>1, KeptDirections
<1>2. /\ q.cmd1 = {} /\ q.cmd2 = c /\ q.data1 \in 0 .. 255 /\ q.data2 \in 0 .. 255
      /\ q = [cmd1 |-> q.cmd1, cmd2 |-> q.cmd2, data1 |-> q.data1, data2 |-> q.data2]
  <2>1. CASE clear
      BY <2>1 DEF Packets!PktFormat
  <2>2. CASE ~clear
    <3>1. q = [p EXCEPT !.cmd1 = {}, !.cmd2 = Packets!Kept(p.cmd2)] /\ c = Packets!Kept(p.cmd2)
        BY <2>2
    <3> HIDE DEF q, c, r
    <3>3. p = [cmd1 |-> p.cmd1, cmd2 |-> p.cmd2, data1 |-> p.data1, data2 |-> p.data2]
        BY PacketRecord
    <3>2. q = [cmd1 |-> {}, cmd2 |-> c, data1 |-> p.data1, data2 |-> p.data2]
        BY <3>1, <3>3
    <3> QED  BY <3>2, PacketRecord
  <2> QED  BY <2>1, <2>2
<1>3. /\ d \in {3, 4} => r = [q EXCEPT !.cmd2 = (@ \ {3, 4}) \cup {d}, !.data2 = s]
      /\ d \in {1, 2} => r = [q EXCEPT !.cmd2 = (@ \ {2, 1}) \cup {d}, !.data1 = s]
    BY DEF Packets!MakeMove, Packets!Up, Packets!Down, Packets!Left, Packets!Right, Packets!Halt
<1> HIDE DEF c, q, r
<1>4. CASE d \in {3, 4}
  <2> DEFINE e == (c \ {3, 4}) \cup {d}
  <2>1. r = [cmd1 |-> {}, cmd2 |-> e, data1 |-> q.data1, data2 |-> s]
      BY <1>2, <1>3, <1>4
  <2>2. /\ e \in SUBSET (0 .. 7) /\ 0 \notin e /\ 5 \notin e /\ 7 \notin e /\ d \in e
        /\ ~(1 \in e /\ 2 \in e) /\ ~(3 \in e /\ 4 \in e)
      BY <1>1, <1>4
  <2> HIDE DEF e
  <2>3. r \in Packets!Packets
      BY <1>2, <2>1, <2>2 DEF Packets!Packets
  <2> QED  BY <2>1, <2>2, <2>3 DEF FineOf, Fine, Near, FarIn, r, Packets!Formats
<1>5. CASE d \in {1, 2}
  <2> DEFINE e == (c \ {2, 1}) \cup {d}
  <2>1. r = [cmd1 |-> {}, cmd2 |-> e, data1 |-> s, data2 |-> q.data2]
      BY <1>2, <1>3, <1>5
  <2>2. /\ e \in SUBSET (0 .. 7) /\ 0 \notin e /\ 5 \notin e /\ 7 \notin e /\ d \in e
        /\ ~(1 \in e /\ 2 \in e) /\ ~(3 \in e /\ 4 \in e)
      BY <1>1, <1>5
  <2> HIDE DEF e
  <2>3. r \in Packets!Packets
      BY <1>2, <2>1, <2>2 DEF Packets!Packets
  <2> QED  BY <2>1, <2>2, <2>3 DEF FineOf, Fine, Near, FarIn, r, Packets!Formats
<1> QED  BY <1>4, <1>5

\* The commands keep the invariant.
LEMMA MoveKeeps ==
    ASSUME Packets!PelcoPacketsAssumption, PacketsInv, Packets!Move
    PROVE  PacketsInv'
<1>0. PICK d \in {Packets!Up, Packets!Down, Packets!Left, Packets!Right}, s \in Speeds,
         clear \in BOOLEAN :
      Packets!Make(LAMBDA f, p : Packets!MakeMove(p, d, s, clear),
                   [do |-> "move", bit |-> d])
    BY DEF Packets!Move
<1>1. /\ packet' = [f \in Packets!Formats |-> Packets!MakeMove(packet[f], d, s, clear)]
      /\ asked' = [do |-> "move", bit |-> d]
    BY <1>0 DEF Packets!Make
<1>2. s \in 0 .. 255
    BY Packets!PelcoPacketsAssumption DEF Packets!PelcoPacketsAssumption
<1>4. d \in {1, 2, 3, 4}
    BY DEF Packets!Up, Packets!Down, Packets!Left, Packets!Right
<1>3. \A f \in Packets!Formats : FineOf(f, packet'[f], asked')
    BY <1>1, <1>2, <1>4, MoveMakes DEF PacketsInv
<1> QED  BY <1>1, <1>3, CommandKeeps

\* A request with some of its bytes changed.
LEMMA FirstChanged ==
    ASSUME NEW p \in Packets!Packets, NEW c \in SUBSET (0 .. 7)
    PROVE  LET q == [p EXCEPT !.cmd1 = c]
           IN  q \in Packets!Packets /\ q.cmd1 = c /\ q.cmd2 = p.cmd2
BY DEF Packets!Packets

\* A command that changes the second byte only.
LEMMA SecondChanged ==
    ASSUME NEW p \in Packets!Packets, NEW c \in SUBSET (0 .. 7)
    PROVE  LET q == [p EXCEPT !.cmd2 = c]
           IN  q \in Packets!Packets /\ q.cmd1 = p.cmd1 /\ q.cmd2 = c
BY DEF Packets!Packets

\* A command that changes both.
LEMMA BothChanged ==
    ASSUME NEW p \in Packets!Packets, NEW c \in SUBSET (0 .. 7), NEW e \in SUBSET (0 .. 7)
    PROVE  LET q == [p EXCEPT !.cmd1 = c, !.cmd2 = e]
           IN  q \in Packets!Packets /\ q.cmd1 = c /\ q.cmd2 = e
BY DEF Packets!Packets

\* A packet made from nothing.
LEMMA Formatted ==
    ASSUME NEW c \in SUBSET (0 .. 7), NEW e \in SUBSET (0 .. 7),
           NEW m \in 0 .. 255, NEW n \in 0 .. 255
    PROVE  LET q == Packets!PktFormat(c, e, m, n)
           IN  q \in Packets!Packets /\ q.cmd1 = c /\ q.cmd2 = e
BY DEF Packets!PktFormat, Packets!Packets

\* What the zoom and focus commands keep of the second byte.
LEMMA KeptBits ==
    ASSUME NEW p \in Packets!Packets
    PROVE  /\ Packets!Kept(p.cmd2) \in SUBSET (0 .. 7)
           /\ 0 \notin Packets!Kept(p.cmd2) /\ 5 \notin Packets!Kept(p.cmd2)
           /\ 6 \notin Packets!Kept(p.cmd2) /\ 7 \notin Packets!Kept(p.cmd2)
           /\ ~(1 \in Packets!Kept(p.cmd2) /\ 2 \in Packets!Kept(p.cmd2))
           /\ ~(3 \in Packets!Kept(p.cmd2) /\ 4 \in Packets!Kept(p.cmd2))
<1>1. p.cmd2 \in SUBSET (0 .. 7)
    BY PacketRecord
<1>2. /\ Packets!Kept(p.cmd2) \subseteq {1, 2, 3, 4}
      /\ ~({1, 2} \subseteq Packets!Kept(p.cmd2)) /\ ~({3, 4} \subseteq Packets!Kept(p.cmd2))
    BY <1>1, KeptDirections
<1> QED  BY <1>2

\* Zoom, in both formats: one of the two directions, whatever the buffer held.
LEMMA ZoomMakes ==
    ASSUME NEW p \in Packets!Packets, NEW f \in Packets!Formats,
           NEW a, Fine(f, p.cmd1, p.cmd2, a)
    PROVE  /\ FineOf(f, Packets!MakeZoomWide(p), [do |-> "zoom", bit |-> Packets!Wide])
           /\ FineOf(f, Packets!MakeZoomTele(p), [do |-> "zoom", bit |-> Packets!Tele])
           /\ FineOf(f, Packets!MakeZoomStop(p), Packets!NoMotion)
<1> DEFINE k == Packets!Kept(p.cmd2)
<1>1. /\ k \in SUBSET (0 .. 7) /\ 0 \notin k /\ 7 \notin k
      /\ ~(1 \in k /\ 2 \in k) /\ ~(3 \in k /\ 4 \in k)
    BY KeptBits
<1>2. p.cmd2 \in SUBSET (0 .. 7)
    BY PacketRecord
<1>3. FineOf(f, Packets!MakeZoomWide(p), [do |-> "zoom", bit |-> Packets!Wide])
  <2> DEFINE e == (k \cup {6}) \ {5}
             q == Packets!MakeZoomWide(p)
  <2>1. q = [p EXCEPT !.cmd2 = e]
      BY DEF Packets!MakeZoomWide, Packets!Wide, Packets!Tele
  <2> HIDE DEF k, q
  <2>2. /\ e \in SUBSET (0 .. 7) /\ 0 \notin e /\ 5 \notin e /\ 6 \in e /\ 7 \notin e
        /\ ~(1 \in e /\ 2 \in e) /\ ~(3 \in e /\ 4 \in e)
      BY <1>1
  <2> HIDE DEF e
  <2>3. q \in Packets!Packets /\ q.cmd1 = p.cmd1 /\ q.cmd2 = e
      BY <2>1, <2>2, SecondChanged
  <2>4. Fine(f, q.cmd1, q.cmd2, [do |-> "zoom", bit |-> 6])
      BY <2>2, <2>3 DEF Fine, Near, FarIn, Packets!Formats
  <2> QED  BY <2>3, <2>4 DEF FineOf, q, Packets!Wide
<1>4. FineOf(f, Packets!MakeZoomTele(p), [do |-> "zoom", bit |-> Packets!Tele])
  <2> DEFINE e == (k \cup {5}) \ {6}
             q == Packets!MakeZoomTele(p)
  <2>1. q = [p EXCEPT !.cmd2 = e]
      BY DEF Packets!MakeZoomTele, Packets!Wide, Packets!Tele
  <2> HIDE DEF k, q
  <2>2. /\ e \in SUBSET (0 .. 7) /\ 0 \notin e /\ 6 \notin e /\ 5 \in e /\ 7 \notin e
        /\ ~(1 \in e /\ 2 \in e) /\ ~(3 \in e /\ 4 \in e)
      BY <1>1
  <2> HIDE DEF e
  <2>3. q \in Packets!Packets /\ q.cmd1 = p.cmd1 /\ q.cmd2 = e
      BY <2>1, <2>2, SecondChanged
  <2>4. Fine(f, q.cmd1, q.cmd2, [do |-> "zoom", bit |-> 5])
      BY <2>2, <2>3 DEF Fine, Near, FarIn, Packets!Formats
  <2> QED  BY <2>3, <2>4 DEF FineOf, q, Packets!Tele
<1>5. FineOf(f, Packets!MakeZoomStop(p), Packets!NoMotion)
  <2> DEFINE e == p.cmd2 \ {5, 6}
             q == Packets!MakeZoomStop(p)
  <2>1. q = [p EXCEPT !.cmd2 = e]
      BY DEF Packets!MakeZoomStop, Packets!Wide, Packets!Tele
  <2> HIDE DEF q
  <2>2. q \in Packets!Packets /\ q.cmd1 = p.cmd1
      BY <1>2, <2>1, SecondChanged
  <2> QED  BY <2>2 DEF FineOf, Fine, Packets!NoMotion, q
<1> QED  BY <1>3, <1>4, <1>5

\* Focus, whose bits the two formats keep in different bytes.
LEMMA FocusMakes ==
    ASSUME NEW p \in Packets!Packets, NEW f \in Packets!Formats,
           NEW a, Fine(f, p.cmd1, p.cmd2, a)
    PROVE  /\ FineOf(f, Packets!MakeFocusFar(f, p), [do |-> "focus", bit |-> 1])
           /\ FineOf(f, Packets!MakeFocusNear(f, p), [do |-> "focus", bit |-> 0])
           /\ FineOf(f, Packets!MakeFocusStop(f, p), Packets!NoMotion)
<1> DEFINE k == Packets!Kept(p.cmd2)
<1>1. /\ k \in SUBSET (0 .. 7) /\ 0 \notin k /\ 5 \notin k /\ 6 \notin k /\ 7 \notin k
      /\ ~(1 \in k /\ 2 \in k) /\ ~(3 \in k /\ 4 \in k)
    BY KeptBits
<1>2. p.cmd1 \in SUBSET (0 .. 7) /\ p.cmd2 \in SUBSET (0 .. 7)
    BY PacketRecord
<1>3. f \in {"D", "P"}
    BY DEF Packets!Formats
<1>4. FineOf(f, Packets!MakeFocusFar(f, p), [do |-> "focus", bit |-> 1])
  <2> DEFINE c == IF f = "D" THEN p.cmd1 \ {0} ELSE (p.cmd1 \ {1}) \cup {0}
             e == IF f = "D" THEN k \cup {7} ELSE k
             q == Packets!MakeFocusFar(f, p)
  <2>1. q = [p EXCEPT !.cmd1 = c, !.cmd2 = e]
    <3>1. CASE f = "D"
        BY <3>1 DEF Packets!MakeFocusFar, Packets!NearOf, Packets!FarOfD
    <3>2. CASE f # "D"
        BY <3>2 DEF Packets!MakeFocusFar, Packets!NearOf, Packets!FarOfP
    <3> QED  BY <3>1, <3>2
  <2> HIDE DEF k, q
  <2>2. /\ c \in SUBSET (0 .. 7) /\ e \in SUBSET (0 .. 7)
        /\ 0 \notin e /\ 5 \notin e /\ 6 \notin e
        /\ ~(1 \in e /\ 2 \in e) /\ ~(3 \in e /\ 4 \in e)
        /\ f = "D" => 0 \notin c /\ 7 \in e
        /\ f # "D" => 1 \notin c /\ 0 \in c
      BY <1>1, <1>2
  <2> HIDE DEF c, e
  <2>3. q \in Packets!Packets /\ q.cmd1 = c /\ q.cmd2 = e
      BY <2>1, <2>2 DEF Packets!Packets
  <2> QED  BY <1>3, <2>2, <2>3 DEF FineOf, Fine, Near, FarIn, q
<1>5. FineOf(f, Packets!MakeFocusNear(f, p), [do |-> "focus", bit |-> 0])
  <2> DEFINE c == IF f = "D" THEN p.cmd1 \cup {0} ELSE (p.cmd1 \cup {1}) \ {0}
             e == IF f = "D" THEN k \ {7} ELSE k
             q == Packets!MakeFocusNear(f, p)
  <2>1. q = [p EXCEPT !.cmd1 = c, !.cmd2 = e]
    <3>1. CASE f = "D"
        BY <3>1 DEF Packets!MakeFocusNear, Packets!NearOf, Packets!FarOfD
    <3>2. CASE f # "D"
        BY <3>2 DEF Packets!MakeFocusNear, Packets!NearOf, Packets!FarOfP
    <3> QED  BY <3>1, <3>2
  <2> HIDE DEF k, q
  <2>2. /\ c \in SUBSET (0 .. 7) /\ e \in SUBSET (0 .. 7)
        /\ 0 \notin e /\ 5 \notin e /\ 6 \notin e /\ 7 \notin e
        /\ ~(1 \in e /\ 2 \in e) /\ ~(3 \in e /\ 4 \in e)
        /\ f = "D" => 0 \in c
        /\ f # "D" => 0 \notin c /\ 1 \in c
      BY <1>1, <1>2
  <2> HIDE DEF c, e
  <2>3. q \in Packets!Packets /\ q.cmd1 = c /\ q.cmd2 = e
      BY <2>1, <2>2 DEF Packets!Packets
  <2> QED  BY <1>3, <2>2, <2>3 DEF FineOf, Fine, Near, FarIn, q
<1>6. FineOf(f, Packets!MakeFocusStop(f, p), Packets!NoMotion)
  <2> DEFINE q == Packets!MakeFocusStop(f, p)
  <2>1. CASE f = "D"
    <3>1. q = [p EXCEPT !.cmd1 = p.cmd1 \ {0}, !.cmd2 = p.cmd2 \ {7}]
        BY <2>1 DEF Packets!MakeFocusStop, Packets!NearOf, Packets!FarOfD
    <3> HIDE DEF q
    <3>2. q \in Packets!Packets
        BY <1>2, <3>1, BothChanged
    <3> QED  BY <2>1, <3>2 DEF FineOf, Fine, Packets!NoMotion, q
  <2>2. CASE f # "D"
    <3>1. q = [p EXCEPT !.cmd1 = {}]
        BY <2>2 DEF Packets!MakeFocusStop
    <3> HIDE DEF q
    <3>2. q \in Packets!Packets /\ q.cmd1 = {}
        BY <3>1, FirstChanged
    <3> QED  BY <3>2 DEF FineOf, Fine, Packets!NoMotion, q
  <2> QED  BY <2>1, <2>2
<1> QED  BY <1>4, <1>5, <1>6

\* The commands that are no motions: their requests, for any buffer p.
LEMMA OthersMake ==
    ASSUME NEW p \in Packets!Packets, NEW f \in Packets!Formats,
           NEW a, Fine(f, p.cmd1, p.cmd2, a)
    PROVE  /\ FineOf(f, Packets!MakeIrisOpen(f, p), Packets!NoMotion)
           /\ FineOf(f, Packets!MakeIrisClose(f, p), Packets!NoMotion)
           /\ FineOf(f, Packets!MakeAutoScan(f, p), Packets!NoMotion)
           /\ FineOf(f, Packets!MakeCameraOn, Packets!NoMotion)
           /\ FineOf(f, Packets!MakeCameraOff, Packets!NoMotion)
           /\ FineOf(f, Packets!MakeMove(p, Packets!Halt, 0, TRUE), Packets!NoMotion)
           /\ FineOf(f, Packets!MakeMove(p, Packets!Halt, 0, FALSE), Packets!NoMotion)
<1>1. \A q \in Packets!Packets :
          (f = "P" => ~(0 \in q.cmd1 /\ 1 \in q.cmd1)) => FineOf(f, q, Packets!NoMotion)
    BY DEF FineOf, Fine, Packets!NoMotion
<1>2. ASSUME NEW c \in SUBSET (0 .. 7), ~(0 \in c /\ 1 \in c)
      PROVE  /\ FineOf(f, [p EXCEPT !.cmd1 = c], Packets!NoMotion)
             /\ FineOf(f, [p EXCEPT !.cmd1 = c, !.cmd2 = {}], Packets!NoMotion)
  <2>1. /\ [p EXCEPT !.cmd1 = c] \in Packets!Packets
        /\ [p EXCEPT !.cmd1 = c].cmd1 = c
      BY DEF Packets!Packets
  <2>2. /\ [p EXCEPT !.cmd1 = c, !.cmd2 = {}] \in Packets!Packets
        /\ [p EXCEPT !.cmd1 = c, !.cmd2 = {}].cmd1 = c
      BY DEF Packets!Packets
  <2> QED  BY <1>1, <1>2, <2>1, <2>2
<1>3. /\ FineOf(f, Packets!MakeIrisOpen(f, p), Packets!NoMotion)
      /\ FineOf(f, Packets!MakeIrisClose(f, p), Packets!NoMotion)
  <2>1. Packets!IrisOpen(f) \in 0 .. 7 /\ Packets!IrisClose(f) \in 0 .. 7
      BY DEF Packets!IrisOpen, Packets!IrisClose
  <2>2. \A n \in 0 .. 7 : FineOf(f, [p EXCEPT !.cmd1 = {n}], Packets!NoMotion)
    <3> SUFFICES ASSUME NEW n \in 0 .. 7
                 PROVE  FineOf(f, [p EXCEPT !.cmd1 = {n}], Packets!NoMotion)
        OBVIOUS
    <3>1. {n} \in SUBSET (0 .. 7) /\ ~(0 \in {n} /\ 1 \in {n})
        OBVIOUS
    <3> QED  BY <1>2, <3>1
  <2> QED  BY <2>1, <2>2 DEF Packets!MakeIrisOpen, Packets!MakeIrisClose
<1>4. FineOf(f, Packets!MakeAutoScan(f, p), Packets!NoMotion)
  <2>1. Packets!AutoScan(f) \in 0 .. 7
      BY DEF Packets!AutoScan
  <2>2. LET c == {Packets!AutoScan(f)} IN c \in SUBSET (0 .. 7) /\ ~(0 \in c /\ 1 \in c)
      BY <2>1
  <2>3. FineOf(f, [p EXCEPT !.cmd1 = {Packets!AutoScan(f)}, !.cmd2 = {}], Packets!NoMotion)
      BY <1>2, <2>2
  <2> QED  BY <2>3 DEF Packets!MakeAutoScan
<1>5. /\ Packets!Byte(136) \in SUBSET (0 .. 7) /\ 0 \notin Packets!Byte(136)
      /\ Packets!Byte(8) \in SUBSET (0 .. 7) /\ 0 \notin Packets!Byte(8)
    BY BitsOf
<1>6. ASSUME NEW c \in SUBSET (0 .. 7), 0 \notin c
      PROVE  FineOf(f, Packets!PktFormat(c, {}, 0, 0), Packets!NoMotion)
  <2>1. /\ Packets!PktFormat(c, {}, 0, 0) \in Packets!Packets
        /\ Packets!PktFormat(c, {}, 0, 0).cmd1 = c
      BY DEF Packets!PktFormat, Packets!Packets
  <2> QED  BY <1>1, <1>6, <2>1
<1>7. /\ FineOf(f, Packets!MakeCameraOn, Packets!NoMotion)
      /\ FineOf(f, Packets!MakeCameraOff, Packets!NoMotion)
    BY <1>5, <1>6 DEF Packets!MakeCameraOn, Packets!MakeCameraOff
<1>8. /\ Packets!MakeMove(p, Packets!Halt, 0, TRUE) = Packets!PktFormat({}, {}, 0, 0)
      /\ Packets!MakeMove(p, Packets!Halt, 0, FALSE) = Packets!PktFormat({}, {}, 0, 0)
    BY DEF Packets!MakeMove, Packets!Halt, Packets!Up, Packets!Down, Packets!Left,
       Packets!Right
<1>9. FineOf(f, Packets!PktFormat({}, {}, 0, 0), Packets!NoMotion)
    BY <1>6
<1> QED  BY <1>3, <1>4, <1>7, <1>8, <1>9

\* An extended command: both bytes of its data, and nothing in its first byte.
LEMMA ExtendedMakes ==
    ASSUME NEW c \in 0 .. 255, NEW m \in 0 .. 255, NEW n \in 0 .. 255,
           NEW f \in Packets!Formats
    PROVE  FineOf(f, Packets!MakeExtCommand(c, m, n), Packets!NoMotion)
<1>1. Packets!Byte(c) \in SUBSET (0 .. 7)
    BY BitsOf
<1>2. /\ Packets!MakeExtCommand(c, m, n) \in Packets!Packets
      /\ Packets!MakeExtCommand(c, m, n).cmd1 = {}
    BY <1>1, Formatted DEF Packets!MakeExtCommand
<1> QED  BY <1>2 DEF FineOf, Fine, Packets!NoMotion

\* A position is asked for or set: an extended packet, and no motion.
LEMMA PositionMakes ==
    ASSUME NEW c \in 0 .. 255, NEW v \in Nat, NEW f \in Packets!Formats
    PROVE  FineOf(f, Packets!Position(c, v), Packets!NoMotion)
<1>1. Packets!Byte(c) \in SUBSET (0 .. 7)
    BY BitsOf
<1>2. (v \div 256) % 256 \in 0 .. 255 /\ v % 256 \in 0 .. 255
    OBVIOUS
<1>3. /\ Packets!Position(c, v) \in Packets!Packets
      /\ Packets!Position(c, v).cmd1 = {}
    BY <1>1, <1>2 DEF Packets!Position, Packets!PktFormat, Packets!Packets
<1> QED  BY <1>3 DEF FineOf, Fine, Packets!NoMotion

\* The position commands are of the D format; the P buffer stays.
LEMMA OnlyDMakes ==
    ASSUME PacketsInv, NEW q,
           FineOf("D", q, Packets!NoMotion),
           packet' = [f \in Packets!Formats |-> Packets!OnlyD(f, packet[f], q)],
           asked' = Packets!NoMotion
    PROVE  PacketsInv'
<1>1. ASSUME NEW f \in Packets!Formats
      PROVE  FineOf(f, packet'[f], asked')
  <2>1. CASE f = "D"
    <3>1. packet'[f] = q
        BY <2>1 DEF Packets!OnlyD
    <3> QED  BY <2>1, <3>1
  <2>2. CASE f # "D"
    <3>1. packet'[f] = packet[f]
        BY <2>2 DEF Packets!OnlyD
    <3> QED  BY <3>1 DEF PacketsInv, FineOf, Fine, Packets!NoMotion
  <2> QED  BY <2>1, <2>2
<1> QED  BY <1>1, CommandKeeps

\* The buffers begin empty, and every command keeps the invariant.
LEMMA PacketsStart == Packets!Init => PacketsInv
<1> SUFFICES ASSUME Packets!Init
             PROVE  PacketsInv
    OBVIOUS
<1>1. /\ Packets!PktFormat({}, {}, 0, 0) \in Packets!Packets
      /\ Packets!PktFormat({}, {}, 0, 0).cmd1 = {}
    BY DEF Packets!PktFormat, Packets!Packets
<1>2. /\ packet \in [Packets!Formats -> Packets!Packets]
      /\ \A f \in Packets!Formats : packet[f].cmd1 = {}
      /\ asked.do = "other"
    BY <1>1 DEF Packets!Init, Packets!NoMotion
<1> QED  BY <1>2 DEF PacketsInv, Fine

LEMMA StopKeeps ==
    ASSUME PacketsInv, Packets!Stop
    PROVE  PacketsInv'
<1>1. PICK clear \in BOOLEAN :
         /\ packet' = [f \in Packets!Formats |->
                          Packets!MakeMove(packet[f], Packets!Halt, 0, clear)]
         /\ asked' = Packets!NoMotion
    BY DEF Packets!Stop, Packets!Make
<1>2. \A f \in Packets!Formats : FineOf(f, packet'[f], asked')
    BY <1>1, OthersMake DEF PacketsInv
<1> QED  BY <1>1, <1>2, CommandKeeps

LEMMA ZoomKeeps ==
    ASSUME PacketsInv, Packets!Zoom
    PROVE  PacketsInv'
<1>1. \/ /\ packet' = [f \in Packets!Formats |-> Packets!MakeZoomWide(packet[f])]
         /\ asked' = [do |-> "zoom", bit |-> Packets!Wide]
      \/ /\ packet' = [f \in Packets!Formats |-> Packets!MakeZoomTele(packet[f])]
         /\ asked' = [do |-> "zoom", bit |-> Packets!Tele]
      \/ /\ packet' = [f \in Packets!Formats |-> Packets!MakeZoomStop(packet[f])]
         /\ asked' = Packets!NoMotion
    BY DEF Packets!Zoom, Packets!Make
<1>2. \A f \in Packets!Formats : FineOf(f, packet'[f], asked')
    BY <1>1, ZoomMakes DEF PacketsInv
<1> QED  BY <1>1, <1>2, CommandKeeps

LEMMA FocusKeeps ==
    ASSUME PacketsInv, Packets!Focus
    PROVE  PacketsInv'
<1>1. \/ /\ packet' = [f \in Packets!Formats |-> Packets!MakeFocusFar(f, packet[f])]
         /\ asked' = [do |-> "focus", bit |-> 1]
      \/ /\ packet' = [f \in Packets!Formats |-> Packets!MakeFocusNear(f, packet[f])]
         /\ asked' = [do |-> "focus", bit |-> 0]
      \/ /\ packet' = [f \in Packets!Formats |-> Packets!MakeFocusStop(f, packet[f])]
         /\ asked' = Packets!NoMotion
    BY DEF Packets!Focus, Packets!Make
<1>2. \A f \in Packets!Formats : FineOf(f, packet'[f], asked')
    BY <1>1, FocusMakes DEF PacketsInv
<1> QED  BY <1>1, <1>2, CommandKeeps

LEMMA IrisAndCameraKeep ==
    ASSUME PacketsInv, Packets!Iris \/ Packets!Camera
    PROVE  PacketsInv'
<1>1. FineOf("D", Packets!MakeRemoteReset, Packets!NoMotion) /\
      FineOf("P", Packets!MakeRemoteReset, Packets!NoMotion)
  <2>1. 15 \in 0 .. 255 /\ 0 \in 0 .. 255 /\ "D" \in Packets!Formats /\ "P" \in Packets!Formats
      BY DEF Packets!Formats
  <2> QED  BY <2>1, ExtendedMakes DEF Packets!MakeRemoteReset
<1>2. /\ asked' = Packets!NoMotion
      /\ \/ packet' = [f \in Packets!Formats |-> Packets!MakeIrisOpen(f, packet[f])]
         \/ packet' = [f \in Packets!Formats |-> Packets!MakeIrisClose(f, packet[f])]
         \/ packet' = [f \in Packets!Formats |-> Packets!MakeCameraOn]
         \/ packet' = [f \in Packets!Formats |-> Packets!MakeCameraOff]
         \/ packet' = [f \in Packets!Formats |-> Packets!MakeAutoScan(f, packet[f])]
         \/ packet' = [f \in Packets!Formats |-> Packets!MakeRemoteReset]
    BY DEF Packets!Iris, Packets!Camera, Packets!Make
<1>3. \A f \in Packets!Formats : FineOf(f, packet'[f], asked')
    BY <1>1, <1>2, OthersMake DEF PacketsInv, Packets!Formats
<1> QED  BY <1>2, <1>3, CommandKeeps

LEMMA AskKeeps ==
    ASSUME PacketsInv, Packets!Ask
    PROVE  PacketsInv'
<1>1. PICK q \in {Packets!QueryPanPos, Packets!QueryTiltPos, Packets!QueryZoomPos,
                  Packets!MakeDummy} :
         /\ packet' = [f \in Packets!Formats |-> Packets!OnlyD(f, packet[f], q)]
         /\ asked' = Packets!NoMotion
    BY DEF Packets!Ask, Packets!Make
<1>2. FineOf("D", q, Packets!NoMotion)
  <2>1. PICK c \in {81, 83, 85, 13} : q = Packets!MakeExtCommand(c, 0, 0)
      BY DEF Packets!QueryPanPos, Packets!QueryTiltPos, Packets!QueryZoomPos,
         Packets!MakeDummy
  <2>2. c \in 0 .. 255 /\ 0 \in 0 .. 255 /\ "D" \in Packets!Formats
      BY DEF Packets!Formats
  <2> QED  BY <2>1, <2>2, ExtendedMakes
<1> QED  BY <1>1, <1>2, OnlyDMakes

LEMMA GoKeeps ==
    ASSUME PacketsInv, Packets!Go
    PROVE  PacketsInv'
<1>0. PICK v \in Values :
         \E q \in {Packets!MakeSetPanPos(v), Packets!MakeSetTilPos(v),
                   Packets!MakeSetZoomPos(v)} :
             /\ packet' = [f \in Packets!Formats |-> Packets!OnlyD(f, packet[f], q)]
             /\ asked' = Packets!NoMotion
    BY DEF Packets!Go, Packets!Make
<1>1. PICK q \in {Packets!MakeSetPanPos(v), Packets!MakeSetTilPos(v),
                  Packets!MakeSetZoomPos(v)} :
         /\ packet' = [f \in Packets!Formats |-> Packets!OnlyD(f, packet[f], q)]
         /\ asked' = Packets!NoMotion
    BY <1>0
<1>2. /\ Packets!Clamped(v, 0, 35999) \in Nat
      /\ Packets!Clamped(v, 2849, 65535) \in Nat
  <2>1. v \in Nat
      BY MotionAssumption DEF MotionAssumption, Packets!PelcoPacketsAssumption, Packets!Word
  <2> QED  BY <2>1 DEF Packets!Clamped
<1>3. FineOf("D", q, Packets!NoMotion)
    BY <1>2, PositionMakes DEF Packets!MakeSetPanPos, Packets!MakeSetTilPos,
       Packets!MakeSetZoomPos, Packets!Formats
<1> QED  BY <1>1, <1>3, OnlyDMakes

LEMMA ExtendKeeps ==
    ASSUME PacketsInv, Packets!Extend
    PROVE  PacketsInv'
<1>1. PICK c \in Queries, s \in Speeds :
         /\ packet' \in {[f \in Packets!Formats |-> Packets!MakeExtCommand(n, s, 0)] :
                            n \in {c, 37, 39}}
         /\ asked' = Packets!NoMotion
    BY DEF Packets!Extend, Packets!Make, Packets!MakePresetCtrl, Packets!MakeSetZoomSpeed,
       Packets!MakeSetFocusSpeed
<1>2. PICK n \in {c, 37, 39} :
         packet' = [f \in Packets!Formats |-> Packets!MakeExtCommand(n, s, 0)]
    BY <1>1
<1>3. n \in 0 .. 255 /\ s \in 0 .. 255 /\ 0 \in 0 .. 255
    BY MotionAssumption DEF MotionAssumption, Packets!PelcoPacketsAssumption
<1>4. ASSUME NEW f \in Packets!Formats
      PROVE  FineOf(f, packet'[f], asked')
  <2>1. packet'[f] = Packets!MakeExtCommand(n, s, 0)
      BY <1>2
  <2>2. FineOf(f, Packets!MakeExtCommand(n, s, 0), Packets!NoMotion)
      BY <1>3, ExtendedMakes
  <2> QED  BY <1>1, <2>1, <2>2
<1> QED  BY <1>2, <1>4, CommandKeeps

LEMMA PacketsKeep == PacketsInv /\ [Packets!Next]_packetVars => PacketsInv'
<1> SUFFICES ASSUME PacketsInv, [Packets!Next]_packetVars
             PROVE  PacketsInv'
    OBVIOUS
<1>1. CASE UNCHANGED packetVars
    BY <1>1 DEF packetVars, PacketsInv, Fine, FarIn, Near
<1>2. CASE Packets!Move
    BY <1>2, MoveKeeps, MotionAssumption DEF MotionAssumption
<1> QED  BY <1>1, <1>2, StopKeeps, ZoomKeeps, FocusKeeps, IrisAndCameraKeep, AskKeeps,
            GoKeeps, ExtendKeeps DEF Packets!Next

-----------------------------------------------------------------------------
PacketsPart == part = "packets" => PacketsInv

\* The packets among the parts.
LEMMA PacketsPartStarts == InitPart => PacketsPart
BY PacketsStart DEF InitPart, PacketsPart

LEMMA PacketsPartKeeps == PacketsPart /\ [NextOfPart]_allVars => PacketsPart'
<1> SUFFICES ASSUME PacketsPart, [NextOfPart]_allVars
             PROVE  PacketsPart'
    OBVIOUS
<1>1. UNCHANGED part
    BY DEF NextOfPart, allVars
<1>2. part = "packets" => [Packets!Next]_packetVars
    BY DEF NextOfPart, allVars
<1> QED  BY <1>1, <1>2, PacketsKeep DEF PacketsPart

\* A motion command is never taken for one of the extended requests, has no two
\* opposite directions and has the one asked for, whatever the buffer was used for
\* before (pelcoDformat.cpp, pelcoPformat.cpp).
THEOREM PacketsAreMotions == SpecOfParts => []MotionIsMotion
<1>1. PacketsPart => MotionIsMotion
    BY PacketsShow DEF PacketsPart, MotionIsMotion
<1> QED  BY <1>1, PacketsPartStarts, PacketsPartKeeps, PTL DEF SpecOfParts

(***************************************************************************)
(* The pan-tilt unit: it moves as the speeds say, and searches end.        *)
(***************************************************************************)

\* The bits of a byte.
LEMMA UnitBits ==
    ASSUME NEW n \in Nat
    PROVE  /\ Unit!Byte(n) \subseteq 0 .. 7
           /\ 0 \in Unit!Byte(n) <=> n % 2 = 1
           /\ 1 \in Unit!Byte(n) <=> (n \div 2) % 2 = 1
           /\ 2 \in Unit!Byte(n) <=> (n \div 4) % 2 = 1
           /\ 3 \in Unit!Byte(n) <=> (n \div 8) % 2 = 1
           /\ 4 \in Unit!Byte(n) <=> (n \div 16) % 2 = 1
           /\ 5 \in Unit!Byte(n) <=> (n \div 32) % 2 = 1
           /\ 6 \in Unit!Byte(n) <=> (n \div 64) % 2 = 1
           /\ 7 \in Unit!Byte(n) <=> (n \div 128) % 2 = 1
<1>1. ASSUME NEW b \in 0 .. 7
      PROVE  b \in Unit!Byte(n) <=> (n \div Unit!Weight[b + 1]) % 2 = 1
    BY DEF Unit!Byte
<1>2. /\ Unit!Weight[0 + 1] = 1 /\ Unit!Weight[1 + 1] = 2 /\ Unit!Weight[2 + 1] = 4
      /\ Unit!Weight[3 + 1] = 8 /\ Unit!Weight[4 + 1] = 16 /\ Unit!Weight[5 + 1] = 32
      /\ Unit!Weight[6 + 1] = 64 /\ Unit!Weight[7 + 1] = 128
    BY DEF Unit!Weight
<1>3. Unit!Byte(n) \subseteq 0 .. 7 /\ n \div 1 = n
    BY DEF Unit!Byte
<1>4. /\ 0 \in 0 .. 7 /\ 1 \in 0 .. 7 /\ 2 \in 0 .. 7 /\ 3 \in 0 .. 7
      /\ 4 \in 0 .. 7 /\ 5 \in 0 .. 7 /\ 6 \in 0 .. 7 /\ 7 \in 0 .. 7
    OBVIOUS
<1> QED
    BY <1>1, <1>2, <1>3, <1>4

\* What the assumptions give.
LEMMA UnitConstants ==
    /\ Set \subseteq Unit!SpeedFields
    /\ Positions \subseteq Nat /\ Targets \subseteq Positions /\ Positions \ Targets # {}
    /\ MaxCalls \in Nat /\ MaxLosses \in Nat /\ MaxAnswers \in Nat
BY MotionAssumption DEF MotionAssumption, Unit!PtzControlAssumption

(***************************************************************************)
(* The codes of the requests for a position.                               *)
(***************************************************************************)
Codes == {75, 77, 79, 81, 83, 85}

\* The codes of the extended requests differ.
LEMMA CodesDiffer ==
    ASSUME NEW c \in Codes, NEW d \in Codes
    PROVE  /\ Unit!Byte(c) \in SUBSET (0 .. 7) /\ 0 \in Unit!Byte(c)
           /\ Unit!Byte(c) = Unit!Byte(d) => c = d
<1>1. Unit!Byte(c) \in SUBSET (0 .. 7) /\ 0 \in Unit!Byte(c)
    BY UnitBits DEF Codes
<1>2. /\ 1 \in Unit!Byte(c) <=> c \in {75, 79, 83}
      /\ 2 \in Unit!Byte(c) <=> c \in {77, 79, 85}
      /\ 3 \in Unit!Byte(c) <=> c \in {75, 77, 79}
    BY UnitBits DEF Codes
<1>3. /\ 1 \in Unit!Byte(d) <=> d \in {75, 79, 83}
      /\ 2 \in Unit!Byte(d) <=> d \in {77, 79, 85}
      /\ 3 \in Unit!Byte(d) <=> d \in {75, 77, 79}
    BY UnitBits DEF Codes
<1>4. Unit!Byte(c) = Unit!Byte(d) => c = d
    BY <1>2, <1>3 DEF Codes
<1> QED  BY <1>1, <1>4

AskCode(a) == CASE a = "pan" -> 81 [] a = "tilt" -> 83 [] a = "zoom" -> 85
GoCode(a)  == CASE a = "pan" -> 75 [] a = "tilt" -> 77 [] a = "zoom" -> 79

\* What the requests for a position say, and to which axis.
LEMMA PositionsAsked ==
    ASSUME NEW a \in Unit!Axes
    PROVE  /\ Unit!Ask(a) \in Unit!Packets /\ Unit!Ask(a).cmd2 = Unit!Byte(AskCode(a))
           /\ AskCode(a) \in Codes
<1>1. /\ AskCode(a) \in Codes /\ AskCode(a) \in 0 .. 255
    BY DEF AskCode, Codes, Unit!Axes
<1>2. Unit!Ask(a) = [cmd1 |-> {}, cmd2 |-> Unit!Byte(AskCode(a)), data1 |-> 0, data2 |-> 0]
    BY DEF Unit!Ask, Unit!QueryPanPos, Unit!QueryTiltPos, Unit!QueryZoomPos,
       Unit!MakeExtCommand, Unit!PktFormat, AskCode, Unit!Axes
<1>3. Unit!Byte(AskCode(a)) \in SUBSET (0 .. 7)
    BY <1>1, CodesDiffer
<1> QED  BY <1>1, <1>2, <1>3 DEF Unit!Packets

\* A position is set by a request of its own code.
LEMMA PositionsSet ==
    ASSUME NEW a \in Unit!Axes, NEW v \in Int
    PROVE  /\ Unit!GoTo(a, v) \in Unit!Packets
           /\ Unit!GoTo(a, v).cmd2 = Unit!Byte(GoCode(a))
           /\ GoCode(a) \in Codes
<1>1. /\ GoCode(a) \in Codes /\ GoCode(a) \in 0 .. 255
    BY DEF GoCode, Codes, Unit!Axes
<1>2. PICK w \in Nat : Unit!GoTo(a, v) = Unit!Position(GoCode(a), w)
  <2>1. /\ Unit!Clamped(v, 0, 35999) \in Nat
        /\ Unit!Clamped(v, 2849, 65535) \in Nat
      BY DEF Unit!Clamped
  <2> QED  BY <2>1 DEF Unit!GoTo, Unit!MakeSetPanPos, Unit!MakeSetTilPos, Unit!MakeSetZoomPos, GoCode,
                  Unit!Axes
<1>3. Unit!Byte(GoCode(a)) \in SUBSET (0 .. 7)
    BY <1>1, CodesDiffer
<1>4. (w \div 256) % 256 \in 0 .. 255 /\ w % 256 \in 0 .. 255
    OBVIOUS
<1> QED  BY <1>1, <1>2, <1>3, <1>4 DEF Unit!Packets, Unit!Position, Unit!PktFormat

\* A request to go somewhere is told from a question, and an axis from the others.
LEMMA AxesTold ==
    ASSUME NEW a \in Unit!Axes, NEW v \in Int
    PROVE  /\ Unit!Goes(Unit!Ask(a)) = {} /\ Unit!Goes(Unit!GoTo(a, v)) = {a}
           /\ 0 \in Unit!Ask(a).cmd2 /\ 0 \in Unit!GoTo(a, v).cmd2
<1>1. ASSUME NEW b \in Unit!Axes
      PROVE  /\ Unit!GoTo(b, 2849).cmd2 # Unit!Ask(a).cmd2
             /\ Unit!GoTo(b, 2849).cmd2 = Unit!GoTo(a, v).cmd2 => a = b
  <2>1. 2849 \in Int
      OBVIOUS
  <2>2. /\ Unit!GoTo(b, 2849).cmd2 = Unit!Byte(GoCode(b)) /\ GoCode(b) \in Codes
        /\ Unit!GoTo(a, v).cmd2 = Unit!Byte(GoCode(a)) /\ GoCode(a) \in Codes
        /\ Unit!Ask(a).cmd2 = Unit!Byte(AskCode(a)) /\ AskCode(a) \in Codes
      BY <2>1, PositionsSet, PositionsAsked
  <2>3. /\ GoCode(b) # AskCode(a)
        /\ GoCode(b) = GoCode(a) => a = b
      BY DEF GoCode, AskCode, Unit!Axes
  <2> QED  BY <2>2, <2>3, CodesDiffer
<1>2. Unit!GoTo(a, 2849).cmd2 = Unit!GoTo(a, v).cmd2
  <2>1. 2849 \in Int
      OBVIOUS
  <2> QED  BY <2>1, PositionsSet
<1>3. 0 \in Unit!Ask(a).cmd2 /\ 0 \in Unit!GoTo(a, v).cmd2
    BY PositionsSet, PositionsAsked, CodesDiffer
<1> QED  BY <1>1, <1>2, <1>3 DEF Unit!Goes

\* The unit tells a question from a motion.
LEMMA QuestionsTold ==
    ASSUME NEW a \in Unit!Axes
    PROVE  Unit!Goes(Unit!Ask(a)) = {} /\ 0 \in Unit!Ask(a).cmd2
<1>1. 0 \in Int
    OBVIOUS
<1> QED  BY <1>1, AxesTold

(***************************************************************************)
(* What the mover and a stop send.                                         *)
(***************************************************************************)
LEMMA StopRequest ==
    /\ Unit!AllStop \in Unit!Packets
    /\ Unit!AllStop.cmd1 = {} /\ Unit!AllStop.cmd2 = {}
BY DEF Unit!AllStop, Unit!PktFormat, Unit!Packets

SpeedsType == [Unit!SpeedFields -> -1 .. 1]

\* The bytes that stand for speeds.
LEMMA BitsOfSpeeds ==
    ASSUME NEW s \in SpeedsType
    PROVE  /\ Unit!Cmd1(s) \in SUBSET (0 .. 7)
           /\ Unit!Cmd2(s) \in SUBSET (0 .. 7) /\ 0 \notin Unit!Cmd2(s)
<1>1. /\ Unit!NearOf("D") = 0 /\ Unit!IrisOpen("D") = 1 /\ Unit!IrisClose("D") = 2
    BY DEF Unit!NearOf, Unit!IrisOpen, Unit!IrisClose
<1>2. s.iris \in Int /\ s.pan \in Int /\ s.tilt \in Int /\ s.zoom \in Int
    BY DEF SpeedsType, Unit!SpeedFields
<1>3. Unit!Cmd1(s) \in SUBSET (0 .. 7)
    BY <1>1, <1>2 DEF Unit!Cmd1
<1>4. Unit!Cmd2(s) \in SUBSET {1, 2, 3, 4, 5, 6, 7}
    BY <1>2 DEF Unit!Cmd2, Unit!FarOfD, Unit!Tele, Unit!Wide, Unit!Right, Unit!Left,
            Unit!Down, Unit!Up
<1> QED  BY <1>3, <1>4

\* A packet of speeds is taken for a motion, and moves the unit as it says.
LEMMA SpeedsSent ==
    ASSUME NEW s \in SpeedsType
    PROVE  /\ Unit!MoveRequest(s) \in Unit!Packets
           /\ Unit!MoveRequest(s).cmd1 = Unit!Cmd1(s) /\ Unit!MoveRequest(s).cmd2 = Unit!Cmd2(s)
<1>1. s.pan \in -1 .. 1 /\ s.tilt \in -1 .. 1
    BY DEF SpeedsType, Unit!SpeedFields
<1>2. /\ Unit!Clamped(Unit!Amount(s.pan), 0, 63) \in 0 .. 255
      /\ Unit!Clamped(Unit!Amount(s.tilt), 0, 63) \in 0 .. 255
    BY <1>1 DEF Unit!Clamped, Unit!Amount
<1> QED  BY <1>2, BitsOfSpeeds DEF Unit!MoveRequest, Unit!PktFormat, Unit!Packets

\* Speeds that are all 0 are a stop.
LEMMA RestBits ==
    /\ Unit!AtRest \in SpeedsType
    /\ Unit!Cmd1(Unit!AtRest) = {} /\ Unit!Cmd2(Unit!AtRest) = {}
<1>1. Unit!AtRest \in SpeedsType /\ \A f \in Unit!SpeedFields : Unit!AtRest[f] = 0
    BY DEF Unit!AtRest, SpeedsType
<1>2. /\ Unit!AtRest.focusNear = 0 /\ Unit!AtRest.focusFar = 0 /\ Unit!AtRest.iris = 0
      /\ Unit!AtRest.zoom = 0 /\ Unit!AtRest.pan = 0 /\ Unit!AtRest.tilt = 0
    BY <1>1 DEF Unit!SpeedFields
<1> QED  BY <1>1, <1>2 DEF Unit!Cmd1, Unit!Cmd2

SpeedTypes ==
    /\ wanted \in SpeedsType /\ cur \in SpeedsType
    /\ change \in BOOLEAN /\ num \in 0 .. Unit!Counted /\ mover \in {"Move", "MoveSync"}
    /\ disturbed \in BOOLEAN /\ halted \in BOOLEAN

ThreadTypes == req \in Unit!Packets /\ threads \in [Unit!Threads -> Unit!Jobs]

LoopTypes ==
    /\ bak \in [Unit!Axes -> Positions \cup {0}]
    /\ exitQuery \in [Unit!Axes -> BOOLEAN]
    /\ timer \in [Unit!Timed -> {"off", "on", "due"}]
    /\ got \in [Unit!Timed -> BOOLEAN] /\ sync \in BOOLEAN
    /\ ended \in [Unit!Axes -> BOOLEAN] /\ late \in [Unit!Axes -> BOOLEAN]

LineTypes ==
    /\ response \in {"Null", "Extended", "General"}
    /\ answers \in Seq(Unit!Axes \X (Positions \cup {Unit!Nowhere}))
    /\ Len(answers) <= MaxAnswers
    /\ unit \in Unit!Units
    /\ losses \in 0 .. MaxLosses

UnitTypes == SpeedTypes /\ ThreadTypes /\ LoopTypes /\ LineTypes /\ calls \in 0 .. MaxCalls

\* The types, in four groups of variables that change together.
LEMMA UnitTypesParts == Unit!TypeOK <=> UnitTypes
BY DEF Unit!TypeOK, UnitTypes, SpeedTypes, ThreadTypes, LoopTypes, LineTypes, SpeedsType

speedVars  == <<wanted, cur, change, num, mover, disturbed, halted>>
threadVars == <<req, threads>>
loopVars   == <<bak, exitQuery, timer, got, sync, ended, late>>
lineVars   == <<response, answers, unit, losses>>

\* A step that leaves a group alone leaves its types.
LEMMA UnitFrames ==
    /\ SpeedTypes /\ UNCHANGED speedVars => SpeedTypes'
    /\ ThreadTypes /\ UNCHANGED threadVars => ThreadTypes'
    /\ LoopTypes /\ UNCHANGED loopVars => LoopTypes'
    /\ LineTypes /\ UNCHANGED lineVars => LineTypes'
<1>1. SpeedTypes /\ UNCHANGED speedVars => SpeedTypes'
    BY DEF SpeedTypes, speedVars
<1>2. ThreadTypes /\ UNCHANGED threadVars => ThreadTypes'
    BY DEF ThreadTypes, threadVars
<1>3. LoopTypes /\ UNCHANGED loopVars => LoopTypes'
    BY DEF LoopTypes, loopVars
<1>4. LineTypes /\ UNCHANGED lineVars => LineTypes'
    BY DEF LineTypes, lineVars
<1> QED  BY <1>1, <1>2, <1>3, <1>4

\* A request on the line: lost, if it is no extended one, or taken.
Lost(p) == losses' = losses + 1 /\ unit' = unit /\ 0 \notin p.cmd2
Taken(p) == /\ losses' = losses
            /\ unit'.cmd1 = IF 0 \in p.cmd2 THEN unit.cmd1 ELSE p.cmd1
            /\ unit'.cmd2 = IF 0 \in p.cmd2 THEN unit.cmd2 ELSE p.cmd2

\* What goes over the line has its types, whether it is lost or not.
LEMMA LineTold ==
    ASSUME LineTypes, NEW p \in Unit!Packets, NEW r \in {"Null", "Extended"},
           Unit!sendCmd(p, r)
    PROVE  LineTypes' /\ (Lost(p) \/ Taken(p))
<1> USE UnitConstants
<1>1. response' = r
    BY DEF Unit!sendCmd
<1>2. CASE /\ losses < MaxLosses /\ ~Unit!Extended(p)
           /\ losses' = losses + 1
           /\ UNCHANGED <<unit, answers>>
  <2>1. LineTypes'
      BY <1>1, <1>2 DEF LineTypes
  <2>2. Lost(p)
      BY <1>2 DEF Lost, Unit!Extended, Unit!Reserved
  <2> QED  BY <2>1, <2>2
<1>3. CASE UNCHANGED losses /\ Unit!Takes(p)
  <2>1. /\ answers' \in Seq(Unit!Axes \X (Positions \cup {Unit!Nowhere}))
        /\ Len(answers') <= MaxAnswers
    <3>1. CASE UNCHANGED answers
        BY <3>1 DEF LineTypes
    <3>2. CASE \E a \in Unit!Asks(p) : /\ Len(answers) < MaxAnswers
                                       /\ answers' = Append(answers, <<a, unit.pos[a]>>)
      <4>1. PICK a \in Unit!Axes : /\ Len(answers) < MaxAnswers
                                   /\ answers' = Append(answers, <<a, unit.pos[a]>>)
          BY <3>2 DEF Unit!Asks
      <4>2. unit.pos[a] \in Positions
          BY DEF LineTypes, Unit!Units
      <4> QED  BY <4>1, <4>2 DEF LineTypes
    <3> QED  BY <1>3, <3>1, <3>2 DEF Unit!Takes
  <2>2. unit' \in Unit!Units /\ Taken(p)
    <3>1. p.cmd1 \in SUBSET (0 .. 7) /\ p.cmd2 \in SUBSET (0 .. 7)
          /\ p.data1 \in 0 .. 255 /\ p.data2 \in 0 .. 255
        BY DEF Unit!Packets
    <3>2. CASE ~Unit!Extended(p)
      <4>1. unit' = [unit EXCEPT !.cmd1 = p.cmd1, !.cmd2 = p.cmd2,
                                 !.aim = [a \in Unit!Axes |-> Unit!Nowhere]]
          BY <1>3, <3>2 DEF Unit!Takes
      <4>2. [a \in Unit!Axes |-> Unit!Nowhere] \in [Unit!Axes -> Nat \cup {Unit!Nowhere}]
          OBVIOUS
      <4>3. unit' \in Unit!Units /\ unit'.cmd1 = p.cmd1 /\ unit'.cmd2 = p.cmd2
          BY <3>1, <4>1, <4>2 DEF LineTypes, Unit!Units
      <4> QED  BY <1>3, <3>2, <4>3 DEF Taken, Unit!Extended, Unit!Reserved
    <3>3. CASE Unit!Extended(p)
      <4> DEFINE aim == [a \in Unit!Axes |-> IF a \in Unit!Goes(p)
                                             THEN 256 * p.data1 + p.data2 ELSE unit.aim[a]]
      <4>1. unit' = [unit EXCEPT !.aim = aim]
          BY <1>3, <3>3 DEF Unit!Takes
      <4>2. aim \in [Unit!Axes -> Nat \cup {Unit!Nowhere}]
        <5>1. unit.aim \in [Unit!Axes -> Nat \cup {Unit!Nowhere}]
            BY DEF LineTypes, Unit!Units
        <5>3. \A m \in 0 .. 255, n \in 0 .. 255 : 256 * m + n \in Nat
            OBVIOUS
        <5>2. 256 * p.data1 + p.data2 \in Nat
            BY <3>1, <5>3
        <5> QED  BY <5>1, <5>2
      <4> HIDE DEF aim
      <4>3. unit' \in Unit!Units /\ unit'.cmd1 = unit.cmd1 /\ unit'.cmd2 = unit.cmd2
          BY <4>1, <4>2 DEF LineTypes, Unit!Units
      <4> QED  BY <1>3, <3>3, <4>3 DEF Taken, Unit!Extended, Unit!Reserved
    <3> QED  BY <3>2, <3>3
  <2>3. LineTypes'
      BY <1>1, <1>3, <2>1, <2>2 DEF LineTypes
  <2> QED  BY <2>2, <2>3
<1> QED  BY <1>2, <1>3 DEF Unit!sendCmd

(***************************************************************************)
(* What is true of the unit when nothing has disturbed it.                 *)
(***************************************************************************)
Sends == IF change THEN 0 ELSE IF num < 2 THEN num + 1 ELSE 3
Moves(s) == unit.cmd1 = Unit!Cmd1(s) /\ unit.cmd2 = Unit!Cmd2(s)
StopAt(p) == threads["stop"].at \in p

\* A stop that has reset the speeds finds the unit told to stand, or the mover has
\* yet to see that the speeds are reset.
StopAgrees ==
    /\ StopAt({"cmd", "data", "send"}) =>
           wanted = Unit!AtRest /\ (halted \/ cur = Unit!AtRest)
    /\ halted => wanted # cur

\* The unit does what the mover knows, or all that was sent of it was lost.
UnitAgrees == halted \/ Moves(cur) \/ losses >= Sends

Requests ==
    /\ threads["stop"].pkt = Unit!AllStop
    /\ \A t \in Unit!Threads \ {"stop"} :
           threads[t].at # "idle" => 0 \in threads[t].pkt.cmd2

Follows ==
    /\ Requests
    /\ halted => cur # Unit!AtRest
    /\ ~disturbed => StopAgrees /\ UnitAgrees

\* A unit that is at rest moves as the speeds say: of three packets two can be lost.
LEMMA UnitShows ==
    ASSUME UnitTypes, Follows, MaxLosses <= 2
    PROVE  Unit!UnitFollows
<1> SUFFICES ASSUME Unit!Quiet, ~disturbed
             PROVE  unit.cmd1 = Unit!Cmd1(wanted) /\ unit.cmd2 = Unit!Cmd2(wanted)
    BY DEF Unit!UnitFollows
<1>1. cur = wanted /\ ~change /\ num >= 3
    BY DEF Unit!Quiet, Unit!Repeats, UnitTypes, SpeedTypes, Unit!Counted
<1>2. StopAgrees /\ UnitAgrees
    BY DEF Follows
<1>3. ~halted
    BY <1>1, <1>2 DEF StopAgrees
<1>4. ~(losses >= Sends)
    BY <1>1, UnitConstants DEF Sends, UnitTypes, LineTypes, SpeedTypes, Unit!Counted
<1>5. Moves(cur)
    BY <1>2, <1>3, <1>4 DEF UnitAgrees
<1> QED  BY <1>1, <1>5 DEF Moves

\* What no action but the mover's, a stop's and a sender's touches.
followVars == <<wanted, cur, change, num, halted, unit.cmd1, unit.cmd2, losses, disturbed>>

\* What changes nothing that the agreement reads keeps it.
LEMMA FollowsFrame ==
    ASSUME Follows, UNCHANGED followVars, Requests',
           StopAt({"cmd", "data", "send"})' => StopAt({"cmd", "data", "send"})
    PROVE  Follows'
<1>1. halted' => cur' # Unit!AtRest
    BY DEF Follows, followVars
<1>2. Unit!AtRest' = Unit!AtRest
    BY DEF Unit!AtRest, Unit!SpeedFields
<1>3. ASSUME ~disturbed'
      PROVE  StopAgrees' /\ UnitAgrees'
  <2>1. StopAgrees /\ UnitAgrees
      BY <1>3 DEF Follows, followVars
  <2>2. StopAgrees'
      BY <2>1, <1>2 DEF StopAgrees, followVars
  <2>3. Sends' = Sends
      BY DEF Sends, followVars
  <2>4. UnitAgrees'
    <3>1. Moves(cur) => Moves(cur)'
        BY DEF Moves, followVars, Unit!Cmd1, Unit!Cmd2
    <3> QED  BY <2>1, <2>3, <3>1 DEF UnitAgrees, followVars
  <2> QED  BY <2>2, <2>4
<1> QED  BY <1>1, <1>2, <1>3 DEF Follows

\* The mover looks at the speeds: a change is sent, and counted from 0.
LEMMA MoverMoves ==
    ASSUME UnitTypes, Follows, Unit!Move
    PROVE  UnitTypes' /\ Follows'
<1>1. /\ mover' = "MoveSync"
      /\ change' = (change \/ cur # wanted)
      /\ cur' = wanted /\ halted' = FALSE /\ wanted' = wanted /\ num' = num
      /\ UNCHANGED <<req, threads, bak, exitQuery, timer, got, sync, response, answers, unit,
                     calls, losses, disturbed, ended, late>>
    BY DEF Unit!Move, Unit!loops, Unit!recv, Unit!counts
<1>2. change' \in BOOLEAN
    BY <1>1 DEF UnitTypes, SpeedTypes
<1>3. SpeedTypes'
    BY <1>1, <1>2 DEF UnitTypes, SpeedTypes
<1>4. UnitTypes'
    BY <1>1, <1>3, UnitFrames DEF UnitTypes, threadVars, loopVars, lineVars
<1>5. Requests' /\ (StopAt({"cmd", "data", "send"})' <=> StopAt({"cmd", "data", "send"}))
    BY <1>1 DEF Follows, Requests, StopAt
<1>6. ASSUME ~disturbed
      PROVE  StopAgrees' /\ UnitAgrees'
  <2>1. StopAgrees /\ UnitAgrees
      BY <1>6 DEF Follows
  <2>2. StopAgrees'
      BY <1>1, <1>5, <2>1 DEF StopAgrees
  <2>3. UnitAgrees'
    <3>1. CASE cur # wanted
      <4>1. Sends' = 0
          BY <1>1, <3>1 DEF Sends
      <4> QED  BY <1>1, <4>1 DEF UnitAgrees, UnitTypes, LineTypes
    <3>2. CASE cur = wanted
      <4>1. ~halted
          BY <2>1, <3>2 DEF StopAgrees
      <4>2. (change' <=> change) /\ cur' = cur
          BY <1>1, <3>2
      <4>3. Sends' = Sends
          BY <1>1, <4>2 DEF Sends
      <4>4. Moves(cur) => Moves(cur)'
          BY <1>1, <4>2 DEF Moves
      <4> QED  BY <1>1, <2>1, <4>1, <4>3, <4>4 DEF UnitAgrees
    <3> QED  BY <3>1, <3>2
  <2> QED  BY <2>2, <2>3
<1> QED  BY <1>1, <1>4, <1>5, <1>6 DEF Follows

\* The mover sends, and the unit gets the packet or the line loses it.
LEMMA MoverSends ==
    ASSUME UnitTypes, Follows, Unit!MoveSync
    PROVE  UnitTypes' /\ Follows'
<1>1. /\ mover' = "Move" /\ num' = Unit!Rounds
      /\ UNCHANGED <<wanted, cur, req, threads, bak, exitQuery, timer, got, sync, calls,
                     disturbed, ended, late, halted>>
    BY DEF Unit!MoveSync, Unit!loops, Unit!recv
<1>2. num' \in 0 .. Unit!Counted
    BY <1>1 DEF Unit!Rounds, UnitTypes, SpeedTypes, Unit!Counted
<1>3. Requests' /\ (StopAt({"cmd", "data", "send"})' <=> StopAt({"cmd", "data", "send"}))
    BY <1>1 DEF Follows, Requests, StopAt
<1>4. ASSUME ~disturbed
      PROVE  StopAgrees'
    BY <1>1, <1>3, <1>4 DEF StopAgrees, Follows
<1>5. CASE Unit!Repeats(Unit!Rounds)
  <2>1. Unit!sendCmd(Unit!MoveRequest(cur), "Null") /\ change' = FALSE
      BY <1>5 DEF Unit!MoveSync
  <2>2. /\ Unit!MoveRequest(cur) \in Unit!Packets
        /\ Unit!MoveRequest(cur).cmd1 = Unit!Cmd1(cur)
        /\ Unit!MoveRequest(cur).cmd2 = Unit!Cmd2(cur) /\ 0 \notin Unit!Cmd2(cur)
      BY SpeedsSent, BitsOfSpeeds DEF UnitTypes, SpeedTypes
  <2>3. LineTypes' /\ (Lost(Unit!MoveRequest(cur)) \/ Taken(Unit!MoveRequest(cur)))
    <3>1. Unit!MoveRequest(cur) \in Unit!Packets /\ "Null" \in {"Null", "Extended"}
        BY <2>2
    <3> QED  BY <2>1, <3>1, LineTold DEF UnitTypes
  <2>4. UnitTypes'
    <3>1. SpeedTypes'
        BY <1>1, <1>2, <2>1 DEF UnitTypes, SpeedTypes
    <3> QED  BY <1>1, <2>3, <3>1, UnitFrames DEF UnitTypes, threadVars, loopVars
  <2>5. ASSUME ~disturbed
        PROVE  UnitAgrees'
    <3>1. CASE Taken(Unit!MoveRequest(cur))
      <4>1. Moves(cur)'
          BY <1>1, <2>2, <3>1 DEF Taken, Moves
      <4> QED  BY <4>1 DEF UnitAgrees
    <3>2. CASE Lost(Unit!MoveRequest(cur))
      <4>1. Sends' <= Sends + 1 /\ Sends \in Nat /\ Sends' \in Nat
          BY <1>1, <1>2, <1>5, <2>1 DEF Sends, Unit!Rounds, Unit!Repeats, Unit!Counted,
             UnitTypes, SpeedTypes
      <4>2. losses >= Sends => losses' >= Sends'
          BY <4>1, <3>2 DEF Lost, UnitTypes, LineTypes
      <4>3. Moves(cur) => Moves(cur)'
          BY <1>1, <3>2 DEF Lost, Moves
      <4> QED  BY <1>1, <2>5, <4>2, <4>3 DEF UnitAgrees, Follows
    <3> QED  BY <2>3, <3>1, <3>2
  <2> QED  BY <1>1, <1>3, <1>4, <2>4, <2>5 DEF Follows
<1>6. CASE ~Unit!Repeats(Unit!Rounds)
  <2>1. UNCHANGED <<change, response, losses, unit, answers>>
      BY <1>6 DEF Unit!MoveSync
  <2>2. UnitTypes'
    <3>1. SpeedTypes'
        BY <1>1, <1>2, <2>1 DEF UnitTypes, SpeedTypes
    <3> QED  BY <1>1, <2>1, <3>1, UnitFrames DEF UnitTypes, threadVars, loopVars, lineVars
  <2>3. ~change /\ Sends' = Sends
      BY <1>1, <1>6, <2>1 DEF Sends, Unit!Rounds, Unit!Repeats, Unit!Counted,
         UnitTypes, SpeedTypes
  <2>4. Moves(cur) => Moves(cur)'
      BY <1>1, <2>1 DEF Moves
  <2>5. ASSUME ~disturbed
        PROVE  UnitAgrees'
      BY <1>1, <2>1, <2>3, <2>4, <2>5 DEF UnitAgrees, Follows
  <2> QED  BY <1>1, <1>3, <1>4, <2>2, <2>5 DEF Follows
<1> QED  BY <1>5, <1>6

(***************************************************************************)
(* The calls.                                                              *)
(***************************************************************************)
LEMMA SpeedSet ==
    ASSUME UnitTypes, Follows, NEW f \in Set, NEW v \in -1 .. 1, Unit!SetSpeed(f, v)
    PROVE  UnitTypes' /\ Follows'
<1>1. /\ calls < MaxCalls /\ calls' = calls + 1
      /\ wanted' = [wanted EXCEPT ![IF f = "focusNear" THEN "focusFar" ELSE f] = v]
      /\ disturbed' = (disturbed \/ Unit!Stopping \/ (halted /\ wanted' = cur))
      /\ UNCHANGED <<cur, change, num, mover, req, threads, bak, exitQuery, timer, got, sync,
                     response, answers, unit, losses, ended, late, halted>>
    BY DEF Unit!SetSpeed, Unit!loops, Unit!recv
<1>2. UnitTypes'
  <2>1. wanted' \in SpeedsType
      BY <1>1, UnitConstants DEF UnitTypes, SpeedTypes, SpeedsType, Unit!SpeedFields
  <2>2. disturbed' \in BOOLEAN
      BY <1>1 DEF UnitTypes, SpeedTypes
  <2>3. SpeedTypes'
      BY <1>1, <2>1, <2>2 DEF UnitTypes, SpeedTypes
  <2>4. calls' \in 0 .. MaxCalls
      BY <1>1, UnitConstants DEF UnitTypes
  <2> QED  BY <1>1, <2>3, <2>4, UnitFrames DEF UnitTypes, threadVars, loopVars, lineVars
<1>3. Requests' /\ (halted' => cur' # Unit!AtRest)
    BY <1>1 DEF Follows, Requests
<1>4. ASSUME ~disturbed'
      PROVE  StopAgrees' /\ UnitAgrees'
  <2>1. ~disturbed /\ ~Unit!Stopping /\ ~(halted /\ wanted' = cur)
      BY <1>1, <1>4
  <2>2. StopAgrees'
      BY <1>1, <2>1 DEF StopAgrees, StopAt, Unit!Stopping
  <2>3. Sends' = Sends /\ (Moves(cur) => Moves(cur)')
      BY <1>1 DEF Sends, Moves
  <2>4. UnitAgrees'
      BY <1>1, <2>1, <2>3 DEF UnitAgrees, Follows
  <2> QED  BY <2>2, <2>4
<1> QED  BY <1>2, <1>3, <1>4 DEF Follows

\* A thread begins, at a step that sends nothing, with a request of its own.
LEMMA Called ==
    ASSUME UnitTypes, Follows, NEW t \in Unit!Threads, NEW j \in Unit!Jobs,
           Unit!Call(t, j),
           j.at \in {"reset", "cmd"},
           IF t = "stop" THEN j.at = "reset" /\ j.pkt = Unit!AllStop ELSE 0 \in j.pkt.cmd2
    PROVE  /\ threads[t].at = "idle"
           /\ t \in Unit!Searches => \A u \in Unit!Searches : threads[u].at = "idle"
           /\ threads' = [threads EXCEPT ![t] = j]
           /\ (LoopTypes' => UnitTypes') /\ Follows'
           /\ late' = late
<1>1. /\ threads[t].at = "idle"
      /\ t \in Unit!Searches => \A u \in Unit!Searches : threads[u].at = "idle"
      /\ calls < MaxCalls /\ calls' = calls + 1
      /\ threads' = [threads EXCEPT ![t] = j]
      /\ UNCHANGED <<wanted, cur, change, num, mover, req, response, answers, unit, losses,
                     disturbed, late, halted>>
    BY DEF Unit!Call, Unit!speeds
<1>2. ThreadTypes'
    BY <1>1 DEF UnitTypes, ThreadTypes
<1>3. calls' \in 0 .. MaxCalls
    BY <1>1, UnitConstants DEF UnitTypes
<1>4. LoopTypes' => UnitTypes'
    BY <1>1, <1>2, <1>3, UnitFrames DEF UnitTypes, speedVars, lineVars
<1>5. Requests'
    BY <1>1 DEF UnitTypes, ThreadTypes, Follows, Requests
<1>6. StopAt({"cmd", "data", "send"})' => StopAt({"cmd", "data", "send"})
    BY <1>1 DEF StopAt, UnitTypes, ThreadTypes
<1>7. Follows'
    BY <1>1, <1>5, <1>6, FollowsFrame DEF followVars
<1> QED  BY <1>1, <1>4, <1>7

\* A request is a record of its fields.
LEMMA JobsTyped ==
    /\ Unit!Idle \in Unit!Jobs /\ Unit!Idle.at = "idle" /\ Unit!Idle.pkt = Unit!AllStop
    /\ Unit!Idle.axis = "pan"
    /\ [Unit!Idle EXCEPT !.at = "reset"] \in Unit!Jobs
    /\ [Unit!Idle EXCEPT !.at = "cmd", !.pkt = Unit!QueryPanPos] \in Unit!Jobs
    /\ [Unit!Idle EXCEPT !.at = "cmd", !.pkt = Unit!QueryZoomPos, !.axis = "zoom"] \in Unit!Jobs
    /\ 0 \in Unit!QueryPanPos.cmd2 /\ 0 \in Unit!QueryTiltPos.cmd2
    /\ 0 \in Unit!QueryZoomPos.cmd2
    /\ Unit!QueryPanPos \in Unit!Packets /\ Unit!QueryTiltPos \in Unit!Packets
    /\ Unit!QueryZoomPos \in Unit!Packets
<1>1. /\ Unit!QueryPanPos = Unit!Ask("pan") /\ Unit!QueryTiltPos = Unit!Ask("tilt")
      /\ Unit!QueryZoomPos = Unit!Ask("zoom")
    BY DEF Unit!Ask
<1>2. /\ "pan" \in Unit!Axes /\ "tilt" \in Unit!Axes /\ "zoom" \in Unit!Axes /\ 0 \in Nat
    BY DEF Unit!Axes
<1>3. /\ Unit!QueryPanPos \in Unit!Packets /\ Unit!QueryTiltPos \in Unit!Packets
      /\ Unit!QueryZoomPos \in Unit!Packets
      /\ 0 \in Unit!QueryPanPos.cmd2 /\ 0 \in Unit!QueryTiltPos.cmd2
      /\ 0 \in Unit!QueryZoomPos.cmd2
    BY <1>1, <1>2, PositionsAsked, AxesTold
<1>4. /\ Unit!Idle \in Unit!Jobs /\ Unit!Idle.at = "idle" /\ Unit!Idle.pkt = Unit!AllStop
      /\ Unit!Idle.axis = "pan"
    BY <1>2, StopRequest DEF Unit!Idle, Unit!Jobs
<1>5. /\ [Unit!Idle EXCEPT !.at = "reset"] \in Unit!Jobs
      /\ [Unit!Idle EXCEPT !.at = "cmd", !.pkt = Unit!QueryPanPos] \in Unit!Jobs
      /\ [Unit!Idle EXCEPT !.at = "cmd", !.pkt = Unit!QueryZoomPos, !.axis = "zoom"]
             \in Unit!Jobs
    BY <1>2, <1>3, <1>4 DEF Unit!Jobs
<1> QED  BY <1>3, <1>4, <1>5

(***************************************************************************)
(* What is true of the searches for a position.                            *)
(***************************************************************************)
JobOf(t) == threads[t]

\* The request of ptzSetPos is for the axis it is at or asks for it; while it asks,
\* its search has an end.
PositionSearch ==
    JobOf("position").at # "idle" =>
        LET a == JobOf("position").axis IN
        /\ a \in Unit!Timed
        /\ Unit!Goes(JobOf("position").pkt) \in {{}, {a}}
        /\ JobOf("position").at = "loop" \/ Unit!Goes(JobOf("position").pkt) = {} =>
               exitQuery[a] \/ timer[a] # "off"

ZoomSearch == JobOf("zoomPos").at # "idle" => JobOf("zoomPos").axis = "zoom"

\* A search that is over has an end that came for it, or one came too late.
Reasons ==
    \A a \in Unit!Axes : exitQuery[a] => late[a] \/ (Unit!Searching(a) /\ ended[a])

SearchInv == PositionSearch /\ ZoomSearch /\ Reasons

searchVars == <<threads, exitQuery, timer, late, ended>>

\* What changes no search keeps what is known of them.
LEMMA SearchFrame == SearchInv /\ UNCHANGED searchVars => SearchInv'
<1> SUFFICES ASSUME SearchInv, UNCHANGED searchVars
             PROVE  SearchInv'
    OBVIOUS
<1>1. PositionSearch' /\ ZoomSearch'
    BY DEF SearchInv, searchVars, PositionSearch, ZoomSearch, JobOf
<1>2. \A a : Unit!Searching(a)' <=> Unit!Searching(a)
    BY DEF searchVars, Unit!Searching
<1>3. Reasons'
    BY <1>2 DEF SearchInv, searchVars, Reasons
<1> QED  BY <1>1, <1>3 DEF SearchInv

\* A search that waits has an end.
LEMMA SearchShows == SearchInv => Unit!WaitHasEnd
BY DEF SearchInv, PositionSearch, JobOf, Unit!WaitHasEnd

UnitInv == UnitTypes /\ Follows /\ SearchInv

\* A thread that is no search begins.
LEMMA OthersCalled ==
    ASSUME SearchInv, UnitTypes, NEW t \in Unit!Threads \ {"position", "zoomPos"}, NEW j,
           threads' = [threads EXCEPT ![t] = j],
           UNCHANGED <<exitQuery, timer, late, ended>>
    PROVE  SearchInv'
<1>1. JobOf("position")' = JobOf("position") /\ JobOf("zoomPos")' = JobOf("zoomPos")
    BY DEF JobOf, UnitTypes, ThreadTypes
<1>2. PositionSearch' /\ ZoomSearch'
    BY <1>1 DEF SearchInv, PositionSearch, ZoomSearch
<1>3. \A a : Unit!Searching(a)' <=> Unit!Searching(a)
    BY <1>1 DEF Unit!Searching, JobOf
<1>4. Reasons'
    BY <1>3 DEF SearchInv, Reasons
<1> QED  BY <1>2, <1>4 DEF SearchInv

\* Each of the calls, from its thread.
LEMMA StopCalled ==
    ASSUME UnitInv, Unit!ptzStop
    PROVE  UnitInv'
<1> DEFINE j == [Unit!Idle EXCEPT !.at = "reset"]
<1>1. /\ j \in Unit!Jobs /\ j.at = "reset" /\ j.pkt = Unit!AllStop
      /\ "stop" \in Unit!Threads \ {"position", "zoomPos"}
    BY JobsTyped DEF Unit!Jobs, Unit!Threads
<1>2. /\ Unit!Call("stop", j)
      /\ UNCHANGED <<bak, exitQuery, timer, got, sync, ended>>
    BY DEF Unit!ptzStop, Unit!loops, Unit!recv
<1> HIDE DEF j
<1>3. /\ threads' = [threads EXCEPT !["stop"] = j] /\ late' = late
      /\ (LoopTypes' => UnitTypes') /\ Follows'
    BY <1>1, <1>2, Called DEF UnitInv
<1>4. LoopTypes'
    BY <1>2, <1>3, UnitFrames DEF UnitInv, UnitTypes, loopVars
<1>5. SearchInv'
    BY <1>1, <1>2, <1>3, OthersCalled DEF UnitInv
<1> QED  BY <1>3, <1>4, <1>5 DEF UnitInv

LEMMA ZoomServerCalled ==
    ASSUME UnitInv, Unit!zoomServer
    PROVE  UnitInv'
<1> DEFINE j == [Unit!Idle EXCEPT !.at = "cmd", !.pkt = Unit!QueryZoomPos, !.axis = "zoom"]
<1>1. /\ j \in Unit!Jobs /\ j.at = "cmd" /\ 0 \in j.pkt.cmd2
      /\ "zoomServer" \in Unit!Threads \ {"position", "zoomPos"}
    BY JobsTyped DEF Unit!Jobs, Unit!Threads
<1>2. /\ Unit!Call("zoomServer", j)
      /\ UNCHANGED <<bak, exitQuery, timer, got, sync, ended>>
    BY DEF Unit!zoomServer, Unit!loops, Unit!recv
<1> HIDE DEF j
<1>3. /\ threads' = [threads EXCEPT !["zoomServer"] = j] /\ late' = late
      /\ (LoopTypes' => UnitTypes') /\ Follows'
    BY <1>1, <1>2, Called DEF UnitInv
<1>4. LoopTypes'
    BY <1>2, <1>3, UnitFrames DEF UnitInv, UnitTypes, loopVars
<1>5. SearchInv'
    BY <1>1, <1>2, <1>3, OthersCalled DEF UnitInv
<1> QED  BY <1>3, <1>4, <1>5 DEF UnitInv

LEMMA QueryCalled ==
    ASSUME UnitInv, Unit!queryPos
    PROVE  UnitInv'
<1> DEFINE j == [Unit!Idle EXCEPT !.at = "cmd", !.pkt = Unit!QueryPanPos]
<1>1. /\ j \in Unit!Jobs /\ j.at = "cmd" /\ 0 \in j.pkt.cmd2
      /\ "query" \in Unit!Threads \ {"position", "zoomPos"}
    BY JobsTyped DEF Unit!Jobs, Unit!Threads
<1>2. /\ Unit!Call("query", j) /\ sync' = TRUE
      /\ UNCHANGED <<bak, exitQuery, timer, got, ended>>
    BY DEF Unit!queryPos, Unit!loops
<1> HIDE DEF j
<1>3. /\ threads' = [threads EXCEPT !["query"] = j] /\ late' = late
      /\ (LoopTypes' => UnitTypes') /\ Follows'
    BY <1>1, <1>2, Called DEF UnitInv
<1>4. LoopTypes'
    BY <1>2, <1>3 DEF UnitInv, UnitTypes, LoopTypes
<1>5. SearchInv'
    BY <1>1, <1>2, <1>3, OthersCalled DEF UnitInv
<1> QED  BY <1>3, <1>4, <1>5 DEF UnitInv

\* A search begins: what earlier ones left is late.
LEMMA PositionCalled ==
    ASSUME UnitInv, Unit!ptzSetPos
    PROVE  UnitInv'
<1>1. PICK x \in Targets :
        /\ Unit!Call("position", [at |-> "cmd", pkt |-> Unit!GoTo("pan", x), axis |-> "pan",
                                  want |-> x])
        /\ bak' = [bak EXCEPT !["pan"] = x, !["tilt"] = x]
        /\ ended' = [ended EXCEPT !["pan"] = FALSE, !["tilt"] = FALSE]
        /\ UNCHANGED <<exitQuery, timer, got, sync>>
    BY DEF Unit!ptzSetPos, Unit!recv
<1> DEFINE j == [at |-> "cmd", pkt |-> Unit!GoTo("pan", x), axis |-> "pan", want |-> x]
<1>2. x \in Positions /\ x \in Int /\ "pan" \in Unit!Axes /\ "position" \in Unit!Threads
    BY UnitConstants DEF Unit!Axes, Unit!Threads
<1>3. /\ Unit!GoTo("pan", x) \in Unit!Packets /\ 0 \in Unit!GoTo("pan", x).cmd2
      /\ Unit!Goes(Unit!GoTo("pan", x)) = {"pan"}
    BY <1>2, PositionsSet, AxesTold
<1>4. /\ j \in Unit!Jobs /\ j.at = "cmd" /\ j.axis = "pan" /\ 0 \in j.pkt.cmd2
      /\ Unit!Goes(j.pkt) = {"pan"}
    BY <1>2, <1>3 DEF Unit!Jobs
<1>5. Unit!Call("position", j)
    BY <1>1
<1> HIDE DEF j
<1>6. /\ threads["position"].at = "idle"
      /\ \A u \in Unit!Searches : threads[u].at = "idle"
      /\ threads' = [threads EXCEPT !["position"] = j] /\ late' = late
      /\ (LoopTypes' => UnitTypes') /\ Follows'
    BY <1>2, <1>4, <1>5, Called DEF UnitInv, Unit!Searches
<1>7. LoopTypes'
  <2>1. bak' \in [Unit!Axes -> Positions \cup {0}]
      BY <1>1, <1>2 DEF UnitInv, UnitTypes, LoopTypes, Unit!Axes
  <2>2. ended' \in [Unit!Axes -> BOOLEAN]
      BY <1>1 DEF UnitInv, UnitTypes, LoopTypes, Unit!Axes
  <2> QED  BY <1>1, <1>6, <2>1, <2>2 DEF UnitInv, UnitTypes, LoopTypes
<1>8. JobOf("position")' = j /\ JobOf("zoomPos")' = JobOf("zoomPos")
    BY <1>6 DEF JobOf, UnitInv, UnitTypes, ThreadTypes, Unit!Threads
<1>9. PositionSearch' /\ ZoomSearch'
    BY <1>4, <1>8 DEF PositionSearch, ZoomSearch, UnitInv, SearchInv, Unit!Timed
<1>10. Reasons'
  <2> SUFFICES ASSUME NEW a \in Unit!Axes, exitQuery[a]
               PROVE  late[a]
      BY <1>1, <1>6 DEF Reasons
  <2>1. ~Unit!Searching(a)
      BY <1>6 DEF Unit!Searching, Unit!Searches
  <2> QED  BY <2>1 DEF UnitInv, SearchInv, Reasons
<1> QED  BY <1>6, <1>7, <1>9, <1>10 DEF UnitInv, SearchInv

LEMMA ZoomCalled ==
    ASSUME UnitInv, Unit!setZoomPos
    PROVE  UnitInv'
<1>1. PICK x \in Targets :
        /\ Unit!Call("zoomPos", [at |-> "cmd", pkt |-> Unit!GoTo("zoom", x), axis |-> "zoom",
                                 want |-> x])
        /\ bak' = [bak EXCEPT !["zoom"] = x]
        /\ ended' = [ended EXCEPT !["zoom"] = FALSE]
        /\ UNCHANGED <<exitQuery, timer, got, sync>>
    BY DEF Unit!setZoomPos, Unit!recv
<1> DEFINE j == [at |-> "cmd", pkt |-> Unit!GoTo("zoom", x), axis |-> "zoom", want |-> x]
<1>2. x \in Positions /\ x \in Int /\ "zoom" \in Unit!Axes /\ "zoomPos" \in Unit!Threads
    BY UnitConstants DEF Unit!Axes, Unit!Threads
<1>3. /\ Unit!GoTo("zoom", x) \in Unit!Packets /\ 0 \in Unit!GoTo("zoom", x).cmd2
    BY <1>2, PositionsSet, AxesTold
<1>4. /\ j \in Unit!Jobs /\ j.at = "cmd" /\ j.axis = "zoom" /\ 0 \in j.pkt.cmd2
    BY <1>2, <1>3 DEF Unit!Jobs
<1>5. Unit!Call("zoomPos", j)
    BY <1>1
<1> HIDE DEF j
<1>6. /\ threads["zoomPos"].at = "idle"
      /\ \A u \in Unit!Searches : threads[u].at = "idle"
      /\ threads' = [threads EXCEPT !["zoomPos"] = j] /\ late' = late
      /\ (LoopTypes' => UnitTypes') /\ Follows'
    BY <1>2, <1>4, <1>5, Called DEF UnitInv, Unit!Searches
<1>7. LoopTypes'
  <2>1. bak' \in [Unit!Axes -> Positions \cup {0}]
      BY <1>1, <1>2 DEF UnitInv, UnitTypes, LoopTypes, Unit!Axes
  <2>2. ended' \in [Unit!Axes -> BOOLEAN]
      BY <1>1 DEF UnitInv, UnitTypes, LoopTypes, Unit!Axes
  <2> QED  BY <1>1, <1>6, <2>1, <2>2 DEF UnitInv, UnitTypes, LoopTypes
<1>8. JobOf("zoomPos")' = j /\ JobOf("position")' = JobOf("position")
    BY <1>6 DEF JobOf, UnitInv, UnitTypes, ThreadTypes, Unit!Threads
<1>9. PositionSearch' /\ ZoomSearch'
    BY <1>1, <1>4, <1>8 DEF PositionSearch, ZoomSearch, UnitInv, SearchInv, Unit!Timed
<1>10. Reasons'
  <2> SUFFICES ASSUME NEW a \in Unit!Axes, exitQuery[a]
               PROVE  late[a]
      BY <1>1, <1>6 DEF Reasons
  <2>1. ~Unit!Searching(a)
      BY <1>6 DEF Unit!Searching, Unit!Searches
  <2> QED  BY <2>1 DEF UnitInv, SearchInv, Reasons
<1> QED  BY <1>6, <1>7, <1>9, <1>10 DEF UnitInv, SearchInv

\* resetPtz
LEMMA StopResets ==
    ASSUME UnitInv, Unit!ResetPtz
    PROVE  UnitInv'
<1>1. /\ threads["stop"].at = "reset"
      /\ threads' = [threads EXCEPT !["stop"].at = "cmd"]
      /\ wanted' = Unit!AtRest
      /\ halted' = (cur # Unit!AtRest)
      /\ UNCHANGED <<cur, change, num, mover, req, bak, exitQuery, timer, got, sync, response,
                     answers, unit, calls, losses, disturbed, ended, late>>
    BY DEF Unit!ResetPtz, Unit!loops, Unit!recv, Unit!counts
<1>2. "stop" \in Unit!Threads \ {"position", "zoomPos"}
    BY DEF Unit!Threads
<1>3. threads["stop"] \in Unit!Jobs
    BY <1>2 DEF UnitInv, UnitTypes, ThreadTypes
<1> DEFINE j == [threads["stop"] EXCEPT !.at = "cmd"]
<1>4. /\ j \in Unit!Jobs /\ j.pkt = threads["stop"].pkt
      /\ threads' = [threads EXCEPT !["stop"] = j]
    BY <1>1, <1>3 DEF Unit!Jobs
<1> HIDE DEF j
<1>5. UnitTypes'
  <2>1. SpeedTypes'
    <3>1. halted' \in BOOLEAN
        BY <1>1
    <3> QED  BY <1>1, <3>1, RestBits DEF UnitInv, UnitTypes, SpeedTypes
  <2>2. ThreadTypes'
      BY <1>1, <1>4 DEF UnitInv, UnitTypes, ThreadTypes
  <2> QED  BY <1>1, <2>1, <2>2, UnitFrames DEF UnitInv, UnitTypes, loopVars, lineVars
<1>6. Requests'
    BY <1>2, <1>4 DEF UnitInv, UnitTypes, ThreadTypes, Follows, Requests
<1>7. Unit!AtRest' = Unit!AtRest
    BY DEF Unit!AtRest, Unit!SpeedFields
<1>8. ASSUME ~disturbed'
      PROVE  StopAgrees' /\ UnitAgrees'
  <2>1. StopAgrees /\ UnitAgrees
      BY <1>1, <1>8 DEF UnitInv, Follows
  <2>2. StopAgrees'
    <3>1. halted' \/ cur' = Unit!AtRest
        BY <1>1
    <3>2. halted' => wanted' # cur'
        BY <1>1
    <3> QED  BY <1>1, <1>7, <3>1, <3>2 DEF StopAgrees
  <2>3. halted => halted'
      BY <1>1 DEF UnitInv, Follows
  <2>4. Sends' = Sends /\ (Moves(cur) => Moves(cur)')
      BY <1>1 DEF Sends, Moves
  <2>5. UnitAgrees'
      BY <1>1, <2>1, <2>3, <2>4 DEF UnitAgrees
  <2> QED  BY <2>2, <2>5
<1>9. Follows'
    BY <1>1, <1>6, <1>7, <1>8 DEF Follows
<1>10. SearchInv'
    BY <1>1, <1>2, <1>4, OthersCalled DEF UnitInv
<1> QED  BY <1>5, <1>9, <1>10 DEF UnitInv

\* A thread goes on to a later step of the same request; what sends is told apart.
LEMMA SameRequest ==
    ASSUME UnitInv, NEW t \in Unit!Threads, NEW to \in {"data", "send"},
           JobOf(t).at \in {"cmd", "data"},
           threads' = [threads EXCEPT ![t].at = to]
    PROVE  /\ threads' \in [Unit!Threads -> Unit!Jobs]
           /\ Requests'
           /\ StopAt({"cmd", "data", "send"})' => StopAt({"cmd", "data", "send"})
           /\ UNCHANGED <<exitQuery, timer, late, ended>> => SearchInv'
<1> DEFINE j == [threads[t] EXCEPT !.at = to]
<1>1. threads \in [Unit!Threads -> Unit!Jobs] /\ threads[t] \in Unit!Jobs
    BY DEF UnitInv, UnitTypes, ThreadTypes
<1>2. /\ threads' = [threads EXCEPT ![t] = j] /\ j \in Unit!Jobs
      /\ j.at = to /\ j.pkt = threads[t].pkt /\ j.axis = threads[t].axis
    BY <1>1 DEF Unit!Jobs
<1> HIDE DEF j
<1>3. threads' \in [Unit!Threads -> Unit!Jobs]
    BY <1>1, <1>2
<1>4. \A u \in Unit!Threads : /\ threads'[u].pkt = threads[u].pkt
                              /\ threads'[u].axis = threads[u].axis
                              /\ threads'[u].at # "idle" <=> threads[u].at # "idle"
                              /\ threads'[u].at = "loop" => threads[u].at = "loop"
                              /\ threads'[u].at \in {"cmd", "data", "send"}
                                     => threads[u].at \in {"cmd", "data", "send"}
    BY <1>1, <1>2 DEF JobOf
<1>5. Requests' /\ (StopAt({"cmd", "data", "send"})' => StopAt({"cmd", "data", "send"}))
    BY <1>4 DEF UnitInv, Follows, Requests, StopAt, Unit!Threads
<1>6. ASSUME UNCHANGED <<exitQuery, timer, late, ended>>
      PROVE  SearchInv'
  <2>1. "position" \in Unit!Threads /\ "zoomPos" \in Unit!Threads
      BY DEF Unit!Threads
  <2>2. ASSUME JobOf("position")'.at # "idle"
        PROVE  LET a == JobOf("position")'.axis IN
               /\ a \in Unit!Timed
               /\ Unit!Goes(JobOf("position")'.pkt) \in {{}, {a}}
               /\ JobOf("position")'.at = "loop" \/ Unit!Goes(JobOf("position")'.pkt) = {} =>
                       exitQuery[a] \/ timer[a] # "off"
      BY <1>4, <2>1, <2>2 DEF JobOf, UnitInv, SearchInv, PositionSearch
  <2>3. PositionSearch'
      BY <1>6, <2>2 DEF PositionSearch, JobOf
  <2>4. ZoomSearch'
      BY <1>4, <2>1 DEF ZoomSearch, JobOf, UnitInv, SearchInv
  <2>5. \A a : Unit!Searching(a)' <=> Unit!Searching(a)
      BY <1>4, <2>1 DEF Unit!Searching
  <2>6. Reasons'
      BY <1>6, <2>5 DEF Reasons, UnitInv, SearchInv
  <2> QED  BY <2>3, <2>4, <2>6 DEF SearchInv
<1> QED  BY <1>3, <1>5, <1>6

\* A request is built and sent, field by field.
LEMMA Builds ==
    ASSUME UnitInv, NEW t \in Unit!Threads, Unit!Build(t)
    PROVE  UnitInv'
<1>1. /\ UNCHANGED <<wanted, cur, change, num, mover, bak, exitQuery, timer, got, sync,
                     response, answers, unit, calls, losses, disturbed, ended, late, halted>>
      /\ threads[t].at \in {"cmd", "data"}
      /\ \E to \in {"data", "send"} : threads' = [threads EXCEPT ![t].at = to]
    BY DEF Unit!Build, Unit!speeds, Unit!loops, Unit!recv, Unit!counts
<1>2. threads[t].pkt \in Unit!Packets
    BY DEF UnitInv, UnitTypes, ThreadTypes, Unit!Jobs
<1>3. req' \in Unit!Packets
  <2>1. /\ threads[t].pkt.cmd1 \in SUBSET (0 .. 7) /\ threads[t].pkt.cmd2 \in SUBSET (0 .. 7)
        /\ threads[t].pkt.data1 \in 0 .. 255 /\ threads[t].pkt.data2 \in 0 .. 255
      BY <1>2 DEF Unit!Packets
  <2>2. \/ req' = [req EXCEPT !.cmd1 = threads[t].pkt.cmd1, !.cmd2 = threads[t].pkt.cmd2]
        \/ req' = [req EXCEPT !.data1 = threads[t].pkt.data1, !.data2 = threads[t].pkt.data2]
      BY DEF Unit!Build
  <2>3. req \in Unit!Packets
      BY DEF UnitInv, UnitTypes, ThreadTypes
  <2>4. CASE req' = [req EXCEPT !.cmd1 = threads[t].pkt.cmd1, !.cmd2 = threads[t].pkt.cmd2]
      BY <2>1, <2>3, <2>4 DEF Unit!Packets
  <2>5. CASE req' = [req EXCEPT !.data1 = threads[t].pkt.data1, !.data2 = threads[t].pkt.data2]
      BY <2>1, <2>3, <2>5 DEF Unit!Packets
  <2> QED  BY <2>2, <2>4, <2>5
<1>4. /\ threads' \in [Unit!Threads -> Unit!Jobs]
      /\ Requests'
      /\ StopAt({"cmd", "data", "send"})' => StopAt({"cmd", "data", "send"})
      /\ SearchInv'
    BY <1>1, SameRequest DEF JobOf
<1>5. UnitTypes'
  <2>1. ThreadTypes'
      BY <1>3, <1>4 DEF ThreadTypes
  <2> QED  BY <1>1, <2>1, UnitFrames DEF UnitInv, UnitTypes, speedVars, loopVars, lineVars
<1>6. Follows'
    BY <1>1, <1>4, FollowsFrame DEF UnitInv, followVars
<1> QED  BY <1>4, <1>5, <1>6 DEF UnitInv

\* The axes to which a request goes start their timers when it is sent.
LEMMA TimersStart ==
    ASSUME UnitInv, NEW t \in Unit!Threads, JobOf(t).at = "send",
           threads' = [threads EXCEPT ![t] = IF t \in {"stop", "zoomServer"} THEN Unit!Idle
                                             ELSE [@ EXCEPT !.at = "loop"]],
           timer' = [a \in Unit!Timed |->
                        IF a \in Unit!Goes(JobOf(t).pkt) /\ timer[a] = "off" THEN "on"
                        ELSE timer[a]],
           UNCHANGED <<exitQuery, late, ended>>
    PROVE  /\ threads' \in [Unit!Threads -> Unit!Jobs] /\ Requests'
           /\ StopAt({"cmd", "data", "send"})' =>
                  StopAt({"cmd", "data", "send"}) /\ t # "stop"
           /\ timer' \in [Unit!Timed -> {"off", "on", "due"}]
           /\ SearchInv'
<1> DEFINE j == IF t \in {"stop", "zoomServer"} THEN Unit!Idle
                ELSE [threads[t] EXCEPT !.at = "loop"]
<1>1. threads \in [Unit!Threads -> Unit!Jobs] /\ threads[t] \in Unit!Jobs
    BY DEF UnitInv, UnitTypes, ThreadTypes
<1>2. /\ threads' = [threads EXCEPT ![t] = j] /\ j \in Unit!Jobs
      /\ t \in {"stop", "zoomServer"} => j.at = "idle" /\ j.pkt = Unit!AllStop
      /\ t \notin {"stop", "zoomServer"} =>
             j.at = "loop" /\ j.pkt = threads[t].pkt /\ j.axis = threads[t].axis
    BY <1>1, JobsTyped DEF Unit!Jobs
<1> HIDE DEF j
<1>3. threads' \in [Unit!Threads -> Unit!Jobs]
    BY <1>1, <1>2
<1>4. /\ threads'[t] = j
      /\ \A u \in Unit!Threads \ {t} : threads'[u] = threads[u]
    BY <1>1, <1>2
<1>5. Requests'
    BY <1>2, <1>4 DEF UnitInv, Follows, Requests, Unit!Threads, JobOf
<1>6. StopAt({"cmd", "data", "send"})' => StopAt({"cmd", "data", "send"}) /\ t # "stop"
    BY <1>2, <1>4 DEF StopAt, Unit!Threads
<1>7. /\ timer' \in [Unit!Timed -> {"off", "on", "due"}]
      /\ \A a \in Unit!Timed : timer[a] # "off" \/ a \in Unit!Goes(JobOf(t).pkt)
                                   => timer'[a] # "off"
    BY DEF UnitInv, UnitTypes, LoopTypes
<1>8. PositionSearch'
  <2>1. "position" \in Unit!Threads
      BY DEF Unit!Threads
  <2>2. CASE t = "position"
    <3>1. /\ threads'["position"].at = "loop"
          /\ threads'["position"].axis = threads["position"].axis
          /\ threads'["position"].pkt = threads["position"].pkt
        BY <1>2, <1>4, <2>2
    <3>2. LET a == threads["position"].axis IN
          /\ a \in Unit!Timed
          /\ Unit!Goes(threads["position"].pkt) \in {{}, {a}}
          /\ Unit!Goes(threads["position"].pkt) = {} => exitQuery[a] \/ timer[a] # "off"
        BY <2>2 DEF JobOf, UnitInv, SearchInv, PositionSearch
    <3>3. LET a == threads["position"].axis IN exitQuery'[a] \/ timer'[a] # "off"
        BY <1>7, <2>2, <3>2 DEF JobOf
    <3> QED  BY <3>1, <3>2, <3>3 DEF PositionSearch, JobOf
  <2>3. CASE t # "position"
    <3>1. threads'["position"] = threads["position"]
        BY <1>4, <2>1, <2>3
    <3> QED  BY <1>7, <3>1 DEF PositionSearch, JobOf, UnitInv, SearchInv
  <2> QED  BY <2>2, <2>3
<1>9. ZoomSearch'
    BY <1>2, <1>4 DEF ZoomSearch, JobOf, UnitInv, SearchInv, Unit!Threads
<1>10. \A a : Unit!Searching(a)' <=> Unit!Searching(a)
    BY <1>2, <1>4 DEF Unit!Searching, Unit!Threads, JobOf
<1>11. Reasons'
    BY <1>10 DEF Reasons, UnitInv, SearchInv
<1> QED  BY <1>3, <1>5, <1>6, <1>7, <1>8, <1>9, <1>11 DEF SearchInv

\* A request is on the line: the unit is told, or it is lost.
LEMMA RequestSent ==
    ASSUME UnitInv, NEW t \in Unit!Threads, Unit!Send(t)
    PROVE  UnitInv'
<1>1. /\ threads[t].at = "send"
      /\ Unit!sendCmd(req, IF Unit!Asks(threads[t].pkt) = {} THEN "Null" ELSE "Extended")
      /\ disturbed' = (disturbed \/ req # threads[t].pkt)
      /\ threads' = [threads EXCEPT ![t] = IF t \in {"stop", "zoomServer"} THEN Unit!Idle
                                           ELSE [@ EXCEPT !.at = "loop"]]
      /\ timer' = [a \in Unit!Timed |->
                      IF a \in Unit!Goes(threads[t].pkt) /\ timer[a] = "off" THEN "on"
                      ELSE timer[a]]
      /\ UNCHANGED <<wanted, cur, change, num, mover, req, bak, exitQuery, got, sync, calls,
                     ended, late, halted>>
    BY DEF Unit!Send, Unit!speeds, Unit!recv
<1>2. /\ threads' \in [Unit!Threads -> Unit!Jobs] /\ Requests'
      /\ StopAt({"cmd", "data", "send"})' => StopAt({"cmd", "data", "send"}) /\ t # "stop"
      /\ timer' \in [Unit!Timed -> {"off", "on", "due"}]
      /\ SearchInv'
    BY <1>1, TimersStart DEF JobOf
<1>3. LineTypes' /\ (Lost(req) \/ Taken(req))
  <2>1. LineTypes /\ req \in Unit!Packets
      BY DEF UnitInv, UnitTypes, ThreadTypes
  <2> DEFINE r == IF Unit!Asks(threads[t].pkt) = {} THEN "Null" ELSE "Extended"
  <2>2. r \in {"Null", "Extended"} /\ Unit!sendCmd(req, r)
      BY <1>1
  <2> HIDE DEF r
  <2> QED  BY <2>1, <2>2, LineTold
<1>4. UnitTypes'
  <2>1. SpeedTypes'
    <3>1. disturbed' \in BOOLEAN
        BY <1>1 DEF UnitInv, UnitTypes, SpeedTypes
    <3> QED  BY <1>1, <3>1 DEF UnitInv, UnitTypes, SpeedTypes
  <2>2. ThreadTypes'
      BY <1>1, <1>2 DEF UnitInv, UnitTypes, ThreadTypes
  <2>3. LoopTypes'
      BY <1>1, <1>2 DEF UnitInv, UnitTypes, LoopTypes
  <2> QED  BY <1>1, <1>3, <2>1, <2>2, <2>3 DEF UnitInv, UnitTypes
<1>7. cur' = cur /\ halted' = halted /\ wanted' = wanted
    BY <1>1
<1>5. ASSUME ~disturbed'
      PROVE  StopAgrees' /\ UnitAgrees'
  <2>1. ~disturbed /\ req = threads[t].pkt /\ StopAgrees /\ UnitAgrees
      BY <1>1, <1>5 DEF UnitInv, Follows
  <2>2. Unit!AtRest' = Unit!AtRest
      BY DEF Unit!AtRest, Unit!SpeedFields
  <2>3. StopAgrees'
      BY <1>1, <1>2, <2>1, <2>2 DEF StopAgrees
  <2>4. Sends' = Sends
      BY <1>1 DEF Sends
  <2>5. CASE t = "stop"
    <3>1. req.cmd1 = {} /\ req.cmd2 = {}
        BY <2>1, <2>5, StopRequest DEF UnitInv, Follows, Requests
    <3>2. halted \/ cur = Unit!AtRest
        BY <1>1, <2>1, <2>5 DEF StopAgrees, StopAt
    <3>3. CASE Taken(req)
      <4>1. cur = Unit!AtRest => Moves(cur)'
          BY <1>7, <3>1, <3>3, RestBits DEF Taken, Moves
      <4> QED  BY <1>7, <2>3, <3>2, <4>1 DEF UnitAgrees
    <3>4. CASE Lost(req)
      <4>1. losses >= Sends => losses' >= Sends'
          BY <2>4, <3>4, UnitConstants DEF Lost, Sends, UnitInv, UnitTypes, LineTypes,
             SpeedTypes, Unit!Counted
      <4>2. Moves(cur) => Moves(cur)'
          BY <1>7, <3>4 DEF Lost, Moves
      <4> QED  BY <1>7, <2>1, <2>3, <4>1, <4>2 DEF UnitAgrees
    <3> QED  BY <1>3, <3>3, <3>4
  <2>6. CASE t # "stop"
    <3>1. 0 \in req.cmd2
        BY <1>1, <2>1, <2>6 DEF UnitInv, Follows, Requests
    <3>2. losses' = losses /\ unit'.cmd1 = unit.cmd1 /\ unit'.cmd2 = unit.cmd2
        BY <1>3, <3>1 DEF Lost, Taken
    <3>3. Moves(cur) => Moves(cur)'
        BY <1>7, <3>2 DEF Moves
    <3> QED  BY <1>7, <2>1, <2>3, <2>4, <3>2, <3>3 DEF UnitAgrees
  <2> QED  BY <2>3, <2>5, <2>6
<1>6. halted' => cur' # Unit!AtRest
    BY <1>1 DEF UnitInv, Follows
<1> QED  BY <1>2, <1>4, <1>5, <1>6 DEF UnitInv, Follows, Unit!AtRest, Unit!SpeedFields

\* A search asks again until it is told to end.
LEMMA LoopsOn ==
    ASSUME UnitInv, NEW t \in Unit!Threads, Unit!Loop(t)
    PROVE  UnitInv'
<1> DEFINE a == threads[t].axis
<1>1. /\ t \in {"position", "zoomPos"} /\ threads[t].at = "loop"
      /\ UNCHANGED <<wanted, cur, change, num, mover, req, bak, got, sync, response,
                     answers, unit, calls, losses, disturbed, ended, late, halted>>
    BY DEF Unit!Loop, Unit!speeds, Unit!recv, Unit!counts
<1>2. threads \in [Unit!Threads -> Unit!Jobs] /\ threads[t] \in Unit!Jobs
    BY DEF UnitInv, UnitTypes, ThreadTypes
<1>3. /\ a \in Unit!Axes
      /\ t = "position" => a \in Unit!Timed
      /\ t = "zoomPos" => a = "zoom"
    BY <1>1, <1>2 DEF Unit!Jobs, UnitInv, SearchInv, PositionSearch, ZoomSearch, JobOf
<1>4. PICK j \in Unit!Jobs :
         /\ threads' = [threads EXCEPT ![t] = j]
         /\ j.at = "idle" \/ 0 \in j.pkt.cmd2
         /\ j.at \in {"idle", "cmd"}
         /\ j.at = "idle" \/ (/\ exitQuery[a] /\ t = "position" /\ j.axis = "tilt"
                              /\ Unit!Goes(j.pkt) = {"tilt"})
                          \/ (/\ ~exitQuery[a] /\ j.axis = a
                              /\ Unit!Goes(j.pkt) = {})
         /\ j.at = "idle" => exitQuery[a]
         /\ exitQuery[a] /\ a = "tilt" => j.at = "idle"
  <2>1. CASE exitQuery[a] /\ a # "pan"
    <3>1. threads' = [threads EXCEPT ![t] = Unit!Idle]
        BY <2>1 DEF Unit!Loop
    <3> QED  BY <2>1, <3>1, JobsTyped
  <2>2. CASE exitQuery[a] /\ a = "pan"
    <3> DEFINE j == [threads[t] EXCEPT !.at = "cmd", !.axis = "tilt",
                                       !.pkt = Unit!GoTo("tilt", threads[t].want)]
    <3>1. threads' = [threads EXCEPT ![t] = j]
        BY <1>2, <2>2 DEF Unit!Loop
    <3>5. \A p \in Positions \cup {Unit!Nowhere} : p \in Int
        BY UnitConstants DEF Unit!Nowhere
    <3>2. threads[t].want \in Int /\ "tilt" \in Unit!Axes
        BY <1>2, <3>5 DEF Unit!Jobs, Unit!Axes
    <3>3. /\ Unit!GoTo("tilt", threads[t].want) \in Unit!Packets
          /\ Unit!Goes(Unit!GoTo("tilt", threads[t].want)) = {"tilt"}
          /\ 0 \in Unit!GoTo("tilt", threads[t].want).cmd2
        BY <3>2, PositionsSet, AxesTold
    <3>4. /\ j \in Unit!Jobs /\ j.at = "cmd" /\ j.axis = "tilt"
          /\ Unit!Goes(j.pkt) = {"tilt"} /\ 0 \in j.pkt.cmd2
        BY <1>2, <3>2, <3>3 DEF Unit!Jobs
    <3> HIDE DEF j
    <3> QED  BY <1>1, <1>3, <2>2, <3>1, <3>4
  <2>3. CASE ~exitQuery[a]
    <3> DEFINE j == [threads[t] EXCEPT !.at = "cmd", !.pkt = Unit!Ask(a)]
    <3>1. threads' = [threads EXCEPT ![t] = j]
        BY <1>2, <2>3 DEF Unit!Loop
    <3>2. /\ Unit!Ask(a) \in Unit!Packets /\ Unit!Goes(Unit!Ask(a)) = {}
          /\ 0 \in Unit!Ask(a).cmd2
        BY <1>3, PositionsAsked, QuestionsTold
    <3>3. /\ j \in Unit!Jobs /\ j.at = "cmd" /\ j.axis = a
          /\ Unit!Goes(j.pkt) = {} /\ 0 \in j.pkt.cmd2
        BY <1>2, <3>2 DEF Unit!Jobs
    <3> HIDE DEF j, a
    <3> QED  BY <2>3, <3>1, <3>3
  <2> QED  BY <2>1, <2>2, <2>3
<1>5. \/ /\ exitQuery[a]
         /\ exitQuery' = [exitQuery EXCEPT ![a] = FALSE]
         /\ timer' = Unit!StopTimer(a)
      \/ ~exitQuery[a] /\ exitQuery' = exitQuery /\ timer' = timer
    BY DEF Unit!Loop, Unit!Leaves
<1>6. LoopTypes'
  <2>1. exitQuery' \in [Unit!Axes -> BOOLEAN]
      BY <1>5 DEF UnitInv, UnitTypes, LoopTypes
  <2>2. timer' \in [Unit!Timed -> {"off", "on", "due"}]
      BY <1>5 DEF UnitInv, UnitTypes, LoopTypes, Unit!StopTimer
  <2> QED  BY <1>1, <2>1, <2>2 DEF UnitInv, UnitTypes, LoopTypes
<1>7. UnitTypes'
  <2>1. ThreadTypes'
      BY <1>1, <1>2, <1>4 DEF UnitInv, UnitTypes, ThreadTypes
  <2> QED  BY <1>1, <1>6, <2>1, UnitFrames DEF UnitInv, UnitTypes, speedVars, lineVars
<1> HIDE DEF a
<1>8. Follows'
  <2>1. Requests'
      BY <1>1, <1>2, <1>4 DEF UnitInv, Follows, Requests
  <2>2. StopAt({"cmd", "data", "send"})' => StopAt({"cmd", "data", "send"})
      BY <1>1, <1>2, <1>4 DEF StopAt
  <2> QED  BY <1>1, <2>1, <2>2, FollowsFrame DEF UnitInv, followVars
<1>9. /\ threads'[t] = j
      /\ \A u \in Unit!Threads \ {t} : threads'[u] = threads[u]
    BY <1>2, <1>4
<1>10. PositionSearch'
  <2>1. CASE t = "position"
    <3>1. CASE j.at = "idle"
        BY <1>9, <2>1, <3>1 DEF PositionSearch, JobOf
    <3>2. CASE /\ j.at # "idle" /\ exitQuery[a] /\ j.axis = "tilt"
               /\ Unit!Goes(j.pkt) = {"tilt"}
        BY <1>4, <1>9, <2>1, <3>2 DEF PositionSearch, JobOf, Unit!Timed
    <3>3. CASE /\ j.at # "idle" /\ ~exitQuery[a] /\ j.axis = a
               /\ Unit!Goes(j.pkt) = {}
      <4>1. timer[a] # "off"
          BY <1>1, <2>1, <3>3 DEF UnitInv, SearchInv, PositionSearch, JobOf, a
      <4>2. timer' = timer
          BY <1>5, <3>3
      <4>3. threads'["position"] = j
          BY <1>9, <2>1
      <4>4. a \in Unit!Timed
          BY <1>3, <2>1
      <4> QED  BY <3>3, <4>1, <4>2, <4>3, <4>4 DEF PositionSearch, JobOf
    <3> QED  BY <1>4, <3>1, <3>2, <3>3
  <2>2. CASE t = "zoomPos"
    <3>1. threads'["position"] = threads["position"]
        BY <1>9, <2>2 DEF Unit!Threads
    <3>2. \A b \in Unit!Timed : timer'[b] = timer[b] /\ exitQuery'[b] = exitQuery[b]
        BY <1>3, <1>5, <2>2 DEF Unit!StopTimer, Unit!Timed, UnitInv, UnitTypes, LoopTypes,
           Unit!Axes
    <3> QED  BY <3>1, <3>2 DEF PositionSearch, JobOf, UnitInv, SearchInv
  <2> QED  BY <1>1, <2>1, <2>2
<1>11. ZoomSearch'
  <2>1. CASE t = "zoomPos"
      BY <1>3, <1>4, <1>9, <2>1 DEF ZoomSearch, JobOf
  <2>2. CASE t = "position"
      BY <1>9, <2>2 DEF ZoomSearch, JobOf, UnitInv, SearchInv, Unit!Threads
  <2> QED  BY <1>1, <2>1, <2>2
<1>12. Reasons'
  <2> SUFFICES ASSUME NEW b \in Unit!Axes, exitQuery'[b], ~late[b]
               PROVE  Unit!Searching(b)' /\ ended[b]
      BY <1>1 DEF Reasons
  <2>1. exitQuery[b] /\ (b # a \/ ~exitQuery[a])
      BY <1>3, <1>5 DEF UnitInv, UnitTypes, LoopTypes
  <2>2. Unit!Searching(b) /\ ended[b] /\ b # a
      BY <2>1 DEF UnitInv, SearchInv, Reasons
  <2>3. PICK u \in {"position", "zoomPos"} : threads[u].at # "idle" /\ threads[u].axis = b
      BY <2>2 DEF Unit!Searching
  <2>4. u # t
      BY <2>2, <2>3 DEF a
  <2>5. threads'[u] = threads[u]
      BY <1>9, <2>4 DEF Unit!Threads
  <2> QED  BY <2>2, <2>3, <2>5 DEF Unit!Searching
<1> QED  BY <1>7, <1>8, <1>10, <1>11, <1>12 DEF UnitInv, SearchInv

\* The query thread goes on.
LEMMA QueriesOn ==
    ASSUME UnitInv, Unit!QueryLoop
    PROVE  UnitInv'
<1>1. /\ threads["query"].at = "loop"
      /\ UNCHANGED <<wanted, cur, change, num, mover, req, bak, exitQuery, timer, got, sync,
                     response, answers, unit, calls, losses, disturbed, ended, late, halted>>
    BY DEF Unit!QueryLoop, Unit!speeds, Unit!loops, Unit!recv, Unit!counts
<1>2. /\ "query" \in Unit!Threads \ {"position", "zoomPos"} /\ "query" # "stop"
      /\ threads \in [Unit!Threads -> Unit!Jobs] /\ threads["query"] \in Unit!Jobs
    BY DEF UnitInv, UnitTypes, ThreadTypes, Unit!Threads
<1>3. PICK j \in Unit!Jobs : /\ threads' = [threads EXCEPT !["query"] = j]
                             /\ j.at = "idle" \/ 0 \in j.pkt.cmd2
  <2>1. "pan" \in Unit!Axes /\ "tilt" \in Unit!Axes
      BY DEF Unit!Axes
  <2>2. CASE threads["query"].axis = "pan"
    <3> DEFINE j == [threads["query"] EXCEPT !.at = "cmd", !.axis = "tilt",
                                             !.pkt = Unit!QueryTiltPos]
    <3>1. threads' = [threads EXCEPT !["query"] = j]
        BY <1>2, <2>2 DEF Unit!QueryLoop
    <3>2. j \in Unit!Jobs /\ 0 \in j.pkt.cmd2
        BY <1>2, <2>1, JobsTyped DEF Unit!Jobs
    <3> QED  BY <3>1, <3>2
  <2>3. CASE threads["query"].axis # "pan" /\ sync
    <3> DEFINE j == [threads["query"] EXCEPT !.at = "cmd", !.axis = "pan",
                                             !.pkt = Unit!QueryPanPos]
    <3>1. threads' = [threads EXCEPT !["query"] = j]
        BY <1>2, <2>3 DEF Unit!QueryLoop
    <3>2. j \in Unit!Jobs /\ 0 \in j.pkt.cmd2
        BY <1>2, <2>1, JobsTyped DEF Unit!Jobs
    <3> QED  BY <3>1, <3>2
  <2>4. CASE threads["query"].axis # "pan" /\ ~sync
    <3>1. threads' = [threads EXCEPT !["query"] = Unit!Idle]
        BY <1>2, <2>4 DEF Unit!QueryLoop
    <3> QED  BY <3>1, JobsTyped
  <2> QED  BY <2>2, <2>3, <2>4
<1>4. UnitTypes'
  <2>1. ThreadTypes'
      BY <1>1, <1>2, <1>3 DEF UnitInv, UnitTypes, ThreadTypes
  <2> QED  BY <1>1, <2>1, UnitFrames DEF UnitInv, UnitTypes, speedVars, loopVars, lineVars
<1>5. Follows'
  <2>1. Requests'
      BY <1>2, <1>3 DEF UnitInv, Follows, Requests
  <2>2. StopAt({"cmd", "data", "send"})' => StopAt({"cmd", "data", "send"})
      BY <1>2, <1>3 DEF StopAt
  <2> QED  BY <1>1, <2>1, <2>2, FollowsFrame DEF UnitInv, followVars
<1>6. SearchInv'
    BY <1>1, <1>2, <1>3, OthersCalled DEF UnitInv
<1> QED  BY <1>4, <1>5, <1>6 DEF UnitInv

\* The unit comes to a position.
LEMMA Arrives ==
    ASSUME UnitInv, NEW a \in Unit!Axes, Unit!UnitArrives(a)
    PROVE  UnitInv'
<1>1. /\ unit.aim[a] \in Positions
      /\ unit' = [unit EXCEPT !.pos[a] = unit.aim[a], !.aim[a] = Unit!Nowhere]
      /\ UNCHANGED <<wanted, cur, change, num, mover, req, threads, bak, exitQuery, timer, got,
                     sync, response, answers, calls, losses, disturbed, ended, late, halted>>
    BY DEF Unit!UnitArrives, Unit!speeds, Unit!loops, Unit!recv, Unit!counts
<1>2. unit' \in Unit!Units /\ unit'.cmd1 = unit.cmd1 /\ unit'.cmd2 = unit.cmd2
    BY <1>1 DEF UnitInv, UnitTypes, LineTypes, Unit!Units
<1>3. UnitTypes'
  <2>1. LineTypes'
      BY <1>1, <1>2 DEF UnitInv, UnitTypes, LineTypes
  <2> QED  BY <1>1, <2>1, UnitFrames DEF UnitInv, UnitTypes, speedVars, threadVars, loopVars
<1>4. Follows'
  <2>1. Requests' /\ (StopAt({"cmd", "data", "send"})' => StopAt({"cmd", "data", "send"}))
      BY <1>1 DEF UnitInv, Follows, Requests, StopAt
  <2> QED  BY <1>1, <1>2, <2>1, FollowsFrame DEF UnitInv, followVars
<1>5. SearchInv'
    BY <1>1, SearchFrame DEF UnitInv, searchVars
<1> QED  BY <1>3, <1>4, <1>5 DEF UnitInv

\* What the receiver and the timers leave alone.
LEMMA FollowsApart ==
    ASSUME UnitInv,
           UNCHANGED <<wanted, cur, change, num, req, threads, unit, losses, disturbed, halted>>
    PROVE  Follows'
<1>1. Requests' /\ (StopAt({"cmd", "data", "send"})' => StopAt({"cmd", "data", "send"}))
    BY DEF UnitInv, Follows, Requests, StopAt
<1> QED  BY <1>1, FollowsFrame DEF UnitInv, followVars

\* The search for a is over, because of a report or a callback.
LEMMA SearchEnds ==
    ASSUME UnitInv, NEW a \in Unit!Axes, Unit!Ends(a), threads' = threads,
           exitQuery' = [exitQuery EXCEPT ![a] = TRUE],
           \A b \in Unit!Timed : b # a /\ timer[b] # "off" => timer'[b] # "off"
    PROVE  SearchInv' /\ ended' \in [Unit!Axes -> BOOLEAN] /\ late' \in [Unit!Axes -> BOOLEAN]
<1>1. /\ ended' = [ended EXCEPT ![a] = TRUE]
      /\ late' = [late EXCEPT ![a] = @ \/ ~Unit!Searching(a)]
    BY DEF Unit!Ends
<1>2. LoopTypes
    BY DEF UnitInv, UnitTypes
<1>3. ended' \in [Unit!Axes -> BOOLEAN]
    BY <1>1, <1>2 DEF LoopTypes
<1>4. late' \in [Unit!Axes -> BOOLEAN]
  <2>1. (late[a] \/ ~Unit!Searching(a)) \in BOOLEAN
      BY <1>2 DEF LoopTypes
  <2> QED  BY <1>1, <1>2, <2>1 DEF LoopTypes
<1>5. PositionSearch'
  <2> SUFFICES ASSUME JobOf("position").at # "idle"
               PROVE  LET b == JobOf("position").axis IN
                      /\ b \in Unit!Timed
                      /\ Unit!Goes(JobOf("position").pkt) \in {{}, {b}}
                      /\ JobOf("position").at = "loop" \/ Unit!Goes(JobOf("position").pkt) = {}
                             => exitQuery'[b] \/ timer'[b] # "off"
      BY DEF PositionSearch, JobOf
  <2> DEFINE b == JobOf("position").axis
  <2>1. /\ b \in Unit!Timed /\ Unit!Goes(JobOf("position").pkt) \in {{}, {b}}
        /\ JobOf("position").at = "loop" \/ Unit!Goes(JobOf("position").pkt) = {}
               => exitQuery[b] \/ timer[b] # "off"
      BY DEF UnitInv, SearchInv, PositionSearch
  <2>2. b \in Unit!Axes
      BY <2>1 DEF Unit!Timed, Unit!Axes
  <2>3. exitQuery[b] \/ timer[b] # "off" => exitQuery'[b] \/ timer'[b] # "off"
      BY <1>2, <2>1, <2>2 DEF LoopTypes
  <2> QED  BY <2>1, <2>3
<1>6. ZoomSearch'
    BY DEF UnitInv, SearchInv, ZoomSearch, JobOf
<1>7. Reasons'
  <2> SUFFICES ASSUME NEW b \in Unit!Axes, exitQuery'[b], ~late'[b]
               PROVE  Unit!Searching(b)' /\ ended'[b]
      BY DEF Reasons
  <2>1. Unit!Searching(b)' <=> Unit!Searching(b)
      BY DEF Unit!Searching
  <2>2. CASE b = a
    <3>1. ended'[b] /\ (late'[b] <=> (late[a] \/ ~Unit!Searching(a)))
        BY <1>1, <1>2, <2>2 DEF LoopTypes
    <3> QED  BY <2>1, <2>2, <3>1
  <2>3. CASE b # a
    <3>1. exitQuery[b] /\ ~late[b] /\ ended'[b] = ended[b]
        BY <1>1, <1>2, <2>3 DEF LoopTypes
    <3> QED  BY <2>1, <3>1 DEF UnitInv, SearchInv, Reasons
  <2> QED  BY <2>2, <2>3
<1> QED  BY <1>3, <1>4, <1>5, <1>6, <1>7 DEF SearchInv

\* An answer comes in, byte by byte, and is stored.
LEMMA Received ==
    ASSUME UnitInv, Unit!RecvByte
    PROVE  UnitInv'
<1>1. /\ answers # <<>> /\ answers' = Tail(answers)
      /\ UNCHANGED <<wanted, cur, change, num, mover, req, threads, timer, response, unit,
                     calls, losses, disturbed, halted>>
    BY DEF Unit!RecvByte, Unit!speeds, Unit!counts
<1>2. LineTypes'
  <2>1. /\ answers' \in Seq(Unit!Axes \X (Positions \cup {Unit!Nowhere}))
        /\ Len(answers') <= MaxAnswers
      BY <1>1, UnitConstants DEF UnitInv, UnitTypes, LineTypes
  <2> QED  BY <1>1, <2>1 DEF UnitInv, UnitTypes, LineTypes
<1>3. Follows'
    BY <1>1, FollowsApart
<1>4. LoopTypes' /\ SearchInv'
  <2>1. CASE response = "Null"
    <3>1. UNCHANGED <<bak, exitQuery, got, sync, ended, late>>
        BY <2>1 DEF Unit!RecvByte, Unit!recv
    <3> QED  BY <1>1, <3>1, UnitFrames, SearchFrame DEF UnitInv, UnitTypes, loopVars, searchVars
  <2>2. CASE response # "Null"
    <3> DEFINE a == Head(answers)[1]
               v == Head(answers)[2]
               g == IF a \in Unit!Timed THEN [got EXCEPT ![a] = TRUE] ELSE got
    <3>1. a \in Unit!Axes
        BY <1>1 DEF UnitInv, UnitTypes, LineTypes
    <3>2. /\ IF Unit!There(a, v)
             THEN /\ exitQuery' = [exitQuery EXCEPT ![a] = TRUE]
                  /\ bak' = [bak EXCEPT ![a] = 0]
                  /\ Unit!Ends(a)
             ELSE UNCHANGED <<exitQuery, bak, ended, late>>
          /\ IF g["pan"] /\ g["tilt"]
             THEN sync' = FALSE /\ got' = [b \in Unit!Timed |-> FALSE]
             ELSE got' = g /\ UNCHANGED sync
        BY <2>2 DEF Unit!RecvByte
    <3>3. g \in [Unit!Timed -> BOOLEAN]
        BY DEF UnitInv, UnitTypes, LoopTypes
    <3> HIDE DEF a, v, g
    <3>4. got' \in [Unit!Timed -> BOOLEAN] /\ sync' \in BOOLEAN
        BY <3>2, <3>3 DEF UnitInv, UnitTypes, LoopTypes
    <3>5. CASE Unit!There(a, v)
      <4>1. /\ exitQuery' = [exitQuery EXCEPT ![a] = TRUE] /\ bak' = [bak EXCEPT ![a] = 0]
            /\ Unit!Ends(a)
          BY <3>2, <3>5
      <4>2. /\ SearchInv' /\ ended' \in [Unit!Axes -> BOOLEAN]
            /\ late' \in [Unit!Axes -> BOOLEAN]
          BY <1>1, <3>1, <4>1, SearchEnds
      <4>3. /\ exitQuery' \in [Unit!Axes -> BOOLEAN]
            /\ bak' \in [Unit!Axes -> Positions \cup {0}]
          BY <3>1, <4>1 DEF UnitInv, UnitTypes, LoopTypes
      <4> QED  BY <1>1, <3>4, <4>2, <4>3 DEF UnitInv, UnitTypes, LoopTypes
    <3>6. CASE ~Unit!There(a, v)
      <4>1. UNCHANGED <<exitQuery, bak, ended, late>>
          BY <3>2, <3>6
      <4>2. SearchInv'
          BY <1>1, <4>1, SearchFrame DEF UnitInv, searchVars
      <4> QED  BY <1>1, <3>4, <4>1, <4>2 DEF UnitInv, UnitTypes, LoopTypes
    <3> QED  BY <3>5, <3>6
  <2> QED  BY <2>1, <2>2
<1> QED  BY <1>1, <1>2, <1>3, <1>4, UnitFrames DEF UnitInv, UnitTypes, speedVars, threadVars

\* The timer of a search runs out, and its callback ends the search.
LEMMA Elapses ==
    ASSUME UnitInv, NEW a \in Unit!Timed, Unit!Elapse(a)
    PROVE  UnitInv'
<1>1. /\ timer[a] = "on" /\ timer' = [timer EXCEPT ![a] = "due"]
      /\ UNCHANGED <<wanted, cur, change, num, mover, req, threads, bak, exitQuery, got, sync,
                     response, answers, unit, calls, losses, disturbed, ended, late, halted>>
    BY DEF Unit!Elapse, Unit!speeds, Unit!recv, Unit!counts
<1>2. /\ timer' \in [Unit!Timed -> {"off", "on", "due"}]
      /\ \A b \in Unit!Timed : timer[b] # "off" => timer'[b] # "off"
    BY <1>1 DEF UnitInv, UnitTypes, LoopTypes
<1>3. UnitTypes'
  <2>1. LoopTypes'
      BY <1>1, <1>2 DEF UnitInv, UnitTypes, LoopTypes
  <2> QED  BY <1>1, <2>1, UnitFrames DEF UnitInv, UnitTypes, speedVars, threadVars, lineVars
<1>4. Follows'
    BY <1>1, FollowsApart
<1>5. SearchInv'
  <2>1. PositionSearch' /\ ZoomSearch'
      BY <1>1, <1>2 DEF UnitInv, SearchInv, PositionSearch, ZoomSearch, JobOf
  <2>2. \A b : Unit!Searching(b)' <=> Unit!Searching(b)
      BY <1>1 DEF Unit!Searching
  <2>3. Reasons'
      BY <1>1, <2>2 DEF UnitInv, SearchInv, Reasons
  <2> QED  BY <2>1, <2>3 DEF SearchInv
<1> QED  BY <1>3, <1>4, <1>5 DEF UnitInv

LEMMA CalledBack ==
    ASSUME UnitInv, NEW a \in Unit!Timed, Unit!Callback(a)
    PROVE  UnitInv'
<1>1. /\ timer[a] = "due" /\ timer' = [timer EXCEPT ![a] = "off"]
      /\ exitQuery' = [exitQuery EXCEPT ![a] = TRUE]
      /\ Unit!Ends(a)
      /\ UNCHANGED <<wanted, cur, change, num, mover, req, threads, bak, got, sync,
                     response, answers, unit, calls, losses, disturbed, halted>>
    BY DEF Unit!Callback, Unit!Axis, Unit!speeds, Unit!recv, Unit!counts
<1>2. /\ timer' \in [Unit!Timed -> {"off", "on", "due"}]
      /\ \A b \in Unit!Timed : b # a /\ timer[b] # "off" => timer'[b] # "off"
      /\ a \in Unit!Axes
    BY <1>1 DEF UnitInv, UnitTypes, LoopTypes, Unit!Timed, Unit!Axes
<1>3. /\ SearchInv' /\ ended' \in [Unit!Axes -> BOOLEAN]
      /\ late' \in [Unit!Axes -> BOOLEAN]
    BY <1>1, <1>2, SearchEnds
<1>4. exitQuery' \in [Unit!Axes -> BOOLEAN]
    BY <1>1, <1>2 DEF UnitInv, UnitTypes, LoopTypes
<1>5. LoopTypes'
    BY <1>1, <1>2, <1>3, <1>4 DEF UnitInv, UnitTypes, LoopTypes
<1>6. UnitTypes'
    BY <1>1, <1>5, UnitFrames DEF UnitInv, UnitTypes, speedVars, threadVars, lineVars
<1>7. Follows'
    BY <1>1, FollowsApart
<1> QED  BY <1>3, <1>6, <1>7 DEF UnitInv

\* Every step of the unit keeps the invariant, and so has every state.
LEMMA UnitKeeps == UnitInv /\ [Unit!Next]_unitVars => UnitInv'
<1> SUFFICES ASSUME UnitInv, [Unit!Next]_unitVars
             PROVE  UnitInv'
    OBVIOUS
<1>1. CASE UNCHANGED unitVars
  <2>1. SearchInv'
      BY <1>1, SearchFrame DEF unitVars, searchVars, UnitInv
  <2>2. Follows'
      BY <1>1, FollowsApart DEF unitVars
  <2>3. UnitTypes'
      BY <1>1, UnitFrames DEF UnitInv, UnitTypes, unitVars, speedVars, threadVars, loopVars,
         lineVars
  <2> QED  BY <2>1, <2>2, <2>3 DEF UnitInv
<1>2. CASE Unit!Move
  <2>1. UnitTypes' /\ Follows'
      BY <1>2, MoverMoves DEF UnitInv
  <2>2. UNCHANGED searchVars
      BY <1>2 DEF Unit!Move, Unit!loops, searchVars
  <2> QED  BY <2>1, <2>2, SearchFrame DEF UnitInv
<1>3. CASE Unit!MoveSync
  <2>1. UnitTypes' /\ Follows'
      BY <1>3, MoverSends DEF UnitInv
  <2>2. UNCHANGED searchVars
      BY <1>3 DEF Unit!MoveSync, Unit!loops, searchVars
  <2> QED  BY <2>1, <2>2, SearchFrame DEF UnitInv
<1>4. ASSUME NEW f \in Set, NEW v \in -1 .. 1, Unit!SetSpeed(f, v)
      PROVE  UnitInv'
  <2>1. UnitTypes' /\ Follows'
      BY <1>4, SpeedSet DEF UnitInv
  <2>2. UNCHANGED searchVars
      BY <1>4 DEF Unit!SetSpeed, Unit!loops, searchVars
  <2> QED  BY <2>1, <2>2, SearchFrame DEF UnitInv
<1>5. CASE \/ Unit!ptzStop \/ Unit!ResetPtz \/ Unit!ptzSetPos \/ Unit!setZoomPos
           \/ Unit!queryPos \/ Unit!zoomServer
    BY <1>5, StopCalled, StopResets, PositionCalled, ZoomCalled, QueryCalled, ZoomServerCalled
<1>6. ASSUME NEW t \in Unit!Threads, Unit!Threaded(t)
      PROVE  UnitInv'
    BY <1>6, Builds, RequestSent, LoopsOn DEF Unit!Threaded
<1>7. CASE Unit!QueryLoop \/ Unit!RecvByte
    BY <1>7, QueriesOn, Received
<1>8. ASSUME NEW a \in Unit!Axes, Unit!UnitArrives(a)
      PROVE  UnitInv'
    BY <1>8, Arrives
<1>9. ASSUME NEW a \in Unit!Timed, Unit!Elapse(a) \/ Unit!Callback(a)
      PROVE  UnitInv'
    BY <1>9, Elapses, CalledBack
<1> QED  BY <1>1, <1>2, <1>3, <1>4, <1>5, <1>6, <1>7, <1>8, <1>9 DEF Unit!Next

LEMMA UnitStarts == Unit!Init => UnitInv
<1> SUFFICES ASSUME Unit!Init
             PROVE  UnitInv
    OBVIOUS
<1>1. /\ Unit!AtRest \in SpeedsType /\ Unit!Cmd1(Unit!AtRest) = {}
      /\ Unit!Cmd2(Unit!AtRest) = {}
    BY RestBits
<1>2. SpeedTypes
  <2>1. /\ wanted = Unit!AtRest /\ cur = Unit!AtRest /\ num = 3 /\ mover = "Move"
        /\ change \in BOOLEAN /\ disturbed \in BOOLEAN /\ halted \in BOOLEAN
      BY DEF Unit!Init, Unit!Counted
  <2> QED  BY <1>1, <2>1 DEF SpeedTypes, Unit!Counted
<1>3. ThreadTypes
    BY JobsTyped, StopRequest DEF Unit!Init, ThreadTypes
<1>4. LoopTypes
    BY DEF Unit!Init, LoopTypes
<1>5. LineTypes
  <2>1. (CHOOSE p \in Positions \ Targets : TRUE) \in Positions
      BY UnitConstants
  <2>2. unit \in Unit!Units
    <3>1. [a \in Unit!Axes |-> Unit!Nowhere] \in [Unit!Axes -> Nat \cup {Unit!Nowhere}]
        OBVIOUS
    <3>2. [a \in Unit!Axes |-> CHOOSE p \in Positions \ Targets : TRUE]
              \in [Unit!Axes -> Positions]
        BY <2>1
    <3> QED  BY <3>1, <3>2 DEF Unit!Init, Unit!Units
  <2>3. answers = <<>> /\ losses = 0 /\ response = "Null"
      BY DEF Unit!Init
  <2> QED  BY <2>2, <2>3, UnitConstants DEF LineTypes
<1>6. UnitTypes
    BY <1>2, <1>3, <1>4, <1>5, UnitConstants DEF Unit!Init, UnitTypes
<1>7. \A t \in Unit!Threads : threads[t].at = "idle" /\ threads[t].pkt = Unit!AllStop
    BY JobsTyped DEF Unit!Init
<1>8. Follows
  <2>1. Requests /\ ~StopAt({"cmd", "data", "send"})
      BY <1>7 DEF Requests, StopAt, Unit!Threads
  <2>2. ~halted
      BY DEF Unit!Init
  <2>3. Moves(cur)
      BY <1>1 DEF Unit!Init, Moves
  <2> QED  BY <2>1, <2>2, <2>3 DEF Follows, StopAgrees, UnitAgrees
<1>9. SearchInv
  <2>1. PositionSearch /\ ZoomSearch
      BY <1>7 DEF PositionSearch, ZoomSearch, JobOf, Unit!Threads
  <2>2. Reasons
      BY DEF Unit!Init, Reasons
  <2> QED  BY <2>1, <2>2 DEF SearchInv
<1> QED  BY <1>6, <1>8, <1>9 DEF UnitInv

\* A search goes on only in Loop, and there only when it is over.
LEMMA SearchGoesOn ==
    ASSUME UnitInv, [Unit!Next]_unitVars
    PROVE  Unit!GoesOn
<1> SUFFICES ASSUME NEW t \in {"position", "zoomPos"}, threads[t].at = "loop",
                    threads'[t] # threads[t],
                    threads'[t].at = "idle" \/ threads'[t].axis # threads[t].axis
             PROVE  ended[threads[t].axis] \/ late[threads[t].axis]
    BY DEF Unit!GoesOn
<1> DEFINE a == threads[t].axis
<1>1. /\ threads \in [Unit!Threads -> Unit!Jobs] /\ t \in Unit!Threads
      /\ a \in Unit!Axes
    BY DEF UnitInv, UnitTypes, ThreadTypes, Unit!Threads, Unit!Jobs
<1>2. Unit!Loop(t)
  <2>1. CASE UNCHANGED threads
      BY <2>1
  <2>2. ASSUME NEW u \in Unit!Threads, Unit!Build(u) \/ Unit!Send(u) \/ Unit!Loop(u)
        PROVE  Unit!Loop(t)
    <3>1. CASE u = t
      <4>1. ~Unit!Build(u) /\ ~Unit!Send(u)
          BY <3>1 DEF Unit!Build, Unit!Send
      <4> QED  BY <2>2, <3>1, <4>1
    <3>2. CASE u # t
      <4>1. threads'[t] = threads[t]
          BY <1>1, <2>2, <3>2 DEF Unit!Build, Unit!Send, Unit!Loop
      <4> QED  BY <4>1
    <3> QED  BY <3>1, <3>2
  <2>3. ASSUME NEW u \in Unit!Threads, NEW j, Unit!Call(u, j)
        PROVE  FALSE
    <3>1. threads[u].at = "idle" /\ threads' = [threads EXCEPT ![u] = j]
        BY <2>3 DEF Unit!Call
    <3> QED  BY <1>1, <3>1
  <2>4. CASE \/ Unit!ptzStop \/ Unit!ptzSetPos \/ Unit!setZoomPos \/ Unit!queryPos
             \/ Unit!zoomServer
    <3>1. PICK u \in Unit!Threads : \E j : Unit!Call(u, j)
        BY <2>4 DEF Unit!ptzStop, Unit!ptzSetPos, Unit!setZoomPos, Unit!queryPos,
           Unit!zoomServer, Unit!Threads
    <3> QED  BY <2>3, <3>1
  <2>5. CASE Unit!ResetPtz \/ Unit!QueryLoop
    <3>1. threads'[t] = threads[t]
        BY <1>1, <2>5 DEF Unit!ResetPtz, Unit!QueryLoop
    <3> QED  BY <3>1
  <2>6. CASE \/ Unit!Move \/ Unit!MoveSync \/ Unit!RecvByte
      BY <2>6 DEF Unit!Move, Unit!MoveSync, Unit!RecvByte
  <2>7. ASSUME \/ \E f \in Set, v \in -1 .. 1 : Unit!SetSpeed(f, v)
               \/ \E b \in Unit!Axes : Unit!UnitArrives(b)
               \/ \E b \in Unit!Timed : Unit!Elapse(b) \/ Unit!Callback(b)
        PROVE  FALSE
      BY <2>7 DEF Unit!SetSpeed, Unit!UnitArrives, Unit!Elapse, Unit!Callback
  <2> QED  BY <2>1, <2>2, <2>4, <2>5, <2>6, <2>7 DEF Unit!Next, Unit!Threaded, unitVars
<1>3. exitQuery[a]
  <2> SUFFICES ASSUME ~exitQuery[a]
               PROVE  FALSE
      OBVIOUS
  <2>1. threads' = [threads EXCEPT ![t].at = "cmd", ![t].pkt = Unit!Ask(a)]
      BY <1>2 DEF Unit!Loop
  <2>2. threads[t] \in Unit!Jobs
      BY <1>1
  <2>3. threads'[t].at = "cmd" /\ threads'[t].axis = a
      BY <1>1, <2>1, <2>2 DEF Unit!Jobs
  <2> QED  BY <2>3
<1> QED  BY <1>1, <1>3 DEF UnitInv, SearchInv, Reasons

(***************************************************************************)
(* The unit among the parts.                                               *)
(***************************************************************************)
UnitPart == part = "ptz" => UnitInv

\* The unit among the parts.
LEMMA UnitPartStarts == InitPart => UnitPart
BY UnitStarts DEF InitPart, UnitPart

LEMMA UnitPartKeeps == UnitPart /\ [NextOfPart]_allVars => UnitPart'
<1> SUFFICES ASSUME UnitPart, [NextOfPart]_allVars, part' = "ptz"
             PROVE  UnitInv'
    BY DEF UnitPart
<1>1. part = "ptz" /\ [Unit!Next]_unitVars
    BY DEF NextOfPart, allVars
<1> QED  BY <1>1, UnitKeeps DEF UnitPart

\* When the mover sees no change and has repeated its request, the unit moves as the
\* wanted speeds say, though the line has lost two of the three repetitions, unless
\* a stop or another thread's request came between (Move, MoveSync, resetPtz and
\* ptzStop of PTZ_control.cpp).  Of the losses the bound is the code's: it sends a
\* request three times.
THEOREM UnitFollowsTheSpeeds ==
    ASSUME MaxLosses <= 2
    PROVE  SpecOfParts => []UnitFollows
<1>1. UnitPart => UnitFollows
    BY UnitShows DEF UnitPart, UnitInv, UnitFollows
<1> QED  BY <1>1, UnitPartStarts, UnitPartKeeps, PTL DEF SpecOfParts

\* While ptzSetPos asks for a position its flag is set or its timer runs, and ptzSetPos
\* and setZoomPos leave an axis only when the unit has reported the position or the
\* time was over, however late answers and callbacks come (PTZ_control.cpp).
THEOREM SearchesEnd == SpecOfParts => WaitsEnd
<1>1. UnitPart => (part = "ptz" => Unit!WaitHasEnd)
    BY SearchShows DEF UnitPart, UnitInv
<1>2. UnitPart /\ [NextOfPart]_allVars => [part = "ptz" => Unit!GoesOn]_unitVars
  <2> SUFFICES ASSUME UnitPart, [NextOfPart]_allVars, part = "ptz"
               PROVE  Unit!GoesOn
      OBVIOUS
  <2>1. [Unit!Next]_unitVars
      BY DEF NextOfPart, allVars
  <2> QED  BY <2>1, SearchGoesOn DEF UnitPart
<1> QED  BY <1>1, <1>2, UnitPartStarts, UnitPartKeeps, PTL DEF SpecOfParts, WaitsEnd

(***************************************************************************)
(* The platform: it stands at rest, and turns with the stick.              *)
(***************************************************************************)

(***************************************************************************)
(* Arithmetic.                                                             *)
(***************************************************************************)
LEMMA Products ==
    /\ \A m \in Nat, n \in Nat : m * n \in Nat
    /\ \A m \in Int, n \in Int : m * n \in Int
    /\ \A m \in Nat, n \in Nat, k \in Nat : m <= n => k * m <= k * n
OBVIOUS

\* Division of what is below 0 is towards 0, as in C.
LEMMA Quotients ==
    ASSUME NEW n \in Nat, NEW d \in Nat \ {0}
    PROVE  /\ n \div d \in Nat
           /\ d * (n \div d) <= n
OBVIOUS

\* A part of a number is at most the number.
LEMMA Parts ==
    ASSUME NEW x \in Nat, NEW k \in Nat, NEW m \in Nat \ {0}, k <= m
    PROVE  (x * k) \div m \in Nat /\ (x * k) \div m <= x
<1> DEFINE n == x * k
           q == n \div m
<1>1. n \in Nat /\ n <= x * m
    BY Products
<1> HIDE DEF n
<1>2. q \in Nat /\ m * q <= n
    BY <1>1, Quotients
<1> HIDE DEF q
<1>3. q <= x
  <2> SUFFICES ASSUME q >= x + 1
               PROVE  FALSE
      BY <1>2
  <2>1. m * (x + 1) <= m * q
      BY <1>2, Products
  <2>2. m * (x + 1) = x * m + m
      OBVIOUS
  <2> QED  BY <1>1, <1>2, <2>1, <2>2
<1> QED  BY <1>2, <1>3 DEF n, q

\* Signs and absolute values.
LEMMA SignsAndSizes ==
    ASSUME NEW n \in Int
    PROVE  /\ Plat!Sign(n) \in {-1, 0, 1} /\ Plat!Abs(n) \in Nat
           /\ n >= 0 => Plat!Abs(n) = n
           /\ n < 0 => Plat!Abs(n) = -n
           /\ n > 0 => Plat!Sign(n) = 1
           /\ n < 0 => Plat!Sign(n) = -1
           /\ n = 0 => Plat!Sign(n) = 0
BY DEF Plat!Sign, Plat!Abs

\* A value cut at two bounds.
LEMMA Cuts ==
    ASSUME NEW n \in Int, NEW d \in Nat \ {0}
    PROVE  /\ Plat!Cut(n, d) \in Int
           /\ n >= 0 => Plat!Cut(n, d) >= 0
           /\ n < 0 => Plat!Cut(n, d) = -((-n) \div d)
<1> DEFINE q == Plat!Abs(n) \div d
<1>1. q \in Nat
    BY SignsAndSizes, Quotients
<1>2. Plat!Cut(n, d) = Plat!Sign(n) * q
    BY DEF Plat!Cut
<1>3. Plat!Sign(n) \in {-1, 0, 1}
    BY SignsAndSizes
<1>4. n >= 0 => Plat!Sign(n) \in {0, 1}
    BY SignsAndSizes
<1>5. n < 0 => Plat!Sign(n) = -1 /\ q = (-n) \div d
    BY SignsAndSizes
<1> HIDE DEF q
<1> QED  BY <1>1, <1>2, <1>3, <1>4, <1>5

(***************************************************************************)
(* What the stick is shaped to.                                            *)
(***************************************************************************)
InOrder(p) == 0 <= p.dead /\ p.dead <= p.cut1 /\ p.cut1 <= p.cut2 /\ p.cut2 <= 10

\* joyParamProcHandle puts the breakpoints of the stick in order.
LEMMA SettingsHandled ==
    ASSUME NEW p \in Plat!Settings
    PROVE  LET q == Plat!joyParamProcHandle(p) IN
           /\ q \in Plat!Settings
           /\ q.dead >= 0 /\ q.cut1 >= 0 /\ q.cut2 \in 0 .. 10
           /\ q.cut1 = 0 /\ q.cut2 > 0 => q.dead = 0
           /\ q = p => InOrder(p)
<1> DEFINE dead == Plat!Higher(Plat!Lower(p.dead, p.cut1), 0)
           cut1 == Plat!Higher(Plat!Lower(p.cut1, p.cut2), 0)
           cut2 == Plat!Higher(Plat!Lower(p.cut2, 10), 0)
           q == Plat!joyParamProcHandle(p)
<1>1. /\ p.dead \in Int /\ p.cut1 \in Int /\ p.cut2 \in Int
      /\ p.gain1 \in Nat /\ p.gain2 \in Nat
      /\ p = [dead |-> p.dead, cut1 |-> p.cut1, cut2 |-> p.cut2, gain1 |-> p.gain1,
              gain2 |-> p.gain2]
    BY DEF Plat!Settings
<1>2. q = [p EXCEPT !.dead = dead, !.cut1 = cut1, !.cut2 = cut2]
    BY DEF Plat!joyParamProcHandle
<1>3. /\ dead \in Int /\ cut1 \in Int /\ cut2 \in 0 .. 10 /\ dead >= 0 /\ cut1 >= 0
      /\ cut1 = 0 /\ cut2 > 0 => dead = 0
      /\ dead = p.dead => 0 <= p.dead /\ (p.dead = 0 \/ p.dead <= p.cut1)
      /\ cut1 = p.cut1 => 0 <= p.cut1 /\ (p.cut1 = 0 \/ p.cut1 <= p.cut2)
      /\ cut2 = p.cut2 => 0 <= p.cut2 /\ p.cut2 <= 10
    BY <1>1 DEF Plat!Higher, Plat!Lower
<1> HIDE DEF dead, cut1, cut2, q
<1>4. q = [dead |-> dead, cut1 |-> cut1, cut2 |-> cut2, gain1 |-> p.gain1,
           gain2 |-> p.gain2]
    BY <1>1, <1>2
<1>5. q \in Plat!Settings
    BY <1>1, <1>3, <1>4 DEF Plat!Settings
<1>6. q = p => InOrder(p)
    BY <1>1, <1>3, <1>4 DEF InOrder
<1> QED  BY <1>3, <1>4, <1>5, <1>6 DEF q

\* The stick, with its dead zone taken away.
LEMMA StickTaken ==
    ASSUME NEW v
    PROVE  Plat!DeviceUser_Get(Plat!StickUser, 0, v) = v
BY DEF Plat!DeviceUser_Get, Plat!StickUser

\* The three slopes that shape the stick.
LEMMA SlopesTyped ==
    ASSUME NEW p \in Plat!Settings, NEW a \in Int
    PROVE  /\ Plat!TwoSlopes(p, a) \in Int
           /\ InOrder(p) /\ a >= p.cut1 => Plat!TwoSlopes(p, a) >= 0
<1>1. /\ p.dead \in Int /\ p.cut1 \in Int /\ p.cut2 \in Int
      /\ p.gain1 \in Nat /\ p.gain2 \in Nat
    BY DEF Plat!Settings
<1> DEFINE m == p.gain1 * (p.cut1 - p.dead)
           n == p.gain2 * (a - p.cut1)
<1>2. m \in Int /\ n \in Int
    BY <1>1, Products
<1>3. InOrder(p) /\ a >= p.cut1 => m >= 0 /\ n >= 0
  <2> SUFFICES ASSUME InOrder(p), a >= p.cut1
               PROVE  m >= 0 /\ n >= 0
      OBVIOUS
  <2>1. p.cut1 - p.dead \in Nat /\ a - p.cut1 \in Nat
      BY <1>1 DEF InOrder
  <2>2. m \in Nat /\ n \in Nat
      BY <1>1, <2>1, Products
  <2> QED  BY <2>2
<1>4. Plat!TwoSlopes(p, a) = m + n
    BY DEF Plat!TwoSlopes
<1> HIDE DEF m, n
<1> QED  BY <1>2, <1>3, <1>4

LEMMA LastSlopeTyped ==
    ASSUME NEW p \in Plat!Settings, p.cut2 \in 0 .. 10, NEW a \in Int
    PROVE  /\ Plat!LastSlope(p, a) \in Int
           /\ InOrder(p) /\ a >= p.cut2 /\ a <= 10 => Plat!LastSlope(p, a) >= 0
<1> DEFINE t == Plat!TwoSlopes(p, a)
           k == a - p.cut2
           m == 10 - p.cut2
           n == (100 - t) * k
<1>1. t \in Int
    BY SlopesTyped
<1>2. CASE p.cut2 = 10
  <2>1. Plat!LastSlope(p, a) = t
      BY <1>1, <1>2 DEF Plat!LastSlope
  <2>2. InOrder(p) /\ a >= p.cut2 => t >= 0
    <3>1. p.cut1 \in Int /\ p.cut2 \in Int
        BY DEF Plat!Settings
    <3>2. InOrder(p) /\ a >= p.cut2 => a >= p.cut1
        BY <3>1 DEF InOrder
    <3> QED  BY <3>2, SlopesTyped
  <2> QED  BY <1>1, <2>1, <2>2
<1>3. CASE p.cut2 # 10
  <2>1. Plat!LastSlope(p, a) = t + Plat!Cut(n, m)
      BY <1>3 DEF Plat!LastSlope
  <2>2. /\ k \in Int /\ m \in Nat \ {0} /\ 100 - t \in Int
      BY <1>1, <1>3
  <2>3. n \in Int
      BY <2>2, Products
  <2>4. Plat!Cut(n, m) \in Int
      BY <2>2, <2>3, Cuts
  <2>5. ASSUME InOrder(p), a >= p.cut2, a <= 10
        PROVE  t + Plat!Cut(n, m) >= 0
    <3>1. p.cut1 \in Int /\ p.cut2 \in Int
        BY DEF Plat!Settings
    <3>2. t >= 0
      <4>1. a >= p.cut1
          BY <2>5, <3>1 DEF InOrder
      <4> QED  BY <2>5, <4>1, SlopesTyped
    <3>3. k \in Nat /\ k <= m
        BY <2>5, <3>1
    <3>4. CASE t <= 100
      <4>1. 100 - t \in Nat
          BY <1>1, <3>4
      <4>2. n \in Nat
          BY <3>3, <4>1, Products
      <4> HIDE DEF n, t, m
      <4>3. Plat!Cut(n, m) >= 0
          BY <2>2, <2>3, <4>2, Cuts
      <4> QED  BY <1>1, <2>4, <3>2, <4>3
    <3>5. CASE t > 100
      <4> DEFINE x == t - 100
      <4>1. x \in Nat /\ x > 0
          BY <1>1, <3>5
      <4>2. (x * k) \div m \in Nat /\ (x * k) \div m <= x
          BY <2>2, <3>3, <4>1, Parts
      <4>3. n = -(x * k) /\ x * k \in Nat
        <5>1. x * k \in Nat
            BY <3>3, <4>1, Products
        <5>2. n = -(x * k)
            BY <1>1, <2>2
        <5> QED  BY <5>1, <5>2
      <4>4. Plat!Cut(n, m) >= -x
        <5> DEFINE y == x * k
        <5>1. y \in Nat /\ n = -y /\ y \div m \in Nat /\ y \div m <= x
            BY <4>2, <4>3
        <5> HIDE DEF y, n, x, m
        <5>2. CASE y = 0
          <6>1. n >= 0 /\ Plat!Cut(n, m) >= 0
              BY <2>2, <2>3, <5>1, <5>2, Cuts
          <6> QED  BY <2>4, <4>1, <6>1
        <5>3. CASE y > 0
          <6>1. n < 0 /\ -n = y
              BY <5>1, <5>3
          <6>2. Plat!Cut(n, m) = -(y \div m)
              BY <2>2, <2>3, <6>1, Cuts
          <6> QED  BY <4>1, <5>1, <6>2
        <5> QED  BY <5>1, <5>2, <5>3
      <4>5. x = t - 100
          OBVIOUS
      <4> HIDE DEF n, x, t
      <4> QED  BY <1>1, <2>4, <4>1, <4>4, <4>5
    <3> QED  BY <1>1, <3>4, <3>5
  <2> HIDE DEF n, t, m
  <2> QED  BY <1>1, <2>1, <2>4, <2>5
<1> QED  BY <1>2, <1>3

\* The shaped stick is a number, and 0 at rest.
LEMMA ShapedTyped ==
    ASSUME NEW p \in Plat!Settings, p.cut2 \in 0 .. 10, NEW v \in Int
    PROVE  /\ Plat!Shaped(p, v) \in Int
           /\ InOrder(p) /\ v \in -10 .. 10 => Plat!Shaped(p, v) >= 0
<1> DEFINE a == IF Plat!Abs(v) < p.dead THEN 0 ELSE Plat!Abs(v)
           r == p.gain1 * (a - p.dead)
<1>1. /\ p.dead \in Int /\ p.cut1 \in Int /\ p.cut2 \in Int
      /\ p.gain1 \in Nat /\ p.gain2 \in Nat
    BY DEF Plat!Settings
<1>2. /\ a \in Nat /\ (a = 0 \/ a >= p.dead)
      /\ v \in -10 .. 10 => a <= 10
  <2>1. v \in -10 .. 10 => Plat!Abs(v) <= 10
      BY DEF Plat!Abs
  <2> QED  BY <1>1, <2>1, SignsAndSizes
<1>3. Plat!Shaped(p, v) = IF a < p.cut1 THEN IF a = 0 THEN 0 ELSE r
                          ELSE IF a < p.cut2 THEN Plat!TwoSlopes(p, a)
                          ELSE IF a = 0 THEN 0 ELSE Plat!LastSlope(p, a)
    BY DEF Plat!Shaped
<1> HIDE DEF a
<1>4. r \in Int /\ (a >= p.dead => r >= 0)
  <2>1. a - p.dead \in Int
      BY <1>1, <1>2
  <2>2. a >= p.dead => a - p.dead \in Nat
      BY <1>1, <1>2
  <2> QED  BY <1>1, <2>1, <2>2, Products
<1> HIDE DEF r
<1>5. a \in Int
    BY <1>2
<1> QED  BY <1>1, <1>2, <1>3, <1>4, <1>5, SlopesTyped, LastSlopeTyped

\* A stick at rest asks for nothing.
LEMMA RestShaped ==
    ASSUME NEW p \in Plat!Settings, p.cut1 >= 0, p.cut1 = 0 /\ p.cut2 > 0 => p.dead = 0
    PROVE  Plat!Shaped(p, 0) = 0
<1>1. /\ p.dead \in Int /\ p.cut1 \in Int /\ p.cut2 \in Int
      /\ p.gain1 \in Nat /\ p.gain2 \in Nat
    BY DEF Plat!Settings
<1>2. Plat!Abs(0) = 0
    BY DEF Plat!Abs
<1>3. ASSUME p.cut1 = 0, p.cut2 > 0
      PROVE  Plat!TwoSlopes(p, 0) = 0
  <2>1. p.cut1 - p.dead = 0 /\ 0 - p.cut1 = 0
      BY <1>3
  <2>2. p.gain1 * 0 = 0 /\ p.gain2 * 0 = 0
      BY <1>1
  <2> QED  BY <2>1, <2>2 DEF Plat!TwoSlopes
<1>4. Plat!Shaped(p, 0) = IF 0 < p.cut1 THEN 0
                          ELSE IF 0 < p.cut2 THEN Plat!TwoSlopes(p, 0) ELSE 0
    BY <1>2 DEF Plat!Shaped
<1> QED  BY <1>1, <1>3, <1>4

\* The demand is a number, and 0 for a stick at rest.
LEMMA DemandTyped ==
    ASSUME NEW p \in Plat!Settings, p.cut2 \in 0 .. 10, NEW v \in Int
    PROVE  /\ Plat!joyHandle(p, v) \in Int
           /\ InOrder(p) /\ v \in -10 .. 10 =>
                  (Plat!joyHandle(p, v) = 0
                   \/ Plat!Sign(Plat!joyHandle(p, v)) = Plat!Sign(v))
<1> DEFINE s == Plat!Shaped(p, v)
           d == Plat!joyHandle(p, v)
<1>1. s \in Int /\ (InOrder(p) /\ v \in -10 .. 10 => s >= 0)
    BY ShapedTyped
<1>2. d = 50 * (IF v < 0 THEN -s ELSE s)
    BY DEF Plat!joyHandle
<1>3. ASSUME InOrder(p), v = 0
      PROVE  s = 0
  <2>1. /\ p.dead \in Int /\ p.cut1 \in Int /\ p.cut2 \in Int
      BY DEF Plat!Settings
  <2>2. p.cut1 >= 0 /\ (p.cut1 = 0 /\ p.cut2 > 0 => p.dead = 0)
      BY <1>3, <2>1 DEF InOrder
  <2> QED  BY <1>3, <2>2, RestShaped
<1> HIDE DEF s, d
<1>4. d \in Int
    BY <1>1, <1>2
<1>5. ASSUME InOrder(p), v \in -10 .. 10
      PROVE  d = 0 \/ Plat!Sign(d) = Plat!Sign(v)
  <2>1. s >= 0
      BY <1>1, <1>5
  <2>2. CASE v = 0
      BY <1>2, <1>3, <1>5, <2>2
  <2>3. CASE v > 0
    <3>1. d >= 0
        BY <1>1, <1>2, <2>1, <2>3
    <3> QED  BY <1>4, <2>3, <3>1 DEF Plat!Sign
  <2>4. CASE v < 0
    <3>1. d <= 0
        BY <1>1, <1>2, <2>1, <2>4
    <3> QED  BY <1>4, <2>4, <3>1 DEF Plat!Sign
  <2> QED  BY <2>2, <2>3, <2>4
<1> QED  BY <1>4, <1>5 DEF d

LEMMA RestDemanded ==
    ASSUME NEW p \in Plat!Settings
    PROVE  Plat!joyHandle(Plat!joyParamProcHandle(p), 0) = 0
<1> DEFINE q == Plat!joyParamProcHandle(p)
<1>1. q \in Plat!Settings /\ q.cut1 >= 0 /\ (q.cut1 = 0 /\ q.cut2 > 0 => q.dead = 0)
    BY SettingsHandled
<1> HIDE DEF q
<1>2. Plat!Shaped(q, 0) = 0
    BY <1>1, RestShaped
<1> QED  BY <1>2 DEF q, Plat!joyHandle

(***************************************************************************)
(* What a demand makes of the speed.                                       *)
(***************************************************************************)
LEMMA CompensatedTyped ==
    ASSUME NEW d \in Int
    PROVE  /\ Plat!Compensated(d) \in Int
           /\ Plat!Abs(Plat!Compensated(d)) <= 8000
           /\ Plat!Abs(d) < 8000 => /\ Plat!Compensated(d) \in {0, d}
                                    /\ Plat!Abs(Plat!Compensated(d)) < 8000
           /\ d = 0 => Plat!Compensated(d) = 0
BY DEF Plat!Compensated, Plat!Abs, Plat!Sign, Plat!DemandMax, Plat!Deadband

\* Half a step more, rounded.
LEMMA HalfRounded ==
    ASSUME NEW n \in Nat, NEW w \in Nat \ {0}, n <= w
    PROVE  (16 * n + w) \div (2 * w) \in 0 .. 8
<1> DEFINE m == 16 * n + w
           k == 2 * w
           q == m \div k
<1>1. m \in Nat /\ k \in Nat \ {0} /\ m < 9 * k
    OBVIOUS
<1> HIDE DEF m, k
<1>2. q \in Nat /\ k * q <= m
    BY <1>1, Quotients
<1> HIDE DEF q
<1>3. q <= 8
  <2> SUFFICES ASSUME q >= 9
               PROVE  FALSE
      BY <1>2
  <2>1. k * 9 <= k * q
      BY <1>1, <1>2, Products
  <2> QED  BY <1>1, <1>2, <2>1
<1> QED  BY <1>2, <1>3 DEF q, m, k

\* The levels of speed rise.
LEMMA LevelsRise ==
    ASSUME NEW a \in Plat!Axes
    PROVE  /\ \A i \in 1 .. 9 : Plat!SpeedLevel[a][i] \in Nat
           /\ 0 < Plat!SpeedLevel[a][1]
           /\ \A i \in 1 .. 8 : Plat!SpeedLevel[a][i] < Plat!SpeedLevel[a][i + 1]
           /\ Plat!SpeedLevel[a][9] = 8000
<1> DEFINE L == Plat!SpeedLevel[a]
<1>1. /\ Plat!SpeedLevel["x"] = <<65, 111, 418, 824, 1339, 2029, 3046, 4812, 8000>>
      /\ Plat!SpeedLevel["y"] = <<158, 209, 639, 1312, 1733, 2448, 3687, 5269, 8000>>
    BY DEF Plat!SpeedLevel
<1>2. a = "x" \/ a = "y"
    BY DEF Plat!Axes
<1>3. /\ L[1] \in Nat /\ L[2] \in Nat /\ L[3] \in Nat /\ L[4] \in Nat /\ L[5] \in Nat
      /\ L[6] \in Nat /\ L[7] \in Nat /\ L[8] \in Nat /\ L[9] \in Nat
      /\ L[1] < L[2] /\ L[2] < L[3] /\ L[3] < L[4] /\ L[4] < L[5] /\ L[5] < L[6]
      /\ L[6] < L[7] /\ L[7] < L[8] /\ L[8] < L[9]
      /\ 0 < L[1] /\ L[9] = 8000
    BY <1>1, <1>2
<1> HIDE DEF L
<1>4. \A i \in 1 .. 9 : L[i] \in Nat
  <2> TAKE i \in 1 .. 9
  <2>1. \/ i = 1 \/ i = 2 \/ i = 3 \/ i = 4 \/ i = 5 \/ i = 6 \/ i = 7 \/ i = 8 \/ i = 9
      OBVIOUS
  <2> QED  BY <1>3, <2>1
<1>5. \A i \in 1 .. 8 : L[i] < L[i + 1]
  <2> SUFFICES ASSUME NEW i \in 1 .. 8, NEW j \in Int, j = i + 1
               PROVE  L[i] < L[j]
      OBVIOUS
  <2>1. \/ (i = 1 /\ j = 2) \/ (i = 2 /\ j = 3) \/ (i = 3 /\ j = 4) \/ (i = 4 /\ j = 5)
        \/ (i = 5 /\ j = 6) \/ (i = 6 /\ j = 7) \/ (i = 7 /\ j = 8) \/ (i = 8 /\ j = 9)
      OBVIOUS
  <2> QED  BY <1>3, <2>1
<1> QED  BY <1>3, <1>4, <1>5 DEF L

\* The highest of the levels that are not above a demand.
LEMMA LevelOf ==
    ASSUME NEW L, \A k \in 1 .. 9 : L[k] \in Nat, NEW n \in Nat, L[1] <= n, n < L[9]
    PROVE  /\ Plat!Max({k \in 1 .. 9 : L[k] <= n}) \in 1 .. 8
           /\ L[Plat!Max({k \in 1 .. 9 : L[k] <= n})] <= n
           /\ n < L[Plat!Max({k \in 1 .. 9 : L[k] <= n}) + 1]
<1> DEFINE S == {k \in 1 .. 9 : L[k] <= n}
           i == Plat!Max(S)
<1>1. \E k \in S : \A m \in S : k >= m
  <2>1. /\ 1 \in 1 .. 9 /\ 2 \in 1 .. 9 /\ 3 \in 1 .. 9 /\ 4 \in 1 .. 9 /\ 5 \in 1 .. 9
        /\ 6 \in 1 .. 9 /\ 7 \in 1 .. 9 /\ 8 \in 1 .. 9 /\ 9 \in 1 .. 9
      OBVIOUS
  <2>2. /\ S \subseteq 1 .. 9 /\ 1 \in S /\ 9 \notin S
      BY <2>1
  <2> HIDE DEF S
  <2>3. \A m \in S : m \in Int /\ m <= 8
      BY <2>2
  <2>4. CASE 8 \in S
      BY <2>3, <2>4
  <2>5. CASE 8 \notin S /\ 7 \in S
    <3>1. \A m \in S : 7 >= m
        BY <2>3, <2>5
    <3> QED  BY <2>5, <3>1
  <2>6. CASE 8 \notin S /\ 7 \notin S /\ 6 \in S
    <3>1. \A m \in S : 6 >= m
        BY <2>3, <2>6
    <3> QED  BY <2>6, <3>1
  <2>7. CASE 8 \notin S /\ 7 \notin S /\ 6 \notin S /\ 5 \in S
    <3>1. \A m \in S : 5 >= m
        BY <2>3, <2>7
    <3> QED  BY <2>7, <3>1
  <2>8. CASE 8 \notin S /\ 7 \notin S /\ 6 \notin S /\ 5 \notin S /\ 4 \in S
    <3>1. \A m \in S : 4 >= m
        BY <2>3, <2>8
    <3> QED  BY <2>8, <3>1
  <2>9. CASE 8 \notin S /\ 7 \notin S /\ 6 \notin S /\ 5 \notin S /\ 4 \notin S /\ 3 \in S
    <3>1. \A m \in S : 3 >= m
        BY <2>3, <2>9
    <3> QED  BY <2>9, <3>1
  <2>10. CASE /\ 8 \notin S /\ 7 \notin S /\ 6 \notin S /\ 5 \notin S /\ 4 \notin S
              /\ 3 \notin S
    <3>1. CASE 2 \in S
      <4>1. \A m \in S : 2 >= m
          BY <2>3, <2>10
      <4> QED  BY <3>1, <4>1
    <3>2. CASE 2 \notin S
      <4>1. \A m \in S : 1 >= m
          BY <2>3, <2>10, <3>2
      <4> QED  BY <2>2, <4>1
    <3> QED  BY <3>1, <3>2
  <2> QED  BY <2>4, <2>5, <2>6, <2>7, <2>8, <2>9, <2>10
<1>2. i = CHOOSE k \in S : \A m \in S : k >= m
    BY DEF Plat!Max
<1> HIDE DEF i
<1>3. i \in S /\ \A m \in S : i >= m
  <2> HIDE DEF S
  <2> QED  BY <1>1, <1>2
<1>4. i \in 1 .. 9 /\ L[i] <= n
    BY <1>3
<1>5. i # 9
    BY <1>4
<1>6. i + 1 \in 1 .. 9 /\ i + 1 \notin S
    BY <1>3, <1>4, <1>5
<1>7. n < L[i + 1]
    BY <1>6
<1> QED  BY <1>4, <1>5, <1>7 DEF i

\* The speed turns the unit the way of the demand.
LEMMA SpeedTyped ==
    ASSUME NEW a \in Plat!Axes, NEW d \in Int, Plat!Abs(d) <= 8000
    PROVE  /\ Plat!GetSpeed(a, d) \subseteq Plat!UnitSpeeds
           /\ d = 0 => Plat!GetSpeed(a, d) = {0}
           /\ Plat!Abs(d) < 8000 =>
                  \A n \in Plat!GetSpeed(a, d) : n = 0 \/ Plat!Sign(n) = Plat!Sign(d)
<1> DEFINE L == Plat!SpeedLevel[a]
           level == Plat!Abs(d)
           dir == IF d < 0 THEN -1 ELSE 1
           i == Plat!Max({n \in 1 .. 9 : L[n] <= level})
           width == L[i + 1] - L[i]
           v == 8 * (i - 1) + (16 * (level - L[i]) + width) \div (2 * width)
<1>1. Plat!GetSpeed(a, d) =
          IF level < L[1] THEN {0}
          ELSE IF level >= L[9] THEN {dir * (64 + n) : n \in Plat!Converted}
          ELSE {dir * v}
    BY DEF Plat!GetSpeed
<1>2. level \in Nat /\ dir \in {-1, 1} /\ (d = 0 => level = 0) /\ (d < 0 <=> dir = -1)
    BY SignsAndSizes
<1>3. /\ \A k \in 1 .. 9 : L[k] \in Nat
      /\ 0 < L[1] /\ L[9] = 8000
      /\ \A k \in 1 .. 8 : L[k] < L[k + 1]
    BY LevelsRise
<1> HIDE DEF L, level, dir
<1>4. CASE level < L[1]
  <2>1. Plat!GetSpeed(a, d) = {0}
      BY <1>1, <1>4
  <2> QED  BY <2>1 DEF Plat!UnitSpeeds
<1>5. CASE level >= L[9]
  <2>1. Plat!GetSpeed(a, d) = {dir * (64 + n) : n \in Plat!Converted} /\ level = 8000
      BY <1>1, <1>2, <1>3, <1>5 DEF level
  <2>2. \A n \in Plat!Converted : dir * (64 + n) \in Plat!UnitSpeeds
      BY <1>2 DEF Plat!UnitSpeeds
  <2> QED  BY <1>2, <2>1, <2>2 DEF level
<1>6. CASE L[1] <= level /\ level < L[9]
  <2>1. i \in 1 .. 8 /\ L[i] <= level /\ level < L[i + 1]
      BY <1>2, <1>3, <1>6, LevelOf
  <2> HIDE DEF i
  <2>2. i \in 1 .. 9 /\ i + 1 \in 1 .. 9
      BY <2>1
  <2>3. L[i] \in Nat /\ L[i + 1] \in Nat
      BY <1>3, <2>2
  <2>4. level - L[i] \in Nat /\ width \in Nat \ {0} /\ level - L[i] <= width
      BY <1>2, <2>1, <2>3
  <2>5. (16 * (level - L[i]) + width) \div (2 * width) \in 0 .. 8
    <3> HIDE DEF width
    <3> QED  BY <2>4, HalfRounded
  <2> DEFINE r == (16 * (level - L[i]) + width) \div (2 * width)
  <2>6. r \in 0 .. 8 /\ v = 8 * (i - 1) + r
      BY <2>5
  <2> HIDE DEF r, v
  <2>7. v \in 0 .. 64
      BY <2>1, <2>6
  <2>8. Plat!GetSpeed(a, d) = {dir * v}
      BY <1>1, <1>2, <1>3, <1>6
  <2>9. dir * v \in -64 .. 64 /\ (dir = 1 => dir * v = v) /\ (dir = -1 => dir * v = -v)
      BY <1>2, <2>7
  <2>10. d # 0
      BY <1>2, <1>3, <1>6
  <2>11. dir * v = 0 \/ Plat!Sign(dir * v) = Plat!Sign(d)
      BY <1>2, <2>7, <2>9, <2>10 DEF Plat!Sign
  <2> QED  BY <2>8, <2>9, <2>10, <2>11 DEF Plat!UnitSpeeds
<1> QED  BY <1>2, <1>3, <1>4, <1>5, <1>6

(***************************************************************************)
(* What the filters remember.                                              *)
(***************************************************************************)
Triples == Int \X Int \X Int
Rates   == Int \X Int \X Int \X Int \X Int \X Int \X Int \X Int
Forgotten(f) == f.Uc = 0 /\ f.Xc = <<0, 0, 0>>

\* A filter is the record of its fields.
LEMMA FiltersAre ==
    Plat!Filters = [Xc : Triples, Yc : Int, Uc : Int, out : Int, buf : Rates,
                    stable : BOOLEAN, count : Nat]
BY DEF Plat!Filters, Triples, Rates

LEMMA FilterFields ==
    \A f \in Plat!Filters :
        /\ f.Xc \in Triples /\ f.Yc \in Int /\ f.Uc \in Int /\ f.out \in Int
        /\ f.buf \in Rates /\ f.stable \in BOOLEAN /\ f.count \in Nat
        /\ f = [Xc |-> f.Xc, Yc |-> f.Yc, Uc |-> f.Uc, out |-> f.out, buf |-> f.buf,
                stable |-> f.stable, count |-> f.count]
BY FiltersAre

\* A filter that is created or reset holds nothing of the last track.
LEMMA Cleared ==
    <<0, 0, 0>> \in Triples /\ <<0, 0, 0, 0, 0, 0, 0, 0>> \in Rates
BY DEF Triples, Rates

LEMMA FilterCreated ==
    Plat!NewFilter \in Plat!Filters /\ Forgotten(Plat!NewFilter)
BY FiltersAre, Cleared DEF Plat!NewFilter, Forgotten

LEMMA FilterReset ==
    ASSUME NEW f \in Plat!Filters
    PROVE  /\ Plat!PlatformFilter_Reset(f) \in Plat!Filters
           /\ Forgotten(Plat!PlatformFilter_Reset(f))
<1>1. f.stable \in BOOLEAN /\ f.count \in Nat
    BY FilterFields
<1> DEFINE new == Plat!NewFilter
<1>2. new \in Plat!Filters /\ Forgotten(new)
    BY FilterCreated
<1>3. Plat!PlatformFilter_Reset(f) = [new EXCEPT !.stable = f.stable, !.count = f.count]
    BY DEF Plat!PlatformFilter_Reset
<1> HIDE DEF new
<1> QED  BY <1>1, <1>2, <1>3, FiltersAre DEF Forgotten

LEMMA FilterReset4trk ==
    ASSUME NEW f \in Plat!Filters
    PROVE  /\ Plat!PlatformFilter_reset4trk(f) \in Plat!Filters
           /\ Forgotten(Plat!PlatformFilter_reset4trk(f))
<1> DEFINE none == <<0, 0, 0>>
           off == FALSE
           y == f.out
           u == 0
           n == 0
           new == Plat!PlatformFilter_reset4trk(f)
<1>2. new = [f EXCEPT !.Xc = none, !.Yc = y, !.Uc = u, !.stable = off, !.count = n]
    BY DEF Plat!PlatformFilter_reset4trk
<1>3. none \in Triples /\ off \in BOOLEAN /\ y \in Int /\ u \in Int /\ n \in Nat
    BY Cleared, FilterFields
<1> HIDE DEF none, off, y, u, n, new
<1>4. new \in Plat!Filters
    BY <1>2, <1>3, FiltersAre
<1>5. new.Uc = u /\ new.Xc = none
    BY <1>2, FiltersAre
<1> QED  BY <1>4, <1>5 DEF Forgotten, new, none, u

\* A filter step keeps the types of the filter.
LEMMA CutTyped ==
    ASSUME NEW n \in Int, NEW d \in Nat \ {0}
    PROVE  Plat!Cut(n, d) \in Int
BY Cuts

LEMMA AverageTyped ==
    ASSUME NEW f \in Plat!Filters, NEW rate \in Int
    PROVE  /\ Plat!calcCurPlatAvrRate(f, rate) \in Plat!Filters
           /\ Forgotten(f) => Forgotten(Plat!calcCurPlatAvrRate(f, rate))
<1> DEFINE b == f.buf
           sum == rate + b[1] + b[2] + b[3] + b[4] + b[5] + b[6] + b[7]
           new == <<rate, b[1], b[2], b[3], b[4], b[5], b[6], b[7]>>
           out == Plat!Cut(sum, 8)
<1>1. b \in Rates
    BY FilterFields
<1>2. /\ b[1] \in Int /\ b[2] \in Int /\ b[3] \in Int /\ b[4] \in Int /\ b[5] \in Int
      /\ b[6] \in Int /\ b[7] \in Int
    BY <1>1 DEF Rates
<1>3. new \in Rates
    BY <1>2 DEF Rates
<1>4. sum \in Int
    BY <1>2
<1>5. Plat!calcCurPlatAvrRate(f, rate) = [f EXCEPT !.buf = new, !.out = out]
    BY DEF Plat!calcCurPlatAvrRate
<1> HIDE DEF b, sum, new
<1>6. out \in Int
    BY <1>4, CutTyped
<1> HIDE DEF out
<1>7. Plat!calcCurPlatAvrRate(f, rate) =
          [Xc |-> f.Xc, Yc |-> f.Yc, Uc |-> f.Uc, out |-> out, buf |-> new,
           stable |-> f.stable, count |-> f.count]
    BY <1>5, FilterFields
<1>8. Plat!calcCurPlatAvrRate(f, rate) \in Plat!Filters
    BY <1>3, <1>6, <1>7, FilterFields, FiltersAre
<1> QED  BY <1>7, <1>8 DEF Forgotten

LEMMA ShiftTyped ==
    ASSUME NEW f \in Plat!Filters, NEW err \in Int
    PROVE  Plat!Shifted(f, err) \in Triples
<1>1. f.Xc \in Triples
    BY FilterFields
<1>2. f.Xc[1] \in Int /\ f.Xc[2] \in Int /\ f.Xc[3] \in Int
      /\ f.Xc = <<f.Xc[1], f.Xc[2], f.Xc[3]>>
    BY <1>1 DEF Triples
<1>3. [f.Xc EXCEPT ![1] = err] \in Triples
    BY <1>1 DEF Triples
<1>4. <<err, f.Xc[1], f.Xc[2]>> \in Triples
    BY <1>2 DEF Triples
<1> QED  BY <1>3, <1>4 DEF Plat!Shifted

LEMMA PidTyped ==
    ASSUME MotionAssumption, NEW f \in Plat!Filters, NEW p \in PidParams, NEW err \in Int
    PROVE  Plat!pidAlg(f, p, err) \in Plat!Filters
<1>1. /\ p.Kp \in Nat /\ p.Ki \in Nat /\ p.Kd \in Nat /\ p.K \in 0 .. 10
    BY DEF MotionAssumption, Plat!PlatformAssumption
<1> DEFINE Xc == Plat!Shifted(f, err)
           quiet == ~f.stable /\ Xc[2] = 0 /\ Xc[3] = 0
           sums == f.stable \/ (~quiet /\ Plat!Abs(Xc[1] - Xc[2]) < Plat!SpeedDiff2Integral)
           count == IF ~f.stable /\ ~quiet /\ Plat!Abs(err) > Plat!SpeedDiff2Count
                    THEN f.count + 1 ELSE f.count
           Uc == f.Uc + (IF sums THEN err ELSE 0)
           demand1 == p.Kp * err
           demand2 == p.Ki * Uc
           demand3 == p.Kd * (err - Xc[2])
           given == p.Kp * err + (IF quiet THEN 0
                                  ELSE p.Ki * Uc + p.Kd * (err - Xc[2]))
           rate == Plat!Cut(given, 10)
           mixed == p.K * f.Yc + (10 - p.K) * rate
           ret == Plat!Cut(mixed, 10)
           stable == f.stable \/ (~quiet /\ (Plat!Abs(err) <= Plat!SpeedDiff2Count
                                             \/ count > FrameNum))
           Yc == IF Plat!Abs(ret) > Plat!SpeedMax THEN Plat!Sign(ret) * Plat!SpeedMax
                 ELSE ret
<1>2. Plat!pidAlg(f, p, err) = [f EXCEPT !.Xc = Xc, !.Uc = Uc, !.count = count,
                                        !.stable = stable, !.Yc = Yc]
    BY DEF Plat!pidAlg
<1>3. Xc \in Triples
    BY ShiftTyped
<1>4. Xc[2] \in Int
    BY <1>3 DEF Triples
<1> HIDE DEF Xc
<1>5. f.Uc \in Int /\ f.Yc \in Int /\ f.count \in Nat /\ f.stable \in BOOLEAN
    BY FilterFields
<1>6. Uc \in Int /\ count \in Nat /\ stable \in BOOLEAN
    BY <1>5
<1> HIDE DEF sums, count, Uc, stable
<1>7. demand1 \in Int /\ demand2 \in Int /\ demand3 \in Int
    BY <1>1, <1>4, <1>6, Products
<1>8. given = demand1 + (IF quiet THEN 0 ELSE demand2 + demand3)
    OBVIOUS
<1> HIDE DEF given, quiet, demand1, demand2, demand3
<1>9. given \in Int
    BY <1>7, <1>8
<1>10. rate \in Int
    BY <1>9, CutTyped
<1> HIDE DEF rate
<1>11. mixed \in Int
    BY <1>1, <1>5, <1>10, Products
<1> HIDE DEF mixed
<1>12. ret \in Int
    BY <1>11, CutTyped
<1> HIDE DEF ret
<1>13. Yc \in Int
    BY <1>12 DEF Plat!Sign, Plat!SpeedMax
<1> HIDE DEF Yc
<1> QED  BY <1>2, <1>3, <1>6, <1>13, FiltersAre

\* Whatever a reset in the middle of pidAlg leaves is a filter.
LEMMA TornTyped ==
    ASSUME NEW f \in Plat!Filters, NEW g \in Plat!Filters, NEW added \in Int
    PROVE  Plat!Either(f, g, added) \subseteq Plat!Filters
<1> SUFFICES ASSUME NEW u \in {f.Uc, g.Uc, added}, NEW c \in {f.Xc, g.Xc},
                    NEW s \in {f.stable, g.stable}, NEW n \in {f.count, g.count}
             PROVE  [f EXCEPT !.Uc = u, !.Xc = c, !.stable = s, !.count = n]
                        \in Plat!Filters
    BY DEF Plat!Either
<1>1. u \in Int /\ c \in Triples /\ s \in BOOLEAN /\ n \in Nat
    BY FilterFields
<1> QED  BY <1>1, FiltersAre

\* The two axes.
LEMMA AxesAre == Plat!Axes = {"x", "y"}
BY DEF Plat!Axes

\* The speeds that a demand sets.
LEMMA SpeedFollows ==
    ASSUME NEW a \in Plat!Axes, NEW d \in Int, NEW n \in Plat!GetSpeed(a, Plat!Compensated(d))
    PROVE  /\ n \in Plat!UnitSpeeds
           /\ d = 0 => n = 0
           /\ Plat!Abs(d) < 8000 => n = 0 \/ Plat!Sign(n) = Plat!Sign(d)
<1> DEFINE c == Plat!Compensated(d)
<1>1. /\ c \in Int /\ Plat!Abs(c) <= 8000
      /\ Plat!Abs(d) < 8000 => c \in {0, d} /\ Plat!Abs(c) < 8000
      /\ d = 0 => c = 0
    BY CompensatedTyped
<1> HIDE DEF c
<1>2. /\ Plat!GetSpeed(a, c) \subseteq Plat!UnitSpeeds
      /\ c = 0 => Plat!GetSpeed(a, c) = {0}
      /\ Plat!Abs(c) < 8000 =>
             \A m \in Plat!GetSpeed(a, c) : m = 0 \/ Plat!Sign(m) = Plat!Sign(c)
    BY <1>1, SpeedTyped
<1>3. n \in Plat!GetSpeed(a, c)
    BY DEF c
<1> QED  BY <1>1, <1>2, <1>3

\* Both axes.
LEMMA SpeedsSet ==
    ASSUME NEW d \in [Plat!Axes -> Int], Plat!SetSpeeds(d)
    PROVE  /\ speed' \in [Plat!Axes -> Plat!UnitSpeeds]
           /\ \A a \in Plat!Axes :
                  /\ d[a] = 0 => speed'[a] = 0
                  /\ Plat!Abs(d[a]) < 8000 =>
                         speed'[a] = 0 \/ Plat!Sign(speed'[a]) = Plat!Sign(d[a])
<1>1. PICK n \in Plat!GetSpeed("x", Plat!Compensated(d.x)) :
          \E m \in Plat!GetSpeed("y", Plat!Compensated(d.y)) : speed' = [x |-> n, y |-> m]
    BY DEF Plat!SetSpeeds
<1>2. PICK m \in Plat!GetSpeed("y", Plat!Compensated(d.y)) : speed' = [x |-> n, y |-> m]
    BY <1>1
<1>3. "x" \in Plat!Axes /\ "y" \in Plat!Axes /\ d.x \in Int /\ d.y \in Int
    BY AxesAre
<1>4. /\ n \in Plat!UnitSpeeds
      /\ d.x = 0 => n = 0
      /\ Plat!Abs(d.x) < 8000 => n = 0 \/ Plat!Sign(n) = Plat!Sign(d.x)
    BY <1>3, SpeedFollows
<1>5. /\ m \in Plat!UnitSpeeds
      /\ d.y = 0 => m = 0
      /\ Plat!Abs(d.y) < 8000 => m = 0 \/ Plat!Sign(m) = Plat!Sign(d.y)
    BY <1>2, <1>3, SpeedFollows
<1>6. speed' \in [Plat!Axes -> Plat!UnitSpeeds]
    BY <1>2, <1>4, <1>5, AxesAre
<1>7. speed'["x"] = n /\ speed'["y"] = m /\ d["x"] = d.x /\ d["y"] = d.y
    BY <1>2
<1> QED  BY <1>4, <1>5, <1>6, <1>7, AxesAre

\* A stick in the middle, and what it demands.
LEMMA CentreIs ==
    /\ Plat!Centre \in [Plat!Axes -> Int]
    /\ \A a \in Plat!Axes : Plat!Centre[a] = 0
    /\ Plat!Centre \in [Plat!Axes -> Plat!UnitSpeeds]
    /\ \A f \in [Plat!Axes -> Int] : (\A a \in Plat!Axes : f[a] = 0) => f = Plat!Centre
    /\ \A f \in [Plat!Axes -> Plat!UnitSpeeds] :
           (\A a \in Plat!Axes : f[a] = 0) => f = Plat!Centre
BY DEF Plat!Centre, Plat!UnitSpeeds

LEMMA RestSet ==
    ASSUME Plat!SetSpeeds(Plat!Centre)
    PROVE  speed' = Plat!Centre
BY SpeedsSet, CentreIs

-----------------------------------------------------------------------------
StickTypes ==
    /\ jos \in [Plat!Axes -> Plat!Settings]
    /\ virtalInput \in [Plat!Axes -> Sticks] /\ stick \in [Plat!Axes -> Sticks]
    /\ demand \in [Plat!Axes -> Int] /\ speed \in [Plat!Axes -> Plat!UnitSpeeds]
    /\ bakState \in Plat!States
FilterTypes ==
    /\ pid \in PidParams
    /\ filter \in [Plat!Axes -> Plat!Filters]
    /\ busy = Plat!None \/ busy \in [Plat!Axes -> Plat!Filters]
FeedTypes ==
    /\ queue \in Seq({"jos", "speed", "trk", "start", "stop"})
    /\ trk \in Plat!Reports /\ pixelErr \in Plat!Reports
    /\ receiving \in {"no", "told", "copied"}
    /\ inputs \in 0 .. MaxInputs
    /\ ignored \in BOOLEAN /\ torn \in BOOLEAN

\* TypeOK, in three groups of variables that change together.
LEMMA PlatformTypes == Plat!TypeOK <=> StickTypes /\ FilterTypes /\ FeedTypes
BY DEF Plat!TypeOK, StickTypes, FilterTypes, FeedTypes

\* The stick the platform keeps is the one there is when no command is left.
NoStickLeft == \A i \in 1 .. Len(queue) : queue[i] \notin {"jos", "speed"}
StickKept   == NoStickLeft => ignored \/ virtalInput = stick
\* After a stick in the middle the unit stands.
RestsWithStick ==
    (bakState = Plat!Acquire /\ virtalInput = Plat!Centre) => speed = Plat!Centre

Steering == StickTypes /\ RestsWithStick
Filtering == FilterTypes /\ Plat!NoOldIntegral
Feeding == FeedTypes /\ StickKept
PlatformInv == Steering /\ Filtering /\ Feeding

\* The invariant is what the run checks of the platform.
LEMMA PlatformShows ==
    PlatformInv => Plat!TypeOK /\ Plat!StandsWhenCentred /\ Plat!NoOldIntegral
<1>1. queue = <<>> => NoStickLeft
    BY DEF NoStickLeft
<1> QED  BY <1>1, PlatformTypes DEF PlatformInv, Steering, Filtering, Feeding, StickKept,
               RestsWithStick, Plat!StandsWhenCentred

\* What the platform makes of a stick.
LEMMA SticksDemanded ==
    ASSUME MotionAssumption, NEW p \in Plat!Settings, NEW v \in Sticks
    PROVE  LET q == Plat!joyParamProcHandle(p)
               d == Plat!joyHandle(q, v)
           IN  /\ q \in Plat!Settings /\ d \in Int
               /\ v = 0 => d = 0
               /\ Plat!joyParamProcHandle(q) = q =>
                      (d = 0 \/ Plat!Sign(d) = Plat!Sign(v))
<1> DEFINE q == Plat!joyParamProcHandle(p)
           d == Plat!joyHandle(q, v)
<1>1. v \in Int /\ v \in -10 .. 10
    BY DEF MotionAssumption, Plat!PlatformAssumption
<1>2. q \in Plat!Settings /\ q.cut2 \in 0 .. 10 /\ (v = 0 => d = 0)
    BY SettingsHandled, RestDemanded
<1>3. Plat!joyParamProcHandle(q) = q => InOrder(q)
    BY <1>2, SettingsHandled
<1> HIDE DEF q
<1>4. d \in Int /\ (InOrder(q) => d = 0 \/ Plat!Sign(d) = Plat!Sign(v))
    BY <1>1, <1>2, DemandTyped
<1> HIDE DEF d
<1> QED  BY <1>2, <1>3, <1>4 DEF q, d

\* With nothing to track the filters have forgotten.
LEMMA OldIntegral ==
    Plat!NoOldIntegral <=>
        (bakState \in {Plat!Acquire, Plat!Break_Lock_2} =>
             \A a \in Plat!Axes : Forgotten(filter[a]))
BY DEF Plat!NoOldIntegral, Forgotten

\* PlatformCtrl_OutPlatformDemand in Acquire.
LEMMA StickAcquired ==
    ASSUME MotionAssumption, Steering, Filtering,
           NEW in \in [Plat!Axes -> Sticks], Plat!OutAcquire(in)
    PROVE  /\ jos' \in [Plat!Axes -> Plat!Settings] /\ virtalInput' = in
           /\ demand' \in [Plat!Axes -> Int] /\ speed' \in [Plat!Axes -> Plat!UnitSpeeds]
           /\ bakState' = Plat!Acquire
           /\ RestsWithStick'
           /\ FilterTypes' /\ Plat!NoOldIntegral'
           /\ \A a \in Plat!Axes :
                  Plat!joyParamProcHandle(jos'[a]) = jos'[a] /\ Plat!Abs(demand'[a]) < 8000
                      => (speed'[a] = 0 \/ Plat!Sign(speed'[a]) = Plat!Sign(in[a]))
<1> DEFINE p == [a \in Plat!Axes |-> Plat!joyParamProcHandle(jos[a])]
           d == [a \in Plat!Axes |->
                     Plat!joyHandle(p[a], Plat!DeviceUser_Get(Plat!StickUser, 0, in[a]))]
<1>1. /\ jos' = p /\ virtalInput' = in
      /\ IF bakState # Plat!Acquire
         THEN /\ filter' = [a \in Plat!Axes |-> Plat!PlatformFilter_Reset(filter[a])]
              /\ demand' = Plat!Centre
         ELSE /\ filter' = [a \in Plat!Axes |-> Plat!calcCurPlatAvrRate(filter[a], d[a])]
              /\ demand' = d
      /\ bakState' = Plat!Acquire
      /\ Plat!SetSpeeds(demand')
      /\ UNCHANGED <<pid, busy>>
    BY DEF Plat!OutAcquire
<1>2. \A a \in Plat!Axes :
          /\ p[a] = Plat!joyParamProcHandle(jos[a])
          /\ d[a] = Plat!joyHandle(p[a], in[a])
          /\ jos[a] \in Plat!Settings /\ in[a] \in Sticks
    BY StickTaken DEF Steering, StickTypes
<1>3. p \in [Plat!Axes -> Plat!Settings] /\ d = [a \in Plat!Axes |-> d[a]]
  <2>1. \A a \in Plat!Axes : Plat!joyParamProcHandle(jos[a]) \in Plat!Settings
      BY <1>2, SettingsHandled
  <2> QED  BY <2>1
<1> HIDE DEF p, d
<1>4. \A a \in Plat!Axes :
          /\ d[a] \in Int
          /\ in[a] = 0 => d[a] = 0
          /\ Plat!joyParamProcHandle(p[a]) = p[a] =>
                 (d[a] = 0 \/ Plat!Sign(d[a]) = Plat!Sign(in[a]))
  <2> TAKE a \in Plat!Axes
  <2>1. /\ p[a] = Plat!joyParamProcHandle(jos[a]) /\ d[a] = Plat!joyHandle(p[a], in[a])
        /\ jos[a] \in Plat!Settings /\ in[a] \in Sticks
      BY <1>2
  <2> QED  BY <2>1, SticksDemanded
<1>5. d \in [Plat!Axes -> Int]
    BY <1>3, <1>4
<1>6. demand' \in [Plat!Axes -> Int] /\ (demand' = d \/ demand' = Plat!Centre)
    BY <1>1, <1>5, CentreIs
<1>7. Plat!SetSpeeds(demand')
    BY <1>1
<1>8. /\ speed' \in [Plat!Axes -> Plat!UnitSpeeds]
      /\ \A a \in Plat!Axes :
             /\ demand'[a] = 0 => speed'[a] = 0
             /\ Plat!Abs(demand'[a]) < 8000 =>
                    speed'[a] = 0 \/ Plat!Sign(speed'[a]) = Plat!Sign(demand'[a])
    BY <1>6, <1>7, SpeedsSet
<1>9. \A a \in Plat!Axes :
          /\ in[a] = 0 => demand'[a] = 0
          /\ Plat!joyParamProcHandle(p[a]) = p[a] =>
                 (demand'[a] = 0 \/ Plat!Sign(demand'[a]) = Plat!Sign(in[a]))
    BY <1>4, <1>6, CentreIs
<1>10. RestsWithStick'
  <2> SUFFICES ASSUME in = Plat!Centre
               PROVE  speed' = Plat!Centre
      BY <1>1 DEF RestsWithStick
  <2>1. \A a \in Plat!Axes : speed'[a] = 0
      BY <1>8, <1>9, CentreIs
  <2> QED  BY <1>8, <2>1, CentreIs
<1>11. \A a \in Plat!Axes :
           /\ filter[a] \in Plat!Filters
           /\ bakState = Plat!Acquire => Forgotten(filter[a])
    BY OldIntegral DEF Filtering, FilterTypes
<1>12. \A a \in Plat!Axes : filter'[a] \in Plat!Filters /\ Forgotten(filter'[a])
  <2> TAKE a \in Plat!Axes
  <2>1. CASE bakState # Plat!Acquire
    <3>1. filter'[a] = Plat!PlatformFilter_Reset(filter[a])
        BY <1>1, <2>1
    <3> QED  BY <1>11, <3>1, FilterReset
  <2>2. CASE bakState = Plat!Acquire
    <3>1. filter'[a] = Plat!calcCurPlatAvrRate(filter[a], d[a])
        BY <1>1, <2>2
    <3>2. filter[a] \in Plat!Filters /\ Forgotten(filter[a]) /\ d[a] \in Int
        BY <1>4, <1>11, <2>2
    <3> QED  BY <3>1, <3>2, AverageTyped
  <2> QED  BY <2>1, <2>2
<1>13. filter' \in [Plat!Axes -> Plat!Filters]
  <2>1. filter' = [a \in Plat!Axes |-> filter'[a]]
      BY <1>1
  <2> QED  BY <1>12, <2>1
<1>14. FilterTypes' /\ Plat!NoOldIntegral'
  <2>1. FilterTypes'
      BY <1>1, <1>13 DEF Filtering, FilterTypes
  <2>2. Plat!NoOldIntegral'
      BY <1>12 DEF Plat!NoOldIntegral, Forgotten
  <2> QED  BY <2>1, <2>2
<1> QED  BY <1>1, <1>3, <1>6, <1>8, <1>9, <1>10, <1>14

CommandNames == {"jos", "speed", "trk", "start", "stop"}

\* A command is taken from the queue, or added to it.
LEMMA CommandTaken ==
    ASSUME queue \in Seq(CommandNames), NEW cmd, Plat!Next1(cmd)
    PROVE  /\ queue' \in Seq(CommandNames) /\ busy = Plat!None
           /\ NoStickLeft' /\ cmd \notin {"jos", "speed"} => NoStickLeft
<1>1. /\ busy = Plat!None /\ queue # <<>> /\ Head(queue) = cmd /\ queue' = Tail(queue)
    BY DEF Plat!Next1
<1>2. /\ queue' \in Seq(CommandNames) /\ Len(queue) \in Nat /\ Len(queue) > 0
      /\ Len(queue') = Len(queue) - 1 /\ queue[1] = cmd
      /\ \A i \in 1 .. Len(queue') : queue'[i] = queue[i + 1]
    BY <1>1
<1>3. ASSUME NoStickLeft', cmd \notin {"jos", "speed"}
      PROVE  NoStickLeft
  <2> SUFFICES ASSUME NEW i \in 1 .. Len(queue)
               PROVE  queue[i] \notin {"jos", "speed"}
      BY DEF NoStickLeft
  <2>1. CASE i = 1
      BY <1>2, <1>3, <2>1
  <2>2. CASE i # 1
    <3> DEFINE j == i - 1
    <3>1. j \in 1 .. Len(queue') /\ j + 1 = i
        BY <1>2, <2>2
    <3> HIDE DEF j
    <3>2. queue'[j] \notin {"jos", "speed"} /\ queue'[j] = queue[i]
        BY <1>2, <1>3, <3>1 DEF NoStickLeft
    <3> QED  BY <3>2
  <2> QED  BY <2>1, <2>2
<1> QED  BY <1>1, <1>2, <1>3

LEMMA CommandSent ==
    ASSUME queue \in Seq(CommandNames), NEW cmd \in CommandNames, queue' = Append(queue, cmd)
    PROVE  /\ queue' \in Seq(CommandNames)
           /\ NoStickLeft' => NoStickLeft /\ cmd \notin {"jos", "speed"}
<1>1. /\ queue' \in Seq(CommandNames) /\ Len(queue) \in Nat /\ Len(queue') = Len(queue) + 1
      /\ queue'[Len(queue) + 1] = cmd
      /\ \A i \in 1 .. Len(queue) : queue'[i] = queue[i]
    <2>1. Len(queue) \in Nat
        OBVIOUS
    <2> QED  BY <2>1
<1>2. ASSUME NoStickLeft'
      PROVE  NoStickLeft /\ cmd \notin {"jos", "speed"}
  <2>1. \A i \in 1 .. Len(queue') : queue'[i] \notin {"jos", "speed"}
      BY <1>2 DEF NoStickLeft
  <2>2. Len(queue) + 1 \in 1 .. Len(queue') /\ \A i \in 1 .. Len(queue) : i \in 1 .. Len(queue')
      BY <1>1
  <2> QED  BY <1>1, <2>1, <2>2 DEF NoStickLeft
<1> QED  BY <1>1, <1>2

\* The inputs are counted.
LEMMA OneMoreInput ==
    ASSUME MotionAssumption, inputs \in 0 .. MaxInputs, Plat!Counted
    PROVE  inputs' \in 0 .. MaxInputs
BY DEF Plat!Counted, MotionAssumption, Plat!PlatformAssumption

\* Nothing else turns the unit.
LEMMA Turning ==
    /\ UNCHANGED <<speed, virtalInput>> => Plat!TurnsWithStick
    /\ bakState' # Plat!Acquire => Plat!TurnsWithStick
    /\ speed' = Plat!Centre => Plat!TurnsWithStick
BY CentreIs DEF Plat!TurnsWithStick

\* A step that does not turn the unit.
LEMMA PlantKept ==
    ASSUME Filtering, RestsWithStick, UNCHANGED <<Plat!plant, speed>>
    PROVE  Filtering' /\ RestsWithStick' /\ Plat!TurnsWithStick
<1>1. Plat!TurnsWithStick
    BY Turning DEF Plat!plant
<1>2. FilterTypes' /\ Plat!NoOldIntegral'
    BY DEF Filtering, FilterTypes, Plat!NoOldIntegral, Plat!plant
<1>3. RestsWithStick'
    BY DEF RestsWithStick, Plat!plant
<1> QED  BY <1>1, <1>2, <1>3 DEF Filtering

PlatformStep == PlatformInv' /\ Plat!TurnsWithStick

\* The stick moves, and a track begins or ends.
LEMMA StickMoves ==
    ASSUME MotionAssumption, PlatformInv, NEW v \in Sticks, NEW cmd \in {"jos", "speed"},
           Plat!MoveStick(v, cmd)
    PROVE  PlatformStep
<1>1. /\ stick' = [stick EXCEPT !.x = v] /\ queue' = Append(queue, cmd) /\ Plat!Counted
      /\ UNCHANGED <<Plat!plant, speed, trk, pixelErr, receiving, ignored, torn>>
    BY DEF Plat!MoveStick
<1>2. Filtering' /\ RestsWithStick' /\ Plat!TurnsWithStick
    BY <1>1, PlantKept DEF PlatformInv, Steering
<1>3. StickTypes'
    BY <1>1, AxesAre DEF PlatformInv, Steering, StickTypes, Plat!plant
<1>4. cmd \in CommandNames /\ queue \in Seq(CommandNames) /\ inputs \in 0 .. MaxInputs
    BY DEF PlatformInv, Feeding, FeedTypes, CommandNames
<1>5. queue' \in Seq(CommandNames) /\ ~NoStickLeft'
    BY <1>1, <1>4, CommandSent
<1>6. inputs' \in 0 .. MaxInputs
    BY <1>1, <1>4, OneMoreInput
<1>7. Feeding'
    BY <1>1, <1>5, <1>6 DEF PlatformInv, Feeding, FeedTypes, StickKept, CommandNames
<1> QED  BY <1>2, <1>3, <1>7 DEF PlatformStep, PlatformInv, Steering

\* What leaves the plant and the stick alone, and sends no command of the stick.
LEMMA WorldMoves ==
    ASSUME PlatformInv, UNCHANGED <<Plat!plant, speed, stick, ignored, torn>>,
           FeedTypes', NoStickLeft' => NoStickLeft
    PROVE  PlatformStep
<1>1. Filtering' /\ RestsWithStick' /\ Plat!TurnsWithStick
    BY PlantKept DEF PlatformInv, Steering
<1>2. StickTypes'
    BY DEF PlatformInv, Steering, StickTypes, Plat!plant
<1>3. StickKept'
    BY DEF PlatformInv, Feeding, StickKept, Plat!plant
<1> QED  BY <1>1, <1>2, <1>3 DEF PlatformStep, PlatformInv, Steering, Feeding

LEMMA TrackCommands ==
    ASSUME MotionAssumption, PlatformInv, NEW cmd \in {"start", "stop"},
           Plat!TrackCommand(cmd)
    PROVE  PlatformStep
<1>1. /\ queue' = Append(queue, cmd) /\ Plat!Counted
      /\ UNCHANGED <<Plat!plant, speed, stick, trk, pixelErr, receiving, ignored, torn>>
    BY DEF Plat!TrackCommand
<1>2. cmd \in CommandNames /\ queue \in Seq(CommandNames) /\ inputs \in 0 .. MaxInputs
    BY DEF PlatformInv, Feeding, FeedTypes, CommandNames
<1>3. queue' \in Seq(CommandNames) /\ (NoStickLeft' => NoStickLeft)
    BY <1>1, <1>2, CommandSent
<1>4. inputs' \in 0 .. MaxInputs
    BY <1>1, <1>2, OneMoreInput
<1>5. FeedTypes'
    BY <1>1, <1>3, <1>4 DEF PlatformInv, Feeding, FeedTypes, CommandNames
<1> QED  BY <1>1, <1>3, <1>5, WorldMoves

\* The tracker reports, while a track is on.
LEMMA ReportMade ==
    ASSUME MotionAssumption, NEW s \in Plat!States, NEW e \in Errors
    PROVE  [status |-> s, err |-> e] \in Plat!Reports
BY DEF MotionAssumption, Plat!PlatformAssumption, Plat!Reports

\* The types of the queue and of the reports.
LEMMA SameQueue ==
    ASSUME UNCHANGED queue
    PROVE  NoStickLeft' <=> NoStickLeft
BY DEF NoStickLeft

\* Reports of both kinds of tracker, and their copies.
LEMMA Reported ==
    ASSUME MotionAssumption, PlatformInv, NEW s \in Plat!States, NEW e \in Errors,
           Plat!Report(s, e)
    PROVE  PlatformStep
<1>1. /\ trk' = [status |-> s, err |-> e] /\ Plat!Counted
      /\ receiving' = IF receiving = "no" THEN "told" ELSE receiving
      /\ UNCHANGED <<Plat!plant, speed, stick, queue, pixelErr, ignored, torn>>
    BY DEF Plat!Report
<1>2. trk' \in Plat!Reports
    BY <1>1, ReportMade
<1>3. inputs' \in 0 .. MaxInputs
    BY <1>1, OneMoreInput DEF PlatformInv, Feeding, FeedTypes
<1>4. FeedTypes'
    BY <1>1, <1>2, <1>3 DEF PlatformInv, Feeding, FeedTypes
<1> QED  BY <1>1, <1>4, SameQueue, WorldMoves

LEMMA GstReported ==
    ASSUME MotionAssumption, PlatformInv, NEW s \in Plat!States, NEW e \in Errors,
           Plat!GstReport(s, e)
    PROVE  PlatformStep
<1>1. /\ pixelErr' = [status |-> s, err |-> e] /\ Plat!Counted
      /\ queue' = Append(queue, "trk")
      /\ UNCHANGED <<Plat!plant, speed, stick, trk, receiving, ignored, torn>>
    BY DEF Plat!GstReport
<1>2. "trk" \in CommandNames /\ queue \in Seq(CommandNames) /\ inputs \in 0 .. MaxInputs
    BY DEF PlatformInv, Feeding, FeedTypes, CommandNames
<1>3. queue' \in Seq(CommandNames) /\ (NoStickLeft' => NoStickLeft)
    BY <1>1, <1>2, CommandSent
<1>4. inputs' \in 0 .. MaxInputs
    BY <1>1, <1>2, OneMoreInput
<1>5. pixelErr' \in Plat!Reports
    BY <1>1, ReportMade
<1>6. FeedTypes'
    BY <1>1, <1>3, <1>4, <1>5 DEF PlatformInv, Feeding, FeedTypes, CommandNames
<1> QED  BY <1>1, <1>3, <1>6, WorldMoves

LEMMA ReportsCopied ==
    ASSUME PlatformInv, Plat!CopyStatus \/ Plat!CopyError
    PROVE  PlatformStep
<1>1. trk \in Plat!Reports /\ pixelErr \in Plat!Reports
    BY DEF PlatformInv, Feeding, FeedTypes
<1>2. "trk" \in CommandNames /\ queue \in Seq(CommandNames)
    BY DEF PlatformInv, Feeding, FeedTypes, CommandNames
<1>3. CASE Plat!CopyStatus
  <2>1. /\ pixelErr' = [pixelErr EXCEPT !.status = trk.status] /\ receiving' = "copied"
        /\ UNCHANGED <<Plat!plant, speed, stick, queue, trk, Plat!hist>>
      BY <1>3 DEF Plat!CopyStatus
  <2>2. pixelErr' \in Plat!Reports
      BY <1>1, <2>1 DEF Plat!Reports
  <2>3. FeedTypes'
      BY <2>1, <2>2 DEF PlatformInv, Feeding, FeedTypes, Plat!hist
  <2>4. UNCHANGED <<Plat!plant, speed, stick, ignored, torn>>
      BY <2>1 DEF Plat!hist
  <2> QED  BY <2>1, <2>3, <2>4, SameQueue, WorldMoves
<1>4. CASE Plat!CopyError
  <2>1. /\ pixelErr' = [pixelErr EXCEPT !.err = trk.err] /\ receiving' = "no"
        /\ queue' = Append(queue, "trk")
        /\ UNCHANGED <<Plat!plant, speed, stick, trk, Plat!hist>>
      BY <1>4 DEF Plat!CopyError
  <2>2. pixelErr' \in Plat!Reports
      BY <1>1, <2>1 DEF Plat!Reports
  <2>3. queue' \in Seq(CommandNames) /\ (NoStickLeft' => NoStickLeft)
      BY <1>2, <2>1, CommandSent
  <2>4. FeedTypes'
      BY <2>1, <2>2, <2>3 DEF PlatformInv, Feeding, FeedTypes, Plat!hist, CommandNames
  <2>5. UNCHANGED <<Plat!plant, speed, stick, ignored, torn>>
      BY <2>1 DEF Plat!hist
  <2> QED  BY <2>3, <2>4, <2>5, WorldMoves
<1> QED  BY <1>3, <1>4

\* Both filters are reset.
LEMMA FiltersReset ==
    ASSUME Filtering, filter' = [a \in Plat!Axes |-> Plat!PlatformFilter_reset4trk(filter[a])],
           UNCHANGED <<pid, busy>>
    PROVE  Filtering'
<1>1. \A a \in Plat!Axes : filter[a] \in Plat!Filters
    BY DEF Filtering, FilterTypes
<1>2. \A a \in Plat!Axes : filter'[a] \in Plat!Filters /\ Forgotten(filter'[a])
    BY <1>1, FilterReset4trk
<1>3. filter' \in [Plat!Axes -> Plat!Filters]
  <2>1. filter' = [a \in Plat!Axes |-> filter'[a]]
      OBVIOUS
  <2> QED  BY <1>2, <2>1
<1> QED  BY <1>2, <1>3 DEF Filtering, FilterTypes, Plat!NoOldIntegral, Forgotten

\* A step that leaves the stick and the speeds alone.
LEMMA SteeringKept ==
    ASSUME Steering, UNCHANGED <<jos, virtalInput, stick, demand, bakState>>,
           speed' = speed \/ speed' = Plat!Centre
    PROVE  Steering' /\ Plat!TurnsWithStick
<1>1. StickTypes' /\ RestsWithStick'
    BY CentreIs DEF Steering, StickTypes, RestsWithStick
<1>2. Plat!TurnsWithStick
    BY Turning
<1> QED  BY <1>1, <1>2 DEF Steering

\* The resets that a start or a stop of a track makes.
LEMMA GstResets ==
    ASSUME MotionAssumption, PlatformInv, Plat!GstReset
    PROVE  PlatformStep
<1>1. /\ Plat!Counted /\ torn' = (torn \/ busy # Plat!None)
      /\ filter' = [a \in Plat!Axes |-> Plat!PlatformFilter_reset4trk(filter[a])]
      /\ UNCHANGED <<jos, pid, virtalInput, demand, bakState, busy, speed, ignored>>
      /\ UNCHANGED <<stick, queue, trk, pixelErr, receiving>>
    BY DEF Plat!GstReset, Plat!world
<1>2. Filtering'
    BY <1>1, FiltersReset DEF PlatformInv
<1>3. Steering' /\ Plat!TurnsWithStick
    BY <1>1, SteeringKept DEF PlatformInv
<1>4. inputs' \in 0 .. MaxInputs
    BY <1>1, OneMoreInput DEF PlatformInv, Feeding, FeedTypes
<1>5. torn' \in BOOLEAN
    BY <1>1
<1>6. Feeding'
    BY <1>1, <1>4, <1>5, SameQueue DEF PlatformInv, Feeding, FeedTypes, StickKept
<1> QED  BY <1>2, <1>3, <1>6 DEF PlatformStep, PlatformInv

LEMMA TracksStart ==
    ASSUME PlatformInv, Plat!HandleStart
    PROVE  PlatformStep
<1>1. /\ Plat!Next1("start")
      /\ filter' = [a \in Plat!Axes |-> Plat!PlatformFilter_reset4trk(filter[a])]
      /\ UNCHANGED <<jos, pid, virtalInput, demand, bakState, busy, speed, stick, trk,
                     pixelErr, receiving, inputs, ignored, torn>>
    BY DEF Plat!HandleStart
<1>2. Filtering'
    BY <1>1, FiltersReset DEF PlatformInv
<1>3. Steering' /\ Plat!TurnsWithStick
    BY <1>1, SteeringKept DEF PlatformInv
<1>4. queue' \in Seq(CommandNames) /\ (NoStickLeft' => NoStickLeft)
    BY <1>1, CommandTaken DEF PlatformInv, Feeding, FeedTypes, CommandNames
<1>5. Feeding'
    BY <1>1, <1>4 DEF PlatformInv, Feeding, FeedTypes, StickKept, CommandNames
<1> QED  BY <1>2, <1>3, <1>5 DEF PlatformStep, PlatformInv

LEMMA TracksStop ==
    ASSUME MotionAssumption, PlatformInv, Plat!GstStop \/ Plat!HandleStop
    PROVE  PlatformStep
<1>1. speed' = Plat!Centre /\ UNCHANGED <<Plat!plant, stick, trk, pixelErr, receiving, ignored, torn>>
    BY DEF Plat!GstStop, Plat!HandleStop, Plat!world, Plat!hist
<1>2. Steering' /\ Plat!TurnsWithStick
    BY <1>1, SteeringKept DEF PlatformInv, Plat!plant
<1>3. Filtering'
    BY <1>1 DEF PlatformInv, Filtering, FilterTypes, Plat!NoOldIntegral, Plat!plant
<1>4. inputs' \in 0 .. MaxInputs
  <2>1. CASE Plat!GstStop
      BY <2>1, OneMoreInput DEF PlatformInv, Feeding, FeedTypes, Plat!GstStop
  <2>2. CASE Plat!HandleStop
      BY <2>2 DEF PlatformInv, Feeding, FeedTypes, Plat!HandleStop, Plat!hist
  <2> QED  BY <2>1, <2>2
<1>5. queue' \in Seq(CommandNames) /\ (NoStickLeft' => NoStickLeft)
  <2>1. queue \in Seq(CommandNames)
      BY DEF PlatformInv, Feeding, FeedTypes, CommandNames
  <2>2. CASE Plat!GstStop
    <3>1. UNCHANGED queue
        BY <2>2 DEF Plat!GstStop, Plat!world
    <3> QED  BY <2>1, <3>1, SameQueue
  <2>3. CASE Plat!HandleStop
      BY <2>1, <2>3, CommandTaken DEF Plat!HandleStop
  <2> QED  BY <2>2, <2>3
<1>6. Feeding'
    BY <1>1, <1>4, <1>5 DEF PlatformInv, Feeding, FeedTypes, StickKept, Plat!plant, CommandNames
<1> QED  BY <1>2, <1>3, <1>6 DEF PlatformStep, PlatformInv

\* What the platform makes of a stick, by whichever way it came.
LEMMA StickTurns ==
    ASSUME MotionAssumption, PlatformInv, NEW in \in [Plat!Axes -> Sticks],
           Plat!OutAcquire(in), UNCHANGED stick
    PROVE  Steering' /\ Filtering' /\ Plat!TurnsWithStick
<1>1. /\ jos' \in [Plat!Axes -> Plat!Settings] /\ virtalInput' = in
      /\ demand' \in [Plat!Axes -> Int] /\ speed' \in [Plat!Axes -> Plat!UnitSpeeds]
      /\ bakState' = Plat!Acquire
      /\ RestsWithStick'
      /\ FilterTypes' /\ Plat!NoOldIntegral'
      /\ \A a \in Plat!Axes :
             Plat!joyParamProcHandle(jos'[a]) = jos'[a] /\ Plat!Abs(demand'[a]) < 8000
                 => (speed'[a] = 0 \/ Plat!Sign(speed'[a]) = Plat!Sign(in[a]))
    BY StickAcquired DEF PlatformInv
<1>2. StickTypes'
    BY <1>1 DEF PlatformInv, Steering, StickTypes, Plat!States, Plat!Acquire, Plat!Break_Lock_2
<1>3. Plat!TurnsWithStick
    BY <1>1 DEF Plat!TurnsWithStick, Plat!DemandMax
<1> QED  BY <1>1, <1>2, <1>3 DEF Steering, Filtering

\* The stick is handled.
LEMMA SticksHandled ==
    ASSUME MotionAssumption, PlatformInv, Plat!HandleJos \/ Plat!HandleSpeed
    PROVE  PlatformStep
<1>1. PICK cmd \in {"jos", "speed"} : Plat!Next1(cmd)
    BY DEF Plat!HandleJos, Plat!HandleSpeed
<1>2. queue' \in Seq(CommandNames)
    BY <1>1, CommandTaken DEF PlatformInv, Feeding, FeedTypes, CommandNames
<1>3. CASE Plat!AxisMove
  <2>1. /\ Plat!OutAcquire(stick)
        /\ UNCHANGED <<stick, trk, pixelErr, receiving, inputs, ignored, torn>>
      BY <1>3 DEF Plat!AxisMove
  <2>2. stick \in [Plat!Axes -> Sticks]
      BY DEF PlatformInv, Steering, StickTypes
  <2>3. Steering' /\ Filtering' /\ Plat!TurnsWithStick
      BY <2>1, <2>2, StickTurns
  <2>4. virtalInput' = stick
      BY <2>1 DEF Plat!OutAcquire
  <2>5. Feeding'
      BY <1>2, <2>1, <2>4 DEF PlatformInv, Feeding, FeedTypes, StickKept, CommandNames
  <2> QED  BY <2>3, <2>5 DEF PlatformStep, PlatformInv
<1>4. CASE /\ ignored' = TRUE
           /\ UNCHANGED <<Plat!plant, speed, stick, trk, pixelErr, receiving, inputs, torn>>
  <2>1. Filtering' /\ RestsWithStick' /\ Plat!TurnsWithStick
      BY <1>4, PlantKept DEF PlatformInv, Steering
  <2>2. StickTypes'
      BY <1>4 DEF PlatformInv, Steering, StickTypes, Plat!plant
  <2>3. Feeding'
      BY <1>2, <1>4 DEF PlatformInv, Feeding, FeedTypes, StickKept, CommandNames
  <2> QED  BY <2>1, <2>2, <2>3 DEF PlatformStep, PlatformInv, Steering
<1>5. Plat!AxisMove \/ /\ ignored' = TRUE
                       /\ UNCHANGED <<Plat!plant, speed, stick, trk, pixelErr, receiving,
                                      inputs, torn>>
    BY DEF Plat!HandleJos, Plat!HandleSpeed
<1> QED  BY <1>3, <1>4, <1>5

\* A report is taken from the queue.
LEMMA ReportTaken ==
    ASSUME PlatformInv, Plat!Next1("trk"),
           UNCHANGED <<virtalInput, stick, trk, pixelErr, receiving, inputs, ignored>>,
           torn' \in BOOLEAN
    PROVE  Feeding'
<1>1. queue' \in Seq(CommandNames) /\ (NoStickLeft' => NoStickLeft)
    BY CommandTaken DEF PlatformInv, Feeding, FeedTypes, CommandNames
<1> QED  BY <1>1 DEF PlatformInv, Feeding, FeedTypes, StickKept, CommandNames

\* A report is handled, in each of the states of the track.
LEMMA AcquireHandled ==
    ASSUME MotionAssumption, PlatformInv, Plat!HandleAcquire
    PROVE  PlatformStep
<1>1. /\ Plat!Next1("trk") /\ Plat!OutAcquire(virtalInput)
      /\ UNCHANGED <<stick, trk, pixelErr, receiving, inputs, ignored, torn>>
    BY DEF Plat!HandleAcquire
<1>2. virtalInput \in [Plat!Axes -> Sticks]
    BY DEF PlatformInv, Steering, StickTypes
<1>3. Steering' /\ Filtering' /\ Plat!TurnsWithStick
    BY <1>1, <1>2, StickTurns
<1>4. UNCHANGED virtalInput
    BY <1>1 DEF Plat!OutAcquire
<1>5. Feeding'
    BY <1>1, <1>4, ReportTaken DEF PlatformInv, Feeding, FeedTypes
<1> QED  BY <1>3, <1>5 DEF PlatformStep, PlatformInv

\* The states of a track turn the unit as the demand says.
LEMMA DemandTurns ==
    ASSUME Steering, NEW d \in [Plat!Axes -> Int], Plat!SetSpeeds(d), demand' = d,
           UNCHANGED <<jos, virtalInput, stick>>,
           bakState' \in Plat!States \ {Plat!Acquire}
    PROVE  Steering' /\ Plat!TurnsWithStick
<1>1. speed' \in [Plat!Axes -> Plat!UnitSpeeds]
    BY SpeedsSet
<1>2. Plat!TurnsWithStick
    BY Turning
<1> QED  BY <1>1, <1>2 DEF Steering, StickTypes, RestsWithStick

\* The states of a track.
LEMMA StatesAre ==
    /\ Plat!Acquire = 0 /\ Plat!Trk_Lock = 1 /\ Plat!Break_Lock_1 = 2
    /\ Plat!Break_Lock_2 = 3 /\ Plat!States = 0 .. 3
BY DEF Plat!Acquire, Plat!Trk_Lock, Plat!Break_Lock_1, Plat!Break_Lock_2, Plat!States

\* A lost track, and a locked one.
LEMMA BreaksHandled ==
    ASSUME PlatformInv, Plat!HandleBreak1 \/ Plat!HandleBreak2
    PROVE  PlatformStep
<1>1. CASE Plat!HandleBreak1
  <2>1. /\ Plat!Next1("trk") /\ bakState' = Plat!Break_Lock_1 /\ Plat!SetSpeeds(demand)
        /\ UNCHANGED <<jos, pid, filter, virtalInput, demand, busy, stick, trk, pixelErr,
                       receiving>>
        /\ UNCHANGED <<inputs, ignored, torn>>
      BY <1>1 DEF Plat!HandleBreak1, Plat!hist
  <2>2. demand \in [Plat!Axes -> Int]
      BY DEF PlatformInv, Steering, StickTypes
  <2>3. Steering' /\ Plat!TurnsWithStick
      BY <2>1, <2>2, StatesAre, DemandTurns DEF PlatformInv
  <2>4. Filtering'
      BY <2>1, StatesAre DEF PlatformInv, Filtering, FilterTypes, Plat!NoOldIntegral
  <2>5. Feeding'
      BY <2>1, ReportTaken DEF PlatformInv, Feeding, FeedTypes
  <2> QED  BY <2>3, <2>4, <2>5 DEF PlatformStep, PlatformInv
<1>2. CASE Plat!HandleBreak2
  <2>1. /\ Plat!Next1("trk") /\ bakState' = Plat!Break_Lock_2
        /\ filter' = [a \in Plat!Axes |-> Plat!PlatformFilter_Reset(filter[a])]
        /\ demand' = Plat!Centre /\ Plat!SetSpeeds(demand')
        /\ UNCHANGED <<jos, pid, virtalInput, busy, stick, trk, pixelErr, receiving, inputs,
                       ignored, torn>>
      BY <1>2 DEF Plat!HandleBreak2
  <2>2. Steering' /\ Plat!TurnsWithStick
      BY <2>1, StatesAre, CentreIs, DemandTurns DEF PlatformInv
  <2>3. \A a \in Plat!Axes : filter'[a] \in Plat!Filters /\ Forgotten(filter'[a])
      BY <2>1, FilterReset DEF PlatformInv, Filtering, FilterTypes
  <2>4. filter' \in [Plat!Axes -> Plat!Filters]
    <3>1. filter' = [a \in Plat!Axes |-> filter'[a]]
        BY <2>1
    <3> QED  BY <2>3, <3>1
  <2>5. Filtering'
      BY <2>1, <2>3, <2>4 DEF PlatformInv, Filtering, FilterTypes, Plat!NoOldIntegral,
         Forgotten
  <2>6. Feeding'
      BY <2>1, ReportTaken DEF PlatformInv, Feeding, FeedTypes
  <2> QED  BY <2>2, <2>5, <2>6 DEF PlatformStep, PlatformInv
<1> QED  BY <1>1, <1>2

\* Into pidAlg.
LEMMA LockHandled ==
    ASSUME PlatformInv, Plat!HandleLock
    PROVE  PlatformStep
<1>1. /\ Plat!Next1("trk") /\ busy' = filter /\ torn' = FALSE
      /\ UNCHANGED <<jos, pid, filter, virtalInput, demand, bakState, speed, stick, trk,
                     pixelErr, receiving, inputs, ignored>>
    BY DEF Plat!HandleLock
<1>2. Steering' /\ Plat!TurnsWithStick
    BY <1>1, SteeringKept DEF PlatformInv
<1>3. Filtering'
    BY <1>1 DEF PlatformInv, Filtering, FilterTypes, Plat!NoOldIntegral
<1>4. torn' \in BOOLEAN
    BY <1>1
<1>5. Feeding'
    BY <1>1, <1>4, ReportTaken
<1> QED  BY <1>2, <1>3, <1>5 DEF PlatformStep, PlatformInv

\* The input of the filter, and what it gives.
LEMMA InputTyped ==
    ASSUME PlatformInv, NEW a \in Plat!Axes
    PROVE  Plat!Input(a) \in Int
BY DEF PlatformInv, Feeding, FeedTypes, Plat!Reports, Plat!Input, Plat!ErrorX

\* And out of it, whatever came in between.
LEMMA LockFinished ==
    ASSUME MotionAssumption, PlatformInv, Plat!FinishLock
    PROVE  PlatformStep
<1> DEFINE done == [a \in Plat!Axes |-> Plat!pidAlg(busy[a], pid, Plat!Input(a))]
<1>1. /\ busy # Plat!None
      /\ IF torn
         THEN \E f \in Plat!Either(done.x, filter.x, done.x.Uc - busy.x.Uc) :
                 filter' = [done EXCEPT !.x = f]
         ELSE filter' = done
      /\ demand' = [a \in Plat!Axes |-> done[a].Yc]
      /\ Plat!SetSpeeds(demand')
      /\ bakState' = Plat!Trk_Lock /\ busy' = Plat!None
      /\ UNCHANGED <<jos, pid, virtalInput, inputs, ignored, torn>>
      /\ UNCHANGED <<stick, queue, trk, pixelErr, receiving>>
    BY DEF Plat!FinishLock, Plat!world
<1>2. /\ busy \in [Plat!Axes -> Plat!Filters] /\ filter \in [Plat!Axes -> Plat!Filters]
      /\ pid \in PidParams
    BY <1>1 DEF PlatformInv, Filtering, FilterTypes
<1>3. \A a \in Plat!Axes : Plat!pidAlg(busy[a], pid, Plat!Input(a)) \in Plat!Filters
  <2> TAKE a \in Plat!Axes
  <2>1. busy[a] \in Plat!Filters /\ Plat!Input(a) \in Int
      BY <1>2, InputTyped
  <2> QED  BY <1>2, <2>1, PidTyped
<1>4. done \in [Plat!Axes -> Plat!Filters]
    BY <1>3
<1> HIDE DEF done
<1>5. demand' \in [Plat!Axes -> Int]
  <2>1. \A a \in Plat!Axes : done[a].Yc \in Int
      BY <1>4, FilterFields
  <2> QED  BY <1>1, <2>1
<1>6. Steering' /\ Plat!TurnsWithStick
  <2>1. Plat!SetSpeeds(demand')
      BY <1>1
  <2> QED  BY <1>1, <1>5, <2>1, StatesAre, DemandTurns DEF PlatformInv
<1>7. filter' \in [Plat!Axes -> Plat!Filters]
  <2>1. ASSUME NEW f \in Plat!Either(done.x, filter.x, done.x.Uc - busy.x.Uc)
        PROVE  f \in Plat!Filters
    <3>1. done.x \in Plat!Filters /\ filter.x \in Plat!Filters /\ busy.x \in Plat!Filters
        BY <1>2, <1>4, AxesAre
    <3>2. done.x.Uc \in Int /\ busy.x.Uc \in Int
        BY <3>1, FilterFields
    <3>3. done.x.Uc - busy.x.Uc \in Int
        BY <3>2
    <3> QED  BY <2>1, <3>1, <3>3, TornTyped
  <2>2. \A f \in Plat!Filters : [done EXCEPT !.x = f] \in [Plat!Axes -> Plat!Filters]
      BY <1>4
  <2> QED  BY <1>1, <1>4, <2>1, <2>2
<1>8. Filtering'
    BY <1>1, <1>2, <1>7, StatesAre DEF Filtering, FilterTypes, Plat!NoOldIntegral
<1>9. Feeding'
    BY <1>1, SameQueue DEF PlatformInv, Feeding, FeedTypes, StickKept
<1> QED  BY <1>6, <1>8, <1>9 DEF PlatformStep, PlatformInv

\* The settings of the stick and of the filter change.
LEMMA SettingsUpdated ==
    ASSUME MotionAssumption, PlatformInv,
           \/ \E p \in JosParams : Plat!UpdateJosparam(p)
           \/ \E p \in PidParams : Plat!UpdatePIDparam(p)
    PROVE  PlatformStep
<1>1. /\ \/ \E p \in JosParams : jos' = [a \in Plat!Axes |-> p]
         \/ UNCHANGED jos
      /\ pid' \in PidParams
      /\ UNCHANGED <<filter, virtalInput, demand, bakState, busy, speed, ignored, torn>>
      /\ UNCHANGED <<stick, queue, trk, pixelErr, receiving>>
      /\ Plat!Counted
    BY DEF Plat!UpdateJosparam, Plat!UpdatePIDparam, Plat!world, PlatformInv, Filtering,
       FilterTypes
<1>2. jos' \in [Plat!Axes -> Plat!Settings]
    BY <1>1 DEF MotionAssumption, Plat!PlatformAssumption, PlatformInv, Steering, StickTypes
<1>3. Steering' /\ Plat!TurnsWithStick
    BY <1>1, <1>2, Turning DEF PlatformInv, Steering, StickTypes, RestsWithStick
<1>4. Filtering'
    BY <1>1 DEF PlatformInv, Filtering, FilterTypes, Plat!NoOldIntegral
<1>5. inputs' \in 0 .. MaxInputs
    BY <1>1, OneMoreInput DEF PlatformInv, Feeding, FeedTypes
<1>6. Feeding'
    BY <1>1, <1>5, SameQueue DEF PlatformInv, Feeding, FeedTypes, StickKept
<1> QED  BY <1>3, <1>4, <1>6 DEF PlatformStep, PlatformInv

\* The invariant holds at first and every step keeps it.
LEMMA PlatformStarts ==
    ASSUME MotionAssumption, Plat!Init
    PROVE  PlatformInv
<1>1. /\ \E p \in JosParams : jos = [a \in Plat!Axes |-> p]
      /\ pid \in PidParams /\ filter = [a \in Plat!Axes |-> Plat!NewFilter]
      /\ virtalInput = Plat!Centre /\ stick = Plat!Centre /\ demand = Plat!Centre
      /\ speed = Plat!Centre /\ bakState = Plat!Acquire /\ busy = Plat!None
      /\ queue = <<>> /\ trk = Plat!NoError /\ pixelErr = Plat!NoError
      /\ receiving = "no" /\ inputs = 0 /\ ignored = FALSE /\ torn = FALSE
    BY DEF Plat!Init
<1>2. Plat!Centre \in [Plat!Axes -> Sticks]
    BY DEF MotionAssumption, Plat!PlatformAssumption, Plat!Centre
<1>3. Steering
    BY <1>1, <1>2, CentreIs, StatesAre DEF Steering, StickTypes, RestsWithStick,
       MotionAssumption, Plat!PlatformAssumption
<1>4. Filtering
    BY <1>1, FilterCreated DEF Filtering, FilterTypes, Plat!NoOldIntegral, Forgotten
<1>5. Feeding
  <2>1. 0 \in 0 .. MaxInputs
      BY DEF MotionAssumption, Plat!PlatformAssumption
  <2>2. trk \in Plat!Reports /\ pixelErr \in Plat!Reports
      BY <1>1, StatesAre DEF Plat!NoError, Plat!Reports
  <2>3. queue \in Seq(CommandNames)
      BY <1>1
  <2>4. ignored \in BOOLEAN /\ torn \in BOOLEAN
      BY <1>1
  <2>5. FeedTypes
      BY <1>1, <2>1, <2>2, <2>3, <2>4 DEF FeedTypes, CommandNames
  <2> QED  BY <1>1, <2>5 DEF Feeding, StickKept
<1> QED  BY <1>3, <1>4, <1>5 DEF PlatformInv

LEMMA PlatformKeeps ==
    ASSUME MotionAssumption, PlatformInv, [Plat!Next]_platformVars
    PROVE  PlatformStep
<1>1. CASE UNCHANGED platformVars
  <2>1. /\ UNCHANGED <<jos, pid, filter, virtalInput, demand, bakState, busy, speed>>
        /\ UNCHANGED <<stick, queue, trk, pixelErr, receiving, inputs, ignored, torn>>
      BY <1>1 DEF platformVars
  <2>2. Filtering' /\ RestsWithStick' /\ Plat!TurnsWithStick
      BY <2>1, PlantKept DEF PlatformInv, Steering, Plat!plant
  <2>3. StickTypes'
      BY <2>1 DEF PlatformInv, Steering, StickTypes
  <2>4. Feeding'
      BY <2>1, SameQueue DEF PlatformInv, Feeding, FeedTypes, StickKept
  <2> QED  BY <2>2, <2>3, <2>4 DEF PlatformStep, PlatformInv, Steering
<1>2. CASE Plat!Next
    BY <1>2, StickMoves, TrackCommands, Reported, GstReported, ReportsCopied, GstResets,
       TracksStop, TracksStart, SticksHandled, AcquireHandled, BreaksHandled, LockHandled,
       LockFinished, SettingsUpdated DEF Plat!Next
<1> QED  BY <1>1, <1>2

-----------------------------------------------------------------------------
PlatformPart == part = "platform" => PlatformInv

\* The platform among the parts.
LEMMA PlatformPartStarts == MotionAssumption /\ InitPart => PlatformPart
BY PlatformStarts DEF InitPart, PlatformPart

LEMMA PlatformPartKeeps ==
    MotionAssumption /\ PlatformPart /\ [NextOfPart]_allVars =>
        PlatformPart' /\ (part = "platform" => Plat!TurnsWithStick)
<1> SUFFICES ASSUME MotionAssumption, PlatformPart, [NextOfPart]_allVars
             PROVE  PlatformPart' /\ (part = "platform" => Plat!TurnsWithStick)
    OBVIOUS
<1>1. UNCHANGED part
    BY DEF NextOfPart, allVars
<1>2. part = "platform" => [Plat!Next]_platformVars
    BY DEF NextOfPart, allVars
<1> QED  BY <1>1, <1>2, PlatformKeeps DEF PlatformPart, PlatformStep

\* With the stick in the middle and all commands handled the unit has been told to
\* stand, unless it tracks or ignored the stick while it did, and between two tracks
\* the filters hold nothing of the last one (platformControl.cpp, platformFilter.cpp),
\* for every stick, every setting and every error of the tracker.
THEOREM StandsAtRest == SpecOfParts => []StandsWhenCentred
<1>1. PlatformPart => StandsWhenCentred
    BY PlatformShows DEF PlatformPart, StandsWhenCentred
<1> QED  BY <1>1, MotionAssumption, PlatformPartStarts, PlatformPartKeeps, PTL DEF SpecOfParts

\* A command of the stick turns the unit the way the stick points or not at all, for
\* every dead zone, breakpoint and gain once joyParamProcHandle has put them in order,
\* below the highest demand (platformControl.cpp, PTZ_speedTransfer.cpp).
THEOREM UnitTurnsWithStick == SpecOfParts => FollowsStick
<1>1. MotionAssumption /\ PlatformPart /\ [NextOfPart]_allVars
          => PlatformPart' /\ [part = "platform" => Plat!TurnsWithStick]_platformVars
    BY PlatformPartKeeps
<1> QED  BY <1>1, MotionAssumption, PlatformPartStarts, PTL DEF SpecOfParts, FollowsStick

(***************************************************************************)
(* The optics: field of view and boresight follow the settings.            *)
(***************************************************************************)

(***************************************************************************)
(* Where the settings of an input are.                                     *)
(***************************************************************************)
LEMMA InputBlocks ==
    ASSUME NEW ch \in 0 .. 4
    PROVE  /\ SensorBaseAddress(ch) \in 0 .. 200
           /\ BaseAddress(ch) = SensorBaseAddress(ch)
<1>1. ch = 0 \/ ch = 1 \/ ch = 2 \/ ch = 3 \/ ch = 4
    OBVIOUS
<1>2. /\ InputBlock[1] = 22 /\ InputBlock[2] = 55 /\ InputBlock[3] = 62
      /\ InputBlock[4] = 69 /\ InputBlock[5] = 76
    BY DEF InputBlock
<1>3. SensorBaseAddress(ch) = InputBlock[ch + 1] /\ BaseAddress(ch) = InputBlock[ch + 1]
    BY DEF SensorBaseAddress, BaseAddress
<1> QED  BY <1>1, <1>2, <1>3

\* Where a field of a block is.
LEMMA AddressIs ==
    ASSUME NEW k \in 0 .. 250, NEW o \in Nat
    PROVE  Address(k, o) = 16 * k + o
<1>1. (16 * k) % 4096 = 16 * k
    OBVIOUS
<1> QED  BY <1>1 DEF Address

LEMMA Addresses ==
    ASSUME NEW b \in 0 .. 200
    PROVE  /\ FOVTYPE(b) = 16 * b + 5 /\ FOVCLASS(b) = 16 * b + 16
           /\ FOVY(b, 13) = 16 * b + 43
           /\ boresightY(b, 13) = 16 * b + 89
           /\ \A n \in 1 .. 13 : /\ FOVX(b, n) = 16 * b + 16 + 2 * n
                                 /\ Feedback(b, n) = 16 * b + 50 + n
                                 /\ boresightX(b, n) = 16 * b + 62 + 2 * n
<1>1. /\ b \in 0 .. 250 /\ b + 1 \in 0 .. 250 /\ b + 2 \in 0 .. 250 /\ b + 3 \in 0 .. 250
      /\ b + 4 \in 0 .. 250 /\ b + 5 \in 0 .. 250
    OBVIOUS
<1>2. /\ \A o \in Nat : Address(b, o) = 16 * b + o
      /\ \A o \in Nat : Address(b + 1, o) = 16 * (b + 1) + o
      /\ \A o \in Nat : Address(b + 2, o) = 16 * (b + 2) + o
      /\ \A o \in Nat : Address(b + 3, o) = 16 * (b + 3) + o
      /\ \A o \in Nat : Address(b + 4, o) = 16 * (b + 4) + o
      /\ \A o \in Nat : Address(b + 5, o) = 16 * (b + 5) + o
    BY <1>1, AddressIs
<1>3. FOVTYPE(b) = 16 * b + 5 /\ FOVCLASS(b) = 16 * b + 16
    BY <1>1, <1>2 DEF FOVTYPE, FOVCLASS
<1>4. \A n \in 1 .. 13 : /\ FOVX(b, n) = 16 * b + 16 + 2 * n
                         /\ Feedback(b, n) = 16 * b + 50 + n
                         /\ boresightX(b, n) = 16 * b + 62 + 2 * n
  <2> TAKE n \in 1 .. 13
  <2>1. Feedback(b, n) = 16 * b + 50 + n
    <3>1. n + 2 \in Nat
        OBVIOUS
    <3> QED  BY <1>1, <1>2, <3>1 DEF Feedback
  <2>2. FOVX(b, n) = 16 * b + 16 + 2 * n
    <3>1. CASE n <= 7
      <4>1. 2 * n \in Nat
          OBVIOUS
      <4> QED  BY <1>1, <1>2, <3>1, <4>1 DEF FOVX
    <3>2. CASE n > 7
      <4>1. 2 * (n - 8) \in Nat
          BY <3>2
      <4> QED  BY <1>1, <1>2, <3>2, <4>1 DEF FOVX
    <3> QED  BY <3>1, <3>2
  <2>3. boresightX(b, n) = 16 * b + 62 + 2 * n
    <3>1. CASE n <= 8
      <4>1. 2 * (n - 1) \in Nat
          OBVIOUS
      <4> QED  BY <1>1, <1>2, <3>1, <4>1 DEF boresightX
    <3>2. CASE n > 8
      <4>1. 2 * (n - 9) \in Nat
          BY <3>2
      <4> QED  BY <1>1, <1>2, <3>2, <4>1 DEF boresightX
    <3> QED  BY <3>1, <3>2
  <2> QED  BY <2>1, <2>2, <2>3
<1>5. FOVY(b, 13) = 16 * b + 43 /\ boresightY(b, 13) = 16 * b + 89
  <2>1. 13 \in 1 .. 13
      OBVIOUS
  <2> QED  BY <1>1, <1>4, <2>1 DEF FOVY, boresightY
<1> QED  BY <1>3, <1>4, <1>5

\* What the field of view and the boresight are computed from is related to them.
LEMMA Unrelated ==
    ASSUME NEW b \in 0 .. 200, NEW a
    PROVE  /\ ~isRelation2fov(b, a) =>
                  /\ a # FOVTYPE(b) /\ a # FOVCLASS(b)
                  /\ \A n \in 1 .. 13 : a # FOVX(b, n) /\ a # Feedback(b, n)
           /\ ~isRelation2boresight(b, a) =>
                  /\ a # FOVTYPE(b) /\ a # FOVCLASS(b)
                  /\ \A n \in 1 .. 13 : a # boresightX(b, n)
<1>1. 1 \in 1 .. 13 /\ 13 \in 1 .. 13 /\ b \in Int
    OBVIOUS
<1>2. /\ FOVY(b, 13) = 16 * b + 43 /\ boresightY(b, 13) = 16 * b + 89
      /\ \A n \in 1 .. 13 : /\ FOVX(b, n) = 16 * b + 16 + 2 * n
                            /\ Feedback(b, n) = 16 * b + 50 + n
                            /\ boresightX(b, n) = 16 * b + 62 + 2 * n
    BY Addresses
<1>3. /\ FOVX(b, 1) = 16 * b + 18 /\ Feedback(b, 1) = 16 * b + 51
      /\ Feedback(b, 13) = 16 * b + 63 /\ boresightX(b, 1) = 16 * b + 64
    BY <1>1, <1>2
<1>4. \A n \in 1 .. 13 : /\ FOVX(b, n) \in FOVX(b, 1) .. FOVY(b, 13)
                         /\ Feedback(b, n) \in Feedback(b, 1) .. Feedback(b, 13)
                         /\ boresightX(b, n) \in boresightX(b, 1) .. boresightY(b, 13)
    BY <1>1, <1>2, <1>3
<1>5. ASSUME ~isRelation2fov(b, a)
      PROVE  /\ a # FOVTYPE(b) /\ a # FOVCLASS(b)
             /\ \A n \in 1 .. 13 : a # FOVX(b, n) /\ a # Feedback(b, n)
    BY <1>4, <1>5 DEF isRelation2fov
<1>6. ASSUME ~isRelation2boresight(b, a)
      PROVE  /\ a # FOVTYPE(b) /\ a # FOVCLASS(b)
             /\ \A n \in 1 .. 13 : a # boresightX(b, n)
    BY <1>4, <1>6 DEF isRelation2boresight
<1> QED  BY <1>5, <1>6

\* A set of numbers has a lowest one, and a bounded one a highest.
LEMMA LowestExists ==
    ASSUME NEW S, S \subseteq Nat, S # {}
    PROVE  \E n \in S : \A m \in S : n <= m
<1> DEFINE R == OpToRel(<, Nat)
<1>1. IsWellFoundedOn(R, Nat)
    BY NatLessThanWellFounded
<1>2. \A m \in Nat, n \in Nat : n < m => <<n, m>> \in R
    BY DEF OpToRel
<1> HIDE DEF R
<1>3. \E n \in S : \A m \in S : ~ (<<m, n>> \in R)
    BY <1>1, WFMin
<1>4. PICK n \in S : \A m \in S : ~ (<<m, n>> \in R)
    BY <1>3
<1>5. ASSUME NEW m \in S
      PROVE  n <= m
  <2>1. m \in Nat /\ n \in Nat /\ ~ (<<m, n>> \in R)
      BY <1>4
  <2>2. ~ (m < n)
      BY <1>2, <2>1
  <2> QED  BY <2>1, <2>2
<1> QED  BY <1>5

LEMMA LowestWithin ==
    ASSUME NEW S, S \subseteq 1 .. 12, S # {}
    PROVE  Lowest(S) \in 1 .. 12 /\ Lowest(S) \in S
<1>1. S \subseteq Nat
    OBVIOUS
<1>2. \E n \in S : \A m \in S : n <= m
    BY <1>1, LowestExists
<1> QED  BY <1>2 DEF Lowest

LEMMA HighestWithin ==
    ASSUME NEW S, S \subseteq 1 .. 12, S # {}
    PROVE  Highest(S) \in 1 .. 12 /\ Highest(S) \in S
<1> DEFINE T == {13 - k : k \in S}
<1>1. T \subseteq Nat /\ T # {}
  <2>1. \A k \in S : 13 - k \in Nat
      OBVIOUS
  <2> QED  BY <2>1
<1>2. \E n \in T : \A k \in T : n <= k
    BY <1>1, LowestExists
<1>3. PICK n \in T : \A k \in T : n <= k
    BY <1>2
<1>4. PICK h \in S : n = 13 - h
    OBVIOUS
<1>5. ASSUME NEW k \in S
      PROVE  k <= h
  <2>1. 13 - k \in T /\ k \in Int /\ h \in Int
      OBVIOUS
  <2>2. n <= 13 - k
      BY <1>3, <2>1
  <2> QED  BY <1>4, <2>1, <2>2
<1> QED  BY <1>5 DEF Highest

(***************************************************************************)
(* What is looked up.                                                      *)
(***************************************************************************)
\* A setting of an input is a number.
LEMMA FoundTyped ==
    ASSUME NEW s \in [Varied -> Int], NEW ch \in Channels,
           NEW a \in Used(SensorBaseAddress(ch))
    PROVE  At(s, a) \in Int
<1>1. Given[a] \in Nat
    BY OpticsAssumption
<1> QED  BY <1>1 DEF At

\* The level of a zoom position is one of the table.
LEMMA LevelsFound ==
    ASSUME NEW s \in [Varied -> Int], NEW ch \in Channels, NEW n \in 1 .. 13
    PROVE  LET b == SensorBaseAddress(ch) IN
           /\ At(s, FOVTYPE(b)) \in Int /\ At(s, FOVCLASS(b)) \in Int
           /\ At(s, FOVX(b, n)) \in Int /\ At(s, Feedback(b, n)) \in Int
           /\ At(s, boresightX(b, n)) \in Int
<1> DEFINE b == SensorBaseAddress(ch)
<1>1. /\ FOVTYPE(b) \in Used(b) /\ FOVCLASS(b) \in Used(b) /\ FOVX(b, n) \in Used(b)
      /\ Feedback(b, n) \in Used(b) /\ boresightX(b, n) \in Used(b)
  <2> HIDE DEF b
  <2> QED  BY DEF Used, Levels
<1> QED  BY <1>1, FoundTyped

\* Two levels give a number when the position is between them.
LEMMA InterpolatedTyped ==
    ASSUME NEW x0 \in Int, NEW x1 \in Int, NEW y0 \in Int, NEW y1 \in Int, NEW x \in Int,
           x0 <= x, x <= x1
    PROVE  linear_interpolation(x0, x1, y0, y1, x) \in Int
<1> DEFINE n == (y1 - y0) * (x - x0)
           d == x1 - x0
<1>1. n \in Int
    OBVIOUS
<1>2. CASE x1 = x0
    BY <1>2 DEF linear_interpolation, Unknown
<1>3. CASE x1 # x0
  <2>1. d \in Nat \ {0}
      BY <1>3
  <2>2. linear_interpolation(x0, x1, y0, y1, x) = y0 + n \div d
      BY <1>3 DEF linear_interpolation
  <2> HIDE DEF n, d
  <2>3. n \div d \in Int
      BY <1>1, <2>1
  <2> QED  BY <2>2, <2>3
<1> QED  BY <1>2, <1>3

\* Field of view and boresight of the input whose blocks begin at b, with t the
\* settings and s the copy.
ClassAt(t, b) == LET c == At(t, FOVCLASS(b)) IN IF c < 0 THEN 0 ELSE IF c > 4 THEN 4 ELSE c
FovAt(kind, s, t, b, z) ==
    CASE kind = 0 -> At(s, FOVX(b, 1))
      [] kind = 1 -> At(s, FOVX(b, ClassAt(t, b) + 1))
      [] kind = 2 -> ContinuousFov(s, b, z)
BoreAt(kind, s, t, b, z) ==
    CASE kind = 0 -> At(t, boresightX(b, 1))
      [] kind = 1 -> At(t, boresightX(b, ClassAt(t, b) + 1))
      [] kind = 2 -> ContinuousBoresight(s, b, z)

\* FovOf and the boresight, as functions of what they read.
LEMMA SameOptics ==
    ASSUME NEW kind, NEW s, NEW ch, NEW z
    PROVE  /\ Kind(ch) = At(settings, FOVTYPE(Base(ch)))
           /\ FovOf(kind, s, ch, z) = FovAt(kind, s, settings, Base(ch), z)
           /\ BoresightOf(kind, s, ch, z) = BoreAt(kind, s, settings, Base(ch), z)
BY DEF Kind, FovOf, FovAt, BoresightOf, BoreAt, Class, ClassAt

\* An input is current or named.
LEMMA CurrentIsNone ==
    ASSUME NEW ch \in Channels
    PROVE  ch \in 0 .. 4 /\ ch # Current
BY OpticsAssumption DEF Current

\* The base address of an input.
LEMMA BaseIs ==
    ASSUME NEW ch \in Channels
    PROVE  Base(ch) = SensorBaseAddress(ch) /\ Base(ch)' = SensorBaseAddress(ch)
BY CurrentIsNone DEF Base

LEMMA BaseOfCurrent ==
    Base(Current) = SensorBaseAddress(mainch)
BY DEF Base

-----------------------------------------------------------------------------
\* A field of view is a number, for each kind of optics.
LEMMA ClassTyped ==
    ASSUME NEW t \in [Varied -> Int], NEW ch \in Channels
    PROVE  /\ ClassAt(t, SensorBaseAddress(ch)) + 1 \in 1 .. 13
           /\ 1 \in 1 .. 13 /\ 13 \in 1 .. 13
<1>1. 1 \in 1 .. 13
    OBVIOUS
<1> QED  BY <1>1, LevelsFound DEF ClassAt

LEMMA ContinuousTyped ==
    ASSUME NEW s \in [Varied -> Int], NEW ch \in Channels, NEW z \in Int
    PROVE  /\ ContinuousFov(s, SensorBaseAddress(ch), z) \in Int
           /\ ContinuousBoresight(s, SensorBaseAddress(ch), z) \in Int
<1> DEFINE b == SensorBaseAddress(ch)
           F == FovIntervals(s, b, z)
           B == BoreIntervals(s, b, z)
<1>1. \A n \in 1 .. 13 : /\ At(s, FOVX(b, n)) \in Int /\ At(s, Feedback(b, n)) \in Int
                         /\ At(s, boresightX(b, n)) \in Int
    BY LevelsFound
<1>2. \A n \in 1 .. 12 : n \in 1 .. 13 /\ n + 1 \in 1 .. 13
    OBVIOUS
<1>3. 1 \in 1 .. 13 /\ 13 \in 1 .. 13
    OBVIOUS
<1>4. \A n \in F : n \in 1 .. 12 /\ At(s, Feedback(b, n)) <= z /\ z <= At(s, Feedback(b, n + 1))
    BY DEF FovIntervals
<1>5. \A n \in B : n \in 1 .. 12 /\ At(s, Feedback(b, n)) <= z /\ z <= At(s, Feedback(b, n + 1))
  <2> TAKE n \in B
  <2>1. n \in 1 .. 12 /\ At(s, Feedback(b, n)) <= z /\ z < At(s, Feedback(b, n + 1))
      BY DEF BoreIntervals
  <2> QED  BY <1>1, <1>2, <2>1
<1> HIDE DEF b, F, B
<1>6. ASSUME F # {}
      PROVE  Interpolate(s, b, FOVX, Lowest(F), z) \in Int
  <2>1. Lowest(F) \in F
    <3>1. F \subseteq 1 .. 12
        BY <1>4
    <3> QED  BY <1>6, <3>1, LowestWithin
  <2> DEFINE n == Lowest(F)
  <2> HIDE DEF n
  <2>2. n \in 1 .. 13 /\ n + 1 \in 1 .. 13 /\ At(s, Feedback(b, n)) <= z /\ z <= At(s, Feedback(b, n + 1))
      BY <1>2, <1>4, <2>1 DEF n
  <2>3. linear_interpolation(At(s, Feedback(b, n)), At(s, Feedback(b, n + 1)),
                             At(s, FOVX(b, n)), At(s, FOVX(b, n + 1)), z) \in Int
      BY <1>1, <2>2, InterpolatedTyped
  <2>4. Interpolate(s, b, FOVX, n, z) \in Int
      BY <2>3 DEF Interpolate
  <2> QED  BY <2>4 DEF n
<1>7. ASSUME B # {}
      PROVE  Interpolate(s, b, boresightX, Highest(B), z) \in Int
  <2>1. Highest(B) \in B
    <3>1. B \subseteq 1 .. 12
        BY <1>5
    <3> QED  BY <1>7, <3>1, HighestWithin
  <2> DEFINE n == Highest(B)
  <2> HIDE DEF n
  <2>2. /\ n \in 1 .. 13 /\ n + 1 \in 1 .. 13
        /\ At(s, Feedback(b, n)) <= z /\ z <= At(s, Feedback(b, n + 1))
      BY <1>2, <1>5, <2>1 DEF n
  <2>3. linear_interpolation(At(s, Feedback(b, n)), At(s, Feedback(b, n + 1)),
                             At(s, boresightX(b, n)), At(s, boresightX(b, n + 1)), z) \in Int
      BY <1>1, <2>2, InterpolatedTyped
  <2>4. Interpolate(s, b, boresightX, n, z) \in Int
      BY <2>3 DEF Interpolate
  <2> QED  BY <2>4 DEF n
<1> DEFINE f == Interpolate(s, b, FOVX, Lowest(F), z)
           g == Interpolate(s, b, boresightX, Highest(B), z)
<1>8. ContinuousFov(s, b, z) = IF z = 0 THEN At(s, FOVX(b, 1))
                               ELSE IF F = {} THEN Unknown ELSE f
    BY DEF ContinuousFov, F
<1>9. ContinuousBoresight(s, b, z) = IF z = 0 THEN At(s, boresightX(b, 1))
                                     ELSE IF B = {} THEN At(s, boresightX(b, 13))
                                     ELSE g
    BY DEF ContinuousBoresight, B
<1>10. /\ F # {} => f \in Int
       /\ B # {} => g \in Int
    BY <1>6, <1>7
<1> HIDE DEF f, g
<1>11. ContinuousFov(s, b, z) \in Int
    BY <1>1, <1>3, <1>8, <1>10 DEF Unknown
<1>12. ContinuousBoresight(s, b, z) \in Int
    BY <1>1, <1>3, <1>9, <1>10
<1> QED  BY <1>11, <1>12 DEF b

LEMMA OpticsTyped ==
    ASSUME NEW kind \in Kinds, NEW s \in [Varied -> Int], NEW t \in [Varied -> Int],
           NEW ch \in Channels, NEW z \in Int
    PROVE  /\ FovAt(kind, s, t, SensorBaseAddress(ch), z) \in Int
           /\ BoreAt(kind, s, t, SensorBaseAddress(ch), z) \in Int
<1> DEFINE b == SensorBaseAddress(ch)
<1>1. kind = 0 \/ kind = 1 \/ kind = 2
    BY DEF Kinds
<1>2. ClassAt(t, b) + 1 \in 1 .. 13 /\ 1 \in 1 .. 13
    BY ClassTyped
<1>3. \A n \in 1 .. 13 : At(s, FOVX(b, n)) \in Int /\ At(t, boresightX(b, n)) \in Int
    BY LevelsFound
<1>4. ContinuousFov(s, b, z) \in Int /\ ContinuousBoresight(s, b, z) \in Int
    BY ContinuousTyped
<1> HIDE DEF b
<1>5. FovAt(kind, s, t, b, z) \in Int /\ BoreAt(kind, s, t, b, z) \in Int
    BY <1>1, <1>2, <1>3, <1>4 DEF FovAt, BoreAt
<1> QED  BY <1>5 DEF b

\* Settings that agree on the levels of an input give the same field of view.
LEMMA SameContinuousFov ==
    ASSUME NEW s, NEW t, NEW b, NEW z,
           \A n \in 1 .. 13 : /\ At(s, FOVX(b, n)) = At(t, FOVX(b, n))
                              /\ At(s, Feedback(b, n)) = At(t, Feedback(b, n))
    PROVE  ContinuousFov(s, b, z) = ContinuousFov(t, b, z)
<1>1. \A n \in 1 .. 12 : n \in 1 .. 13 /\ n + 1 \in 1 .. 13
    OBVIOUS
<1>2. \A n \in 1 .. 12 : At(s, Feedback(b, n)) = At(t, Feedback(b, n))
                         /\ At(s, Feedback(b, n + 1)) = At(t, Feedback(b, n + 1))
    BY <1>1
<1>3. FovIntervals(s, b, z) = FovIntervals(t, b, z)
    BY <1>2 DEF FovIntervals
<1> DEFINE F == FovIntervals(s, b, z)
           n == Lowest(F)
<1>4. F \subseteq 1 .. 12
    BY DEF FovIntervals
<1>5. F # {} => n \in 1 .. 12
    BY <1>4, LowestWithin
<1> HIDE DEF n
<1> DEFINE f == Interpolate(s, b, FOVX, n, z)
           g == Interpolate(t, b, FOVX, n, z)
<1>6. n \in 1 .. 12 => f = g
    BY <1>1 DEF Interpolate
<1>7. 1 \in 1 .. 13
    OBVIOUS
<1>8. ContinuousFov(s, b, z) = IF z = 0 THEN At(s, FOVX(b, 1))
                               ELSE IF F = {} THEN Unknown
                               ELSE f
    BY DEF ContinuousFov, n
<1>9. ContinuousFov(t, b, z) = IF z = 0 THEN At(t, FOVX(b, 1))
                               ELSE IF F = {} THEN Unknown
                               ELSE g
    BY <1>3 DEF ContinuousFov, n
<1> HIDE DEF F, f, g
<1> QED  BY <1>5, <1>6, <1>7, <1>8, <1>9

\* A setting to which neither is related changes neither.
LEMMA UnrelatedChanges ==
    ASSUME NEW ch \in Channels, NEW a \in Varied, NEW v \in Int,
           settings \in [Varied -> Int], settings' = [settings EXCEPT ![a] = v]
    PROVE  /\ ~isRelation2fov(SensorBaseAddress(ch), a) =>
                  /\ At(settings', FOVTYPE(SensorBaseAddress(ch)))
                         = At(settings, FOVTYPE(SensorBaseAddress(ch)))
                  /\ \A kind \in Kinds, z \in Int :
                         FovAt(kind, settings', settings', SensorBaseAddress(ch), z)
                             = FovAt(kind, settings, settings, SensorBaseAddress(ch), z)
           /\ ~isRelation2boresight(SensorBaseAddress(ch), a) =>
                  /\ At(settings', FOVTYPE(SensorBaseAddress(ch)))
                         = At(settings, FOVTYPE(SensorBaseAddress(ch)))
                  /\ \A kind \in 0 .. 1, z \in Int :
                         BoreAt(kind, settings', settings', SensorBaseAddress(ch), z)
                             = BoreAt(kind, settings, settings, SensorBaseAddress(ch), z)
<1> DEFINE t == settings
           u == settings'
           b == SensorBaseAddress(ch)
<1>1. \A x : x # a => At(u, x) = At(t, x)
    BY DEF At
<1>2. ClassAt(t, b) + 1 \in 1 .. 13 /\ 1 \in 1 .. 13
    BY ClassTyped
<1> HIDE DEF t, u, b
<1>3. ASSUME /\ a # FOVTYPE(b) /\ a # FOVCLASS(b)
             /\ \A n \in 1 .. 13 : a # FOVX(b, n) /\ a # Feedback(b, n)
      PROVE  /\ At(u, FOVTYPE(b)) = At(t, FOVTYPE(b))
             /\ \A kind \in Kinds, z \in Int :
                    FovAt(kind, u, u, b, z) = FovAt(kind, t, t, b, z)
  <2>1. \A n \in 1 .. 13 : /\ At(u, FOVX(b, n)) = At(t, FOVX(b, n))
                           /\ At(u, Feedback(b, n)) = At(t, Feedback(b, n))
      BY <1>1, <1>3
  <2>2. ClassAt(u, b) = ClassAt(t, b)
      BY <1>1, <1>3 DEF ClassAt
  <2>3. ASSUME NEW kind \in Kinds, NEW z \in Int
        PROVE  FovAt(kind, u, u, b, z) = FovAt(kind, t, t, b, z)
    <3>1. ContinuousFov(u, b, z) = ContinuousFov(t, b, z)
        BY <2>1, SameContinuousFov
    <3> QED  BY <1>2, <2>1, <2>2, <3>1 DEF FovAt
  <2> QED  BY <1>1, <1>3, <2>3
<1>4. ASSUME /\ a # FOVTYPE(b) /\ a # FOVCLASS(b)
             /\ \A n \in 1 .. 13 : a # boresightX(b, n)
      PROVE  /\ At(u, FOVTYPE(b)) = At(t, FOVTYPE(b))
             /\ \A kind \in 0 .. 1, z \in Int :
                    BoreAt(kind, u, u, b, z) = BoreAt(kind, t, t, b, z)
  <2>1. \A n \in 1 .. 13 : At(u, boresightX(b, n)) = At(t, boresightX(b, n))
      BY <1>1, <1>4
  <2>2. ClassAt(u, b) = ClassAt(t, b)
      BY <1>1, <1>4 DEF ClassAt
  <2>3. ASSUME NEW kind \in 0 .. 1, NEW z \in Int
        PROVE  BoreAt(kind, u, u, b, z) = BoreAt(kind, t, t, b, z)
    <3>1. kind = 0 \/ kind = 1
        OBVIOUS
    <3> QED  BY <1>2, <2>1, <2>2, <3>1 DEF BoreAt
  <2> QED  BY <1>1, <1>4, <2>3
<1>5. b \in 0 .. 200
    BY CurrentIsNone, InputBlocks DEF b
<1>6. ~isRelation2fov(b, a) => /\ a # FOVTYPE(b) /\ a # FOVCLASS(b)
                               /\ \A n \in 1 .. 13 : a # FOVX(b, n) /\ a # Feedback(b, n)
    BY <1>5, Unrelated
<1>7. ~isRelation2boresight(b, a) => /\ a # FOVTYPE(b) /\ a # FOVCLASS(b)
                                     /\ \A n \in 1 .. 13 : a # boresightX(b, n)
    BY <1>5, Unrelated
<1> QED  BY <1>3, <1>4, <1>6, <1>7 DEF t, u, b

(***************************************************************************)
(* What the two threads have yet to do.                                    *)
(***************************************************************************)
TodoLists == {<<>>, <<"fov">>, <<"bore">>, <<"fov", "bore">>, <<"bore", "fov">>}
Has(list, what) == \E i \in 1 .. Len(list) : list[i] = what
Left(what) == \E t \in Threads : Has(job[t].todo, what)

\* What is in a list of things to do.
LEMMA ListsHave ==
    /\ \A w : ~Has(<<>>, w)
    /\ \A v, w : Has(<<v>>, w) <=> v = w
    /\ \A u, v, w : Has(<<u, v>>, w) <=> u = w \/ v = w
<1>1. \A w : ~Has(<<>>, w)
    BY DEF Has
<1>2. ASSUME NEW v, NEW w
      PROVE  Has(<<v>>, w) <=> v = w
  <2>1. Len(<<v>>) = 1 /\ <<v>>[1] = v /\ 1 .. 1 = {1}
      OBVIOUS
  <2> QED  BY <2>1 DEF Has
<1>3. ASSUME NEW u, NEW v, NEW w
      PROVE  Has(<<u, v>>, w) <=> u = w \/ v = w
  <2>1. Len(<<u, v>>) = 2 /\ <<u, v>>[1] = u /\ <<u, v>>[2] = v /\ 1 .. 2 = {1, 2}
      OBVIOUS
  <2> QED  BY <2>1 DEF Has
<1> QED  BY <1>1, <1>2, <1>3

\* A job is the record of its fields.
LEMMA JobsAre ==
    /\ Jobs = [todo : TodoLists, zoom : Zooms \cup {0}, ch : Channels \cup {Current}]
    /\ NoJob \in Jobs /\ NoJob.todo = <<>>
<1>1. Jobs = [todo : TodoLists, zoom : Zooms \cup {0}, ch : Channels \cup {Current}]
    BY DEF Jobs, TodoLists
<1>2. NoJob = [todo |-> <<>>, zoom |-> 0, ch |-> Current] /\ <<>> \in TodoLists
    BY DEF NoJob, TodoLists
<1> QED  BY <1>1, <1>2

LEMMA RestOfJob ==
    ASSUME NEW j \in Jobs, j.todo # <<>>
    PROVE  /\ Rest(j) \in Jobs
           /\ \/ Rest(j) = NoJob
              \/ Rest(j).todo # <<>> /\ Rest(j).zoom = j.zoom /\ Rest(j).ch = j.ch
           /\ Head(j.todo) \in {"fov", "bore"}
           /\ \A w : w # Head(j.todo) /\ Has(j.todo, w) => Has(Rest(j).todo, w)
<1>1. \/ j.todo = <<"fov">> \/ j.todo = <<"bore">> \/ j.todo = <<"fov", "bore">>
      \/ j.todo = <<"bore", "fov">>
    BY JobsAre DEF TodoLists
<1>2. ASSUME NEW v \in {"fov", "bore"}, j.todo = <<v>>
      PROVE  /\ Rest(j) = NoJob /\ Head(j.todo) \in {"fov", "bore"}
             /\ \A w : w # Head(j.todo) /\ Has(j.todo, w) => Has(Rest(j).todo, w)
  <2>1. Len(j.todo) = 1 /\ Head(j.todo) = v
      BY <1>2
  <2>2. Rest(j) = NoJob
      BY <2>1 DEF Rest
  <2>3. \A w : Has(j.todo, w) => w = v
      BY <1>2, ListsHave
  <2> QED  BY <2>1, <2>2, <2>3
<1>3. ASSUME NEW u \in {"fov", "bore"}, NEW v \in {"fov", "bore"}, u # v, j.todo = <<u, v>>
      PROVE  /\ Rest(j) \in Jobs
             /\ Rest(j).todo # <<>> /\ Rest(j).zoom = j.zoom /\ Rest(j).ch = j.ch
             /\ Head(j.todo) \in {"fov", "bore"}
             /\ \A w : w # Head(j.todo) /\ Has(j.todo, w) => Has(Rest(j).todo, w)
  <2>1. Len(j.todo) = 2 /\ Head(j.todo) = u /\ Tail(j.todo) = <<v>>
      BY <1>3
  <2> DEFINE q == <<v>>
  <2>2. q \in TodoLists /\ q # <<>> /\ Has(q, v) /\ Tail(j.todo) = q
      BY <2>1, ListsHave DEF TodoLists
  <2> HIDE DEF q
  <2>3. Rest(j) = [j EXCEPT !.todo = q]
      BY <2>1, <2>2 DEF Rest
  <2>4. /\ Rest(j) \in Jobs /\ Rest(j).todo = q
        /\ Rest(j).zoom = j.zoom /\ Rest(j).ch = j.ch
      BY <2>2, <2>3, JobsAre
  <2>5. \A w : w # u /\ Has(j.todo, w) => w = v
      BY <1>3, ListsHave
  <2> QED  BY <2>1, <2>2, <2>4, <2>5
<1>4. CASE j.todo = <<"fov", "bore">>
    BY <1>3, <1>4
<1>5. CASE j.todo = <<"bore", "fov">>
    BY <1>3, <1>5
<1>6. CASE j.todo = <<"fov">>
    BY <1>2, <1>6, JobsAre
<1>7. CASE j.todo = <<"bore">>
    BY <1>2, <1>7, JobsAre
<1> QED  BY <1>1, <1>4, <1>5, <1>6, <1>7

-----------------------------------------------------------------------------
Working == \A t \in Threads : job[t] = NoJob \/ job[t].todo # <<>>
\* As long as changes do not overlap, one thread works, for the input that was
\* asked for and the position the zoom has.
OneAtATime == ~overlapped =>
    \A t \in Threads : job[t] # NoJob =>
        /\ \A u \in Threads : u # t => job[u] = NoJob
        /\ job[t].zoom = zoom
        /\ job[t].ch = chosen \/ (job[t].ch = Current /\ mainch = chosen)

\* The field of view and the boresight are right for the input asked for.
KindChosen == At(settings, FOVTYPE(SensorBaseAddress(chosen)))
FovRight == KindChosen \in Kinds =>
    fov = FovAt(KindChosen, settings, settings, SensorBaseAddress(chosen), zoom)
BoreRight == KindChosen \in 0 .. 1 /\ bore.ch = chosen =>
    bore.value = BoreAt(KindChosen, settings, settings, SensorBaseAddress(chosen), zoom)

FovDone  == ~overlapped /\ refreshed => Left("fov") \/ FovRight
BoreDone == ~overlapped => Left("bore") \/ BoreRight

OpticsInv == TypeOK /\ Working /\ OneAtATime /\ FovDone /\ BoreDone

\* The invariant is what the run checks of the optics.
LEMMA OpticsShow ==
    OpticsInv => TypeOK /\ FovFollows /\ BoresightFollows
<1> SUFFICES ASSUME OpticsInv
             PROVE  FovFollows /\ BoresightFollows
    BY DEF OpticsInv
<1>1. ASSUME Settled
      PROVE  FovRight /\ BoreRight /\ mainch = chosen
  <2>1. ~overlapped /\ refreshed /\ mainch = chosen /\ \A t \in Threads : job[t] = NoJob
      BY <1>1 DEF Settled, Busy
  <2>2. ~Left("fov") /\ ~Left("bore")
      BY <2>1, JobsAre, ListsHave DEF Left
  <2> QED  BY <2>1, <2>2 DEF OpticsInv, FovDone, BoreDone
<1>2. ASSUME Settled
      PROVE  /\ Kind(Current) = KindChosen
             /\ Base(Current) = SensorBaseAddress(chosen)
      BY <1>1, <1>2, SameOptics, BaseOfCurrent DEF KindChosen
<1>3. FovFollows
  <2> SUFFICES ASSUME Settled, Kind(Current) \in Kinds
               PROVE  fov = FovOf(Kind(Current), settings, Current, zoom)
      BY DEF FovFollows
  <2>1. FovOf(Kind(Current), settings, Current, zoom)
            = FovAt(Kind(Current), settings, settings, Base(Current), zoom)
      BY SameOptics
  <2> QED  BY <1>1, <1>2, <2>1 DEF FovRight
<1>4. BoresightFollows
  <2> SUFFICES ASSUME Settled, Kind(Current) \in 0 .. 1, bore.ch = mainch
               PROVE  bore.value = BoresightOf(Kind(Current), settings, Current, zoom)
      BY DEF BoresightFollows
  <2>1. BoresightOf(Kind(Current), settings, Current, zoom)
            = BoreAt(Kind(Current), settings, settings, Base(Current), zoom)
      BY SameOptics
  <2> QED  BY <1>1, <1>2, <2>1 DEF BoreRight
<1> QED  BY <1>3, <1>4

\* A thread that begins a change has it as its only one, or changes overlap.
LEMMA Begins ==
    ASSUME OpticsInv, NEW t \in Threads, NEW j \in Jobs, Begin(t, j)
    PROVE  /\ job' \in [Threads -> Jobs] /\ Working'
           /\ changes' \in 0 .. MaxChanges /\ overlapped' \in BOOLEAN
           /\ ~overlapped' =>
                  /\ ~overlapped /\ mainch = chosen
                  /\ ~Left("fov") /\ ~Left("bore")
                  /\ \A u \in Threads : job'[u] = NoJob \/ (u = t /\ job'[u] = j)
                  /\ \A w : Has(j.todo, w) => Left(w)'
<1>1. /\ changes < MaxChanges /\ changes' = changes + 1 /\ job[t] = NoJob
      /\ job' = [job EXCEPT ![t] = IF j.todo = <<>> THEN NoJob ELSE j]
      /\ overlapped' = (overlapped \/ Busy \/ mainch # chosen)
    BY DEF Begin
<1>2. job \in [Threads -> Jobs] /\ Working /\ changes \in 0 .. MaxChanges
    BY DEF OpticsInv, TypeOK
<1>3. job' \in [Threads -> Jobs]
    BY <1>1, <1>2, JobsAre
<1>4. Working'
    BY <1>1, <1>2 DEF Working
<1>5. changes' \in 0 .. MaxChanges
    BY <1>1, <1>2, OpticsAssumption
<1>6. overlapped' \in BOOLEAN
    BY <1>1
<1>7. ASSUME ~overlapped'
      PROVE  /\ ~overlapped /\ mainch = chosen
             /\ \A u \in Threads : job[u] = NoJob
    BY <1>1, <1>7 DEF Busy
<1>8. ASSUME ~overlapped'
      PROVE  ~Left("fov") /\ ~Left("bore")
    BY <1>7, <1>8, JobsAre, ListsHave DEF Left
<1>9. ASSUME ~overlapped'
      PROVE  \A u \in Threads : job'[u] = NoJob \/ (u = t /\ job'[u] = j)
  <2> TAKE u \in Threads
  <2>1. CASE u = t
      BY <1>1, <1>2, <2>1
  <2>2. CASE u # t
    <3>1. job'[u] = job[u]
        BY <1>1, <1>2, <2>2
    <3> QED  BY <1>7, <1>9, <3>1
  <2> QED  BY <2>1, <2>2
<1>10. ASSUME NEW w, Has(j.todo, w)
       PROVE  Left(w)'
  <2>1. j.todo # <<>>
      BY <1>10, ListsHave
  <2>2. job'[t] = j
      BY <1>1, <1>2, <2>1
  <2> QED  BY <1>10, <2>2 DEF Left
<1> QED  BY <1>3, <1>4, <1>5, <1>6, <1>7, <1>8, <1>9, <1>10

\* What the invariant says of single variables.
LEMMA OpticsFacts ==
    ASSUME OpticsInv
    PROVE  /\ settings \in [Varied -> Nat] /\ settings \in [Varied -> Int]
           /\ mainch \in Channels /\ chosen \in Channels
           /\ zoom \in Int /\ zoom \in Zooms \cup {0}
           /\ job \in [Threads -> Jobs]
BY OpticsAssumption DEF OpticsInv, TypeOK

\* What updateparams does is told by what the setting is related to.
LEMMA ToDoIs ==
    ASSUME NEW a
    PROVE  /\ ToDo(a) \in TodoLists
           /\ isRelation2fov(BaseAddress(mainch), a) => Has(ToDo(a), "fov")
           /\ isRelation2boresight(BaseAddress(mainch), a) => Has(ToDo(a), "bore")
<1>1. /\ <<>> \o <<>> = <<>>
      /\ <<"fov">> \o <<>> = <<"fov">>
      /\ <<>> \o <<"bore">> = <<"bore">>
      /\ <<"fov">> \o <<"bore">> = <<"fov", "bore">>
  <2>1. <<>> \o <<>> = <<>>
      OBVIOUS
  <2>2. <<"fov">> \o <<>> = <<"fov">>
      OBVIOUS
  <2>3. <<>> \o <<"bore">> = <<"bore">>
      OBVIOUS
  <2>4. <<"fov">> \o <<"bore">> = <<"fov", "bore">>
    <3> DEFINE f == <<"fov">>
               b == <<"bore">>
               q == <<"fov", "bore">>
               S == {"fov", "bore"}
    <3>0. f \in Seq(S) /\ b \in Seq(S)
        OBVIOUS
    <3>a. q \in Seq(S)
        OBVIOUS
    <3>b. Len(f) = 1 /\ Len(b) = 1
        OBVIOUS
    <3>c. Len(q) = 2
        OBVIOUS
    <3>1. /\ f \in Seq(S) /\ b \in Seq(S) /\ q \in Seq(S)
          /\ Len(f) = 1 /\ Len(b) = 1 /\ Len(q) = 2
        BY <3>0, <3>a, <3>b, <3>c
    <3>2. f[1] = "fov" /\ b[1] = "bore" /\ q[1] = "fov" /\ q[2] = "bore"
        OBVIOUS
    <3> HIDE DEF f, b, q, S
    <3>3. /\ f \o b \in Seq(S) /\ Len(f \o b) = 2
          /\ \A i \in 1 .. 2 : (f \o b)[i] = IF i <= 1 THEN f[i] ELSE b[i - 1]
      <4>1. /\ f \o b \in Seq(S) /\ Len(f \o b) = Len(f) + Len(b)
            /\ \A i \in 1 .. Len(f) + Len(b) :
                   (f \o b)[i] = IF i <= Len(f) THEN f[i] ELSE b[i - Len(f)]
          BY <3>1, ConcatProperties
      <4>2. Len(f) + Len(b) = 2
          BY <3>1
      <4> QED  BY <3>1, <4>1, <4>2
    <3>4. \A i \in 1 .. Len(f \o b) : (f \o b)[i] = q[i]
        BY <3>1, <3>2, <3>3
    <3>5. f \o b = q
        BY <3>1, <3>3, <3>4, SeqEqual
    <3> QED  BY <3>5 DEF f, b, q
  <2> QED  BY <2>1, <2>2, <2>3, <2>4
<1> DEFINE f == isRelation2fov(BaseAddress(mainch), a)
           b == isRelation2boresight(BaseAddress(mainch), a)
<1>2. /\ ~f /\ ~b => ToDo(a) = <<>>
      /\ f /\ ~b => ToDo(a) = <<"fov">>
      /\ ~f /\ b => ToDo(a) = <<"bore">>
      /\ f /\ b => ToDo(a) = <<"fov", "bore">>
    BY <1>1 DEF ToDo
<1> HIDE DEF f, b
<1>3. ToDo(a) \in TodoLists
    BY <1>2 DEF TodoLists
<1>4. (f => Has(ToDo(a), "fov")) /\ (b => Has(ToDo(a), "bore"))
    BY <1>2, ListsHave
<1> QED  BY <1>3, <1>4 DEF f, b

\* A job begins.
LEMMA JobMade ==
    ASSUME NEW q \in TodoLists, NEW z \in Zooms \cup {0}, NEW c \in Channels \cup {Current}
    PROVE  LET j == [todo |-> q, zoom |-> z, ch |-> c]
           IN  j \in Jobs /\ j.todo = q /\ j.zoom = z /\ j.ch = c
BY JobsAre

\* A setting is set: what depends on it is to do, or does not change.
LEMMA SettingsSet ==
    ASSUME OpticsInv, NEW a \in Varied, SetSetting(a)
    PROVE  OpticsInv'
<1>1. PICK v \in Choices[a] : settings' = [settings EXCEPT ![a] = v]
    BY DEF SetSetting
<1> DEFINE j == [todo |-> ToDo(a), zoom |-> zoom, ch |-> Current]
<1>2. /\ Begin("dispatcher", j)
      /\ UNCHANGED <<mainch, chosen, copy, fov, bore, zoom, refreshed>>
    BY DEF SetSetting
<1>3. j \in Jobs /\ j.todo = ToDo(a) /\ j.zoom = zoom /\ j.ch = Current
    BY OpticsFacts, ToDoIs, JobMade
<1>4. "dispatcher" \in Threads /\ "camera" \in Threads
    BY DEF Threads
<1> HIDE DEF j
<1>5. /\ job' \in [Threads -> Jobs] /\ Working'
      /\ changes' \in 0 .. MaxChanges /\ overlapped' \in BOOLEAN
      /\ ~overlapped' =>
             /\ ~overlapped /\ mainch = chosen
             /\ ~Left("fov") /\ ~Left("bore")
             /\ \A u \in Threads : job'[u] = NoJob \/ (u = "dispatcher" /\ job'[u] = j)
             /\ \A w : Has(ToDo(a), w) => Left(w)'
    BY <1>2, <1>3, <1>4, Begins
<1>6. v \in Nat /\ v \in Int
    BY OpticsAssumption
<1>7. /\ settings' \in [Varied -> Nat]
      /\ \A x \in Varied : settings'[x] \in Choices[x] \cup {Given[x]}
    BY <1>1, <1>6, OpticsFacts DEF OpticsInv, TypeOK
<1>8. TypeOK'
    BY <1>2, <1>5, <1>7 DEF OpticsInv, TypeOK
<1>9. OneAtATime'
    BY <1>2, <1>3, <1>5 DEF OneAtATime
<1> DEFINE b == SensorBaseAddress(chosen)
           k == At(settings, FOVTYPE(b))
<1>10. /\ ~isRelation2fov(b, a) =>
             /\ At(settings', FOVTYPE(b)) = k
             /\ \A kind \in Kinds, z \in Int :
                    FovAt(kind, settings', settings', b, z) = FovAt(kind, settings, settings, b, z)
       /\ ~isRelation2boresight(b, a) =>
             /\ At(settings', FOVTYPE(b)) = k
             /\ \A kind \in 0 .. 1, z \in Int :
                    BoreAt(kind, settings', settings', b, z)
                        = BoreAt(kind, settings, settings, b, z)
  <2>1. settings \in [Varied -> Int] /\ chosen \in Channels
      BY OpticsFacts
  <2> QED  BY <1>1, <1>6, <2>1, UnrelatedChanges
<1>11. mainch = chosen => BaseAddress(mainch) = b
    BY OpticsFacts, CurrentIsNone, InputBlocks
<1>12. KindChosen = k /\ KindChosen' = At(settings', FOVTYPE(b))
    BY <1>2 DEF KindChosen
<1> HIDE DEF b, k
<1>13. FovDone'
  <2> SUFFICES ASSUME ~overlapped', refreshed', ~isRelation2fov(b, a)
               PROVE  FovRight'
      BY <1>5, <1>11, ToDoIs DEF FovDone
  <2>1. FovRight
      BY <1>2, <1>5 DEF OpticsInv, FovDone
  <2> QED  BY <1>2, <1>10, <1>12, <2>1, OpticsFacts DEF FovRight, b
<1>14. BoreDone'
  <2> SUFFICES ASSUME ~overlapped', ~isRelation2boresight(b, a)
               PROVE  BoreRight'
      BY <1>5, <1>11, ToDoIs DEF BoreDone
  <2>1. BoreRight
      BY <1>5 DEF OpticsInv, BoreDone
  <2> QED  BY <1>2, <1>10, <1>12, <2>1, OpticsFacts DEF BoreRight, b
<1> QED  BY <1>5, <1>8, <1>9, <1>13, <1>14 DEF OpticsInv

\* After a change of input both are to do.
LEMMA BothLeft ==
    /\ <<"bore", "fov">> \in TodoLists
    /\ Has(<<"bore", "fov">>, "fov") /\ Has(<<"bore", "fov">>, "bore")
BY ListsHave DEF TodoLists

LEMMA SensorSwitched ==
    ASSUME OpticsInv, NEW ch \in Channels, SwitchSensor(ch)
    PROVE  OpticsInv'
<1> DEFINE q == <<"bore", "fov">>
           j == [todo |-> q, zoom |-> zoom, ch |-> ch]
<1>1. /\ Begin("dispatcher", j) /\ chosen' = ch
      /\ UNCHANGED <<settings, mainch, copy, fov, bore, zoom, refreshed>>
    BY DEF SwitchSensor
<1>2. q \in TodoLists /\ Has(q, "fov") /\ Has(q, "bore")
    BY BothLeft
<1> HIDE DEF q
<1>3. j \in Jobs /\ j.todo = q /\ j.zoom = zoom /\ j.ch = ch
    BY <1>2, OpticsFacts, JobMade
<1>4. "dispatcher" \in Threads
    BY DEF Threads
<1> HIDE DEF j
<1>5. /\ job' \in [Threads -> Jobs] /\ Working'
      /\ changes' \in 0 .. MaxChanges /\ overlapped' \in BOOLEAN
      /\ ~overlapped' =>
             /\ \A u \in Threads : job'[u] = NoJob \/ (u = "dispatcher" /\ job'[u] = j)
             /\ Left("fov")' /\ Left("bore")'
    BY <1>1, <1>2, <1>3, <1>4, Begins
<1>6. TypeOK'
    BY <1>1, <1>5 DEF OpticsInv, TypeOK
<1>7. OneAtATime'
    BY <1>1, <1>3, <1>5 DEF OneAtATime
<1>8. FovDone' /\ BoreDone'
    BY <1>5 DEF FovDone, BoreDone
<1> QED  BY <1>5, <1>6, <1>7, <1>8 DEF OpticsInv

\* The zoom moves; the field of view is to do.
LEMMA ZoomMoves ==
    ASSUME OpticsInv, NEW z \in Zooms, ZoomMoved(z)
    PROVE  OpticsInv'
<1> DEFINE q == <<"bore", "fov">>
           j == [todo |-> q, zoom |-> z, ch |-> Current]
<1>1. /\ Begin("camera", j) /\ zoom' = z
      /\ UNCHANGED <<settings, mainch, chosen, copy, fov, bore, refreshed>>
    BY DEF ZoomMoved
<1>2. q \in TodoLists /\ Has(q, "fov") /\ Has(q, "bore")
    BY BothLeft
<1> HIDE DEF q
<1>3. j \in Jobs /\ j.todo = q /\ j.zoom = z /\ j.ch = Current
    BY <1>2, JobMade
<1>4. "camera" \in Threads
    BY DEF Threads
<1> HIDE DEF j
<1>5. /\ job' \in [Threads -> Jobs] /\ Working'
      /\ changes' \in 0 .. MaxChanges /\ overlapped' \in BOOLEAN
      /\ ~overlapped' =>
             /\ mainch = chosen
             /\ \A u \in Threads : job'[u] = NoJob \/ (u = "camera" /\ job'[u] = j)
             /\ Left("fov")' /\ Left("bore")'
    BY <1>1, <1>2, <1>3, <1>4, Begins
<1>6. TypeOK'
    BY <1>1, <1>5 DEF OpticsInv, TypeOK
<1>7. OneAtATime'
    BY <1>1, <1>3, <1>5 DEF OneAtATime
<1>8. FovDone' /\ BoreDone'
    BY <1>5 DEF FovDone, BoreDone
<1> QED  BY <1>5, <1>6, <1>7, <1>8 DEF OpticsInv

\* The image process answers a change of input.
LEMMA ImageHasSwitched ==
    ASSUME OpticsInv, ImageSwitches
    PROVE  OpticsInv'
<1>1. /\ mainch' = chosen
      /\ overlapped' = (overlapped
                        \/ \E t \in Threads : job[t].ch = Current /\ job[t] # NoJob)
      /\ UNCHANGED <<settings, chosen, copy, fov, bore, zoom, job, refreshed, changes>>
    BY DEF ImageSwitches
<1>2. overlapped' \in BOOLEAN
    BY <1>1
<1>3. TypeOK'
    BY <1>1, <1>2 DEF OpticsInv, TypeOK
<1>4. OneAtATime'
    BY <1>1 DEF OpticsInv, OneAtATime
<1>5. FovDone' /\ BoreDone' /\ Working'
    BY <1>1 DEF OpticsInv, FovDone, BoreDone, Left, FovRight, BoreRight, KindChosen, Working
<1> QED  BY <1>3, <1>4, <1>5 DEF OpticsInv

-----------------------------------------------------------------------------
\* One thing of the list is done.
LEMMA JobServed ==
    ASSUME OpticsInv, NEW t \in Threads, job[t] # NoJob
    PROVE  /\ job[t] \in Jobs /\ job[t].todo # <<>>
           /\ job[t].zoom \in Int
           /\ \E c \in Channels : Base(job[t].ch) = SensorBaseAddress(c) /\ Channel(job[t].ch) = c
           /\ ~overlapped =>
                  /\ Base(job[t].ch) = SensorBaseAddress(chosen)
                  /\ Channel(job[t].ch) = chosen /\ job[t].zoom = zoom
                  /\ \A u \in Threads : u # t => job[u] = NoJob
<1>1. /\ job[t] \in Jobs /\ mainch \in Channels /\ chosen \in Channels
    BY OpticsFacts
<1>2. /\ job[t].todo # <<>> /\ job[t].zoom \in Zooms \cup {0}
      /\ job[t].ch \in Channels \cup {Current}
    BY <1>1, JobsAre DEF OpticsInv, Working
<1>3. job[t].zoom \in Int
    BY <1>2, OpticsAssumption
<1>4. \A c \in Channels : Base(c) = SensorBaseAddress(c) /\ Channel(c) = c
    BY BaseIs, CurrentIsNone DEF Channel
<1>5. Base(Current) = SensorBaseAddress(mainch) /\ Channel(Current) = mainch
    BY BaseOfCurrent DEF Channel
<1>6. \E c \in Channels : Base(job[t].ch) = SensorBaseAddress(c) /\ Channel(job[t].ch) = c
    BY <1>1, <1>2, <1>4, <1>5
<1>7. ASSUME ~overlapped
      PROVE  /\ Base(job[t].ch) = SensorBaseAddress(chosen)
             /\ Channel(job[t].ch) = chosen /\ job[t].zoom = zoom
             /\ \A u \in Threads : u # t => job[u] = NoJob
  <2>1. /\ \A u \in Threads : u # t => job[u] = NoJob
        /\ job[t].zoom = zoom
        /\ job[t].ch = chosen \/ (job[t].ch = Current /\ mainch = chosen)
      BY <1>7 DEF OpticsInv, OneAtATime
  <2> QED  BY <1>1, <1>4, <1>5, <2>1
<1> QED  BY <1>1, <1>2, <1>3, <1>6, <1>7

LEMMA StepDone ==
    ASSUME OpticsInv, NEW t \in Threads, Step(t)
    PROVE  OpticsInv'
<1> DEFINE j == job[t]
           k == Kind(j.ch)
           b == Base(j.ch)
<1>1. /\ j # NoJob
      /\ IF Head(j.todo) = "fov" THEN UpdateFov(j) ELSE GetBoresight(j)
      /\ job' = [job EXCEPT ![t] = Rest(j)]
      /\ UNCHANGED <<mainch, chosen, zoom, changes, overlapped>>
    BY DEF Step
<1>2. /\ j \in Jobs /\ j.todo # <<>> /\ j.zoom \in Int
      /\ \E c \in Channels : b = SensorBaseAddress(c) /\ Channel(j.ch) = c
      /\ ~overlapped => /\ b = SensorBaseAddress(chosen)
                        /\ Channel(j.ch) = chosen /\ j.zoom = zoom
                        /\ \A u \in Threads : u # t => job[u] = NoJob
    BY <1>1, JobServed
<1>3. /\ k = At(settings, FOVTYPE(b))
      /\ \A s : /\ FovOf(k, s, j.ch, j.zoom) = FovAt(k, s, settings, b, j.zoom)
                /\ BoresightOf(k, s, j.ch, j.zoom) = BoreAt(k, s, settings, b, j.zoom)
    BY SameOptics
<1>4. ~overlapped => k = KindChosen
    BY <1>2, <1>3 DEF KindChosen
<1>5. j = job[t]
    OBVIOUS
<1> HIDE DEF k, b, j
<1>6. /\ Rest(j) \in Jobs
      /\ \/ Rest(j) = NoJob
         \/ Rest(j).todo # <<>> /\ Rest(j).zoom = j.zoom /\ Rest(j).ch = j.ch
      /\ Head(j.todo) \in {"fov", "bore"}
      /\ \A w : w # Head(j.todo) /\ Has(j.todo, w) => Has(Rest(j).todo, w)
    BY <1>2, RestOfJob
<1>7. job \in [Threads -> Jobs] /\ job' \in [Threads -> Jobs] /\ job'[t] = Rest(j)
      /\ \A u \in Threads : u # t => job'[u] = job[u]
    BY <1>1, <1>6, OpticsFacts
<1>8. Working'
    BY <1>6, <1>7 DEF OpticsInv, Working
<1>9. OneAtATime'
  <2> SUFFICES ASSUME ~overlapped, NEW u \in Threads, job'[u] # NoJob
               PROVE  /\ \A x \in Threads : x # u => job'[x] = NoJob
                      /\ job'[u].zoom = zoom
                      /\ job'[u].ch = chosen \/ (job'[u].ch = Current /\ mainch = chosen)
      BY <1>1 DEF OneAtATime
  <2>1. u = t
      BY <1>2, <1>7
  <2>2. job'[u].zoom = j.zoom /\ job'[u].ch = j.ch
      BY <1>6, <1>7, <2>1
  <2>3. /\ j.zoom = zoom
        /\ j.ch = chosen \/ (j.ch = Current /\ mainch = chosen)
      BY <1>1, <1>5 DEF OpticsInv, OneAtATime
  <2> QED  BY <1>2, <1>7, <2>1, <2>2, <2>3
<1>10. ASSUME NEW w, w # Head(j.todo), ~overlapped, Left(w)
       PROVE  Left(w)'
  <2>1. PICK u \in Threads : Has(job[u].todo, w)
      BY <1>10 DEF Left
  <2>2. u = t
    <3> SUFFICES ASSUME u # t
                 PROVE  FALSE
        OBVIOUS
    <3>1. job[u].todo = <<>>
        BY <1>2, <1>10, JobsAre
    <3> QED  BY <2>1, <3>1, ListsHave
  <2>3. Has(job'[t].todo, w)
      BY <1>5, <1>6, <1>7, <1>10, <2>1, <2>2
  <2> QED  BY <2>3 DEF Left
<1>11. PICK c \in Channels : b = SensorBaseAddress(c) /\ Channel(j.ch) = c
    BY <1>2
<1>12. settings \in [Varied -> Int] /\ copy \in [Kinds -> [Varied -> Int]]
    BY OpticsFacts DEF OpticsInv, TypeOK
<1>13. CASE Head(j.todo) = "fov"
  <2>1. /\ IF k \in Kinds
           THEN /\ copy' = [copy EXCEPT ![k] = settings]
                /\ fov' = FovOf(k, settings, j.ch, j.zoom)
                /\ refreshed' = TRUE
           ELSE UNCHANGED <<copy, fov, refreshed>>
        /\ UNCHANGED <<settings, bore>>
      BY <1>1, <1>13 DEF UpdateFov, Refreshed, k
  <2>2. k \in Kinds => /\ fov' = FovAt(k, settings, settings, b, j.zoom)
                       /\ fov' \in Int
    <3> SUFFICES ASSUME k \in Kinds
                 PROVE  fov' = FovAt(k, settings, settings, b, j.zoom) /\ fov' \in Int
        OBVIOUS
    <3>1. fov' = FovAt(k, settings, settings, b, j.zoom)
        BY <1>3, <2>1
    <3> QED  BY <1>2, <1>11, <1>12, <3>1, OpticsTyped
  <2>3. /\ copy' \in [Kinds -> [Varied -> Int]] /\ fov' \in Int /\ refreshed' \in BOOLEAN
    <3>1. CASE k \in Kinds
        BY <1>12, <2>1, <2>2, <3>1
    <3>2. CASE k \notin Kinds
        BY <2>1, <3>2 DEF OpticsInv, TypeOK
    <3> QED  BY <3>1, <3>2
  <2>4. TypeOK'
      BY <1>1, <1>7, <2>1, <2>3 DEF OpticsInv, TypeOK
  <2>5. KindChosen' = KindChosen
      BY <1>1, <2>1 DEF KindChosen
  <2>6. FovDone'
    <3> SUFFICES ASSUME ~overlapped
                 PROVE  FovRight'
        BY <1>1 DEF FovDone
    <3> QED  BY <1>1, <1>2, <1>4, <2>1, <2>2, <2>5 DEF FovRight
  <2>7. BoreDone'
    <3> SUFFICES ASSUME ~overlapped, ~Left("bore")'
                 PROVE  BoreRight'
        BY <1>1 DEF BoreDone
    <3>1. BoreRight
        BY <1>10, <1>13 DEF OpticsInv, BoreDone
    <3> QED  BY <1>1, <2>1, <2>5, <3>1 DEF BoreRight
  <2> QED  BY <1>8, <1>9, <2>4, <2>6, <2>7 DEF OpticsInv
<1>14. CASE Head(j.todo) = "bore"
  <2> DEFINE v == IF k \in Kinds THEN BoresightOf(k, copy[k], j.ch, j.zoom) ELSE Unknown
  <2>1. /\ bore' = [value |-> v, ch |-> c]
        /\ UNCHANGED <<copy, fov, refreshed, settings>>
      BY <1>1, <1>11, <1>14 DEF GetBoresight, k
  <2>2. k \in Kinds => /\ v = BoreAt(k, copy[k], settings, b, j.zoom)
                       /\ v \in Int
    <3> SUFFICES ASSUME k \in Kinds
                 PROVE  v = BoreAt(k, copy[k], settings, b, j.zoom) /\ v \in Int
        OBVIOUS
    <3>1. v = BoreAt(k, copy[k], settings, b, j.zoom) /\ copy[k] \in [Varied -> Int]
        BY <1>3, <1>12
    <3> QED  BY <1>2, <1>11, <1>12, <3>1, OpticsTyped
  <2>3. v \in Int
      BY <2>2 DEF Unknown
  <2> HIDE DEF v
  <2>4. TypeOK'
      BY <1>1, <1>7, <2>1, <2>3 DEF OpticsInv, TypeOK
  <2>5. KindChosen' = KindChosen
      BY <1>1, <2>1 DEF KindChosen
  <2>6. FovDone'
    <3> SUFFICES ASSUME ~overlapped, refreshed', ~Left("fov")'
                 PROVE  FovRight'
        BY <1>1 DEF FovDone
    <3>1. FovRight
        BY <1>10, <1>14, <2>1 DEF OpticsInv, FovDone
    <3> QED  BY <1>1, <2>1, <2>5, <3>1 DEF FovRight
  <2>7. BoreDone'
    <3> SUFFICES ASSUME ~overlapped, k \in 0 .. 1
                 PROVE  bore'.value = BoreAt(k, settings, settings,
                                             SensorBaseAddress(chosen), zoom)
        BY <1>1, <1>4, <2>1, <2>5 DEF BoreDone, BoreRight
    <3>1. k = 0 \/ k = 1
        OBVIOUS
    <3>2. bore'.value = BoreAt(k, copy[k], settings, b, zoom)
        BY <1>2, <2>1, <2>2, <3>1 DEF Kinds
    <3>3. BoreAt(k, copy[k], settings, b, zoom) = BoreAt(k, settings, settings, b, zoom)
        BY <3>1 DEF BoreAt
    <3> QED  BY <1>2, <3>2, <3>3
  <2> QED  BY <1>8, <1>9, <2>4, <2>6, <2>7 DEF OpticsInv
<1> QED  BY <1>6, <1>13, <1>14

\* The invariant holds at first and every step keeps it.
LEMMA OpticsStart ==
    ASSUME Init
    PROVE  OpticsInv
<1> DEFINE given == [a \in Varied |-> Given[a]]
<1>1. /\ settings = given
      /\ mainch \in Channels /\ chosen = mainch
      /\ copy = [k \in Kinds |-> IF k = Kind(Current) THEN given
                                 ELSE [a \in Varied |-> Unknown]]
      /\ fov = IF Kind(Current) = 0 THEN FovOf(0, given, mainch, 0) ELSE Unknown
      /\ bore = [value |-> Unknown, ch |-> Current]
      /\ zoom = 0 /\ job = [t \in Threads |-> NoJob]
      /\ refreshed = FALSE /\ changes = 0 /\ overlapped = FALSE
    BY DEF Init
<1>2. /\ given \in [Varied -> Nat] /\ given \in [Varied -> Int]
      /\ \A a \in Varied : given[a] \in {Given[a]}
    BY OpticsAssumption
<1>3. [a \in Varied |-> Unknown] \in [Varied -> Int]
    BY DEF Unknown
<1> DEFINE unknown == [a \in Varied |-> Unknown]
<1> HIDE DEF given, unknown
<1>4. copy \in [Kinds -> [Varied -> Int]]
  <2>1. copy = [k \in Kinds |-> IF k = Kind(Current) THEN given ELSE unknown]
      BY <1>1 DEF unknown
  <2>2. unknown \in [Varied -> Int]
      BY <1>3 DEF unknown
  <2> QED  BY <1>2, <2>1, <2>2
<1>5. fov \in Int
  <2>1. FovOf(0, given, mainch, 0) = FovAt(0, given, settings, SensorBaseAddress(mainch), 0)
      BY <1>1, SameOptics, BaseIs
  <2>2. 0 \in Kinds /\ 0 \in Int
      BY DEF Kinds
  <2>3. FovAt(0, given, settings, SensorBaseAddress(mainch), 0) \in Int
      BY <1>1, <1>2, <2>2, OpticsTyped
  <2> QED  BY <1>1, <2>1, <2>3 DEF Unknown
<1>6. job \in [Threads -> Jobs]
    BY <1>1, JobsAre
<1>7. bore \in [value : Int, ch : Channels \cup {Current}]
    BY <1>1 DEF Unknown
<1>8. refreshed \in BOOLEAN /\ overlapped \in BOOLEAN
    BY <1>1
<1>9. changes \in 0 .. MaxChanges
    BY <1>1, OpticsAssumption
<1>10. TypeOK
    BY <1>1, <1>2, <1>4, <1>5, <1>6, <1>7, <1>8, <1>9 DEF TypeOK
<1>11. Working /\ OneAtATime
    BY <1>1 DEF Working, OneAtATime
<1>12. BoreRight
    BY <1>1, CurrentIsNone DEF BoreRight
<1> QED  BY <1>1, <1>10, <1>11, <1>12 DEF OpticsInv, FovDone, BoreDone

LEMMA OpticsKeep ==
    ASSUME OpticsInv, [Next]_vars
    PROVE  OpticsInv'
<1>1. CASE UNCHANGED vars
  <2>1. UNCHANGED <<settings, mainch, chosen, copy, fov, bore, zoom, job, refreshed,
                    changes, overlapped>>
      BY <1>1 DEF vars
  <2> QED  BY <2>1 DEF OpticsInv, TypeOK, Working, OneAtATime, FovDone, BoreDone, Left,
              FovRight, BoreRight, KindChosen
<1>2. CASE Next
    BY <1>2, SettingsSet, SensorSwitched, ImageHasSwitched, ZoomMoves, StepDone DEF Next
<1> QED  BY <1>1, <1>2

OpticsPart == part = "optics" => OpticsInv

\* The optics among the parts.
LEMMA OpticsPartStarts == InitPart => OpticsPart
BY OpticsStart DEF InitPart, OpticsPart

LEMMA OpticsPartKeeps == OpticsPart /\ [NextOfPart]_allVars => OpticsPart'
<1> SUFFICES ASSUME OpticsPart, [NextOfPart]_allVars
             PROVE  OpticsPart'
    OBVIOUS
<1>1. UNCHANGED part
    BY DEF NextOfPart, allVars
<1>2. part = "optics" => [Next]_vars
    BY DEF NextOfPart, allVars
<1> QED  BY <1>1, <1>2, OpticsKeep DEF OpticsPart

\* When no thread is at work, the field of view and the boresight are what the settings
\* give for the input and the zoom (sensorComp.cpp), for every table and every sequence
\* of settings, inputs and zooms of which one was done with before the next.
THEOREM OpticsFollowSettings == SpecOfParts => []OpticsFollow
<1>1. OpticsPart => OpticsFollow
    BY OpticsShow DEF OpticsPart, OpticsFollow
<1> QED  BY <1>1, OpticsPartStarts, OpticsPartKeeps, PTL DEF SpecOfParts

(***************************************************************************)
(* All parts.                                                              *)
(***************************************************************************)
PartNames == {"optics", "platform", "ptz", "packets"}

PartsInv == part \in PartNames /\ OpticsPart /\ PlatformPart /\ UnitPart /\ PacketsPart

LEMMA PartsShow == PartsInv => TypesOK
<1> SUFFICES ASSUME PartsInv
             PROVE  TypesOK
    OBVIOUS
<1>1. part = "optics" => TypeOK
    BY OpticsShow DEF PartsInv, OpticsPart
<1>2. part = "platform" => Plat!TypeOK
    BY PlatformShows DEF PartsInv, PlatformPart
<1>3. part = "ptz" => Unit!TypeOK
    BY UnitTypesParts DEF PartsInv, UnitPart, UnitInv
<1>4. part = "packets" => Packets!TypeOK
    BY PacketsShow DEF PartsInv, PacketsPart
<1> QED  BY <1>1, <1>2, <1>3, <1>4 DEF PartsInv, PartNames, TypesOK

\* Every variable of every part has its type, whatever is set, sent, lost or switched
\* (sensorComp.cpp, platformControl.cpp, PTZ_control.cpp, pelcoDformat.cpp): levels
\* stay in their tables, sums and speeds are numbers, packets have bytes.
THEOREM PartsTyped == SpecOfParts => []TypesOK
<1>1. InitPart => PartsInv
  <2> SUFFICES ASSUME InitPart
               PROVE  PartsInv
      OBVIOUS
  <2>1. part \in PartNames
      BY DEF InitPart, PartNames
  <2> QED  BY <2>1, MotionAssumption, OpticsPartStarts, PlatformPartStarts, UnitPartStarts,
              PacketsPartStarts DEF PartsInv
<1>2. PartsInv /\ [NextOfPart]_allVars => PartsInv'
  <2> SUFFICES ASSUME PartsInv, [NextOfPart]_allVars
               PROVE  PartsInv'
      OBVIOUS
  <2>1. part' \in PartNames
      BY DEF PartsInv, NextOfPart, allVars
  <2> QED  BY <2>1, MotionAssumption, OpticsPartKeeps, PlatformPartKeeps, UnitPartKeeps,
              PacketsPartKeeps DEF PartsInv
<1> QED  BY <1>1, <1>2, PartsShow, PTL DEF SpecOfParts
=============================================================================
