--------------------------- MODULE CommandsProofs ---------------------------
(***************************************************************************)
(* Theorems about Commands, for every frame, noise, press, report, setting *)
(* and number of links.  One section for each part: the lemmas about its   *)
(* operators, its inductive invariant, one lemma for each action; the last *)
(* section puts the parts together and states the theorems.                *)
(***************************************************************************)
EXTENDS Commands, RequestsProofs, FiniteSetTheorems, SequenceTheorems

(***************************************************************************)
(* Sequences that lose their first element, or get one more.               *)
(***************************************************************************)

\* A sequence without its first element, and with one more.
LEMMA Without ==
    ASSUME NEW S, NEW s \in Seq(S), s # <<>>
    PROVE  /\ Head(s) \in S /\ Tail(s) \in Seq(S) /\ Len(s) \in Nat \ {0}
           /\ Len(Tail(s)) = Len(s) - 1
           /\ DOMAIN s = 1 .. Len(s) /\ DOMAIN Tail(s) = 1 .. Len(s) - 1
           /\ Head(s) = s[1]
           /\ \A i \in 1 .. Len(s) - 1 : Tail(s)[i] = s[i + 1]
<1>1. Head(s) \in S /\ Tail(s) \in Seq(S) /\ Len(Tail(s)) = Len(s) - 1 /\ Head(s) = s[1]
      /\ \A i \in 1 .. Len(Tail(s)) : Tail(s)[i] = s[i + 1]
    BY HeadTailProperties
<1>2. Len(s) \in Nat \ {0} /\ DOMAIN s = 1 .. Len(s)
    BY EmptySeq, LenProperties
<1>3. DOMAIN Tail(s) = 1 .. Len(Tail(s))
    BY <1>1, LenProperties
<1> QED  BY <1>1, <1>2, <1>3

\* A sequence with one more element.
LEMMA With ==
    ASSUME NEW S, NEW s \in Seq(S), NEW x \in S
    PROVE  /\ Append(s, x) \in Seq(S) /\ Len(s) \in Nat /\ Len(Append(s, x)) = Len(s) + 1
           /\ DOMAIN s = 1 .. Len(s) /\ DOMAIN Append(s, x) = 1 .. Len(s) + 1
           /\ Append(s, x)[Len(s) + 1] = x
           /\ \A i \in 1 .. Len(s) : Append(s, x)[i] = s[i]
<1>1. /\ Append(s, x) \in Seq(S) /\ Len(Append(s, x)) = Len(s) + 1
      /\ Append(s, x)[Len(s) + 1] = x
      /\ \A i \in 1 .. Len(s) : Append(s, x)[i] = s[i]
    BY AppendProperties
<1>2. Len(s) \in Nat /\ DOMAIN s = 1 .. Len(s)
    BY LenProperties
<1>3. DOMAIN Append(s, x) = 1 .. Len(Append(s, x))
    BY <1>1, LenProperties
<1> QED  BY <1>1, <1>2, <1>3

(***************************************************************************)
(* Bytes and sums, which both protocols share.                             *)
(***************************************************************************)

\* Frames of either protocol: a head of two bytes, a length of two, the content and
\* its sum.
Octets == 0 .. 255
Framed(head, length, content, sum) == head \o length \o content \o <<sum>>

\* Bytes in which no head is to be found, and that do not end in the first byte of one.
Quiet(head, bytes) ==
    /\ \A i \in 2 .. Len(bytes) : <<bytes[i-1], bytes[i]>> # head
    /\ bytes # <<>> => bytes[Len(bytes)] # head[1]

Pairs == {p \in Seq(Octets) : Len(p) = 2}

\* What a frame consists of.
IsFrame(bytes, head, length, content, sum) ==
    /\ bytes \in Seq(Octets) /\ Len(bytes) = Len(content) + 5
    /\ bytes[1] = head[1] /\ bytes[2] = head[2]
    /\ bytes[3] = length[1] /\ bytes[4] = length[2]
    /\ \A i \in 1 .. Len(content) : bytes[i + 4] = content[i]
    /\ bytes[Len(content) + 5] = sum

\* The bytes of a frame, by their places.
LEMMA FramedIs ==
    ASSUME NEW h \in Pairs, NEW l \in Pairs, NEW c \in Seq(Octets), NEW s \in Octets
    PROVE  IsFrame(Framed(h, l, c, s), h, l, c, s)
<1> DEFINE a == h \o l
<1> DEFINE b == a \o c
<1> DEFINE t == <<s>>
<1> DEFINE n == Len(c)
<1>1. h \in Seq(Octets) /\ Len(h) = 2 /\ l \in Seq(Octets) /\ Len(l) = 2 /\ n \in Nat
    BY LenProperties DEF Pairs
<1>2. /\ a \in Seq(Octets) /\ Len(a) = 4
      /\ \A i \in 1 .. 4 : a[i] = IF i <= 2 THEN h[i] ELSE l[i - 2]
  <2>1. /\ h \o l \in Seq(Octets) /\ Len(h \o l) = Len(h) + Len(l)
        /\ \A i \in 1 .. Len(h) + Len(l) : (h \o l)[i] = IF i <= Len(h) THEN h[i] ELSE l[i - Len(h)]
      BY <1>1, ConcatProperties
  <2>2. Len(h) + Len(l) = 4
      BY <1>1
  <2> QED  BY <1>1, <2>1, <2>2
<1>3. t \in Seq(Octets) /\ Len(t) = 1 /\ t[1] = s
    OBVIOUS
<1> HIDE DEF a, t
<1>4. /\ b \in Seq(Octets) /\ Len(b) = n + 4
      /\ \A i \in 1 .. n + 4 : b[i] = IF i <= 4 THEN a[i] ELSE c[i - 4]
  <2>1. /\ a \o c \in Seq(Octets) /\ Len(a \o c) = Len(a) + Len(c)
        /\ \A i \in 1 .. Len(a) + Len(c) : (a \o c)[i] = IF i <= Len(a) THEN a[i] ELSE c[i - Len(a)]
      BY <1>2, ConcatProperties
  <2>2. Len(a) + Len(c) = n + 4
      BY <1>1, <1>2
  <2> QED  BY <1>1, <1>2, <2>1, <2>2
<1> HIDE DEF b
<1>5. /\ b \o t \in Seq(Octets) /\ Len(b \o t) = n + 5
      /\ \A i \in 1 .. n + 5 : (b \o t)[i] = IF i <= n + 4 THEN b[i] ELSE t[i - (n + 4)]
  <2>1. /\ b \o t \in Seq(Octets) /\ Len(b \o t) = Len(b) + Len(t)
        /\ \A i \in 1 .. Len(b) + Len(t) : (b \o t)[i] = IF i <= Len(b) THEN b[i] ELSE t[i - Len(b)]
      BY <1>3, <1>4, ConcatProperties
  <2>2. Len(b) + Len(t) = n + 5
      BY <1>1, <1>3, <1>4
  <2> QED  BY <1>1, <1>3, <1>4, <2>1, <2>2
<1>6. Framed(h, l, c, s) = b \o t
    BY DEF Framed, a, b, t
<1> HIDE DEF n
<1>7. \A i \in 1 .. n : (b \o t)[i + 4] = c[i]
  <2> TAKE i \in 1 .. n
  <2>1. (b \o t)[i + 4] = b[i + 4]
      BY <1>1, <1>5
  <2>2. b[i + 4] = c[i]
      BY <1>1, <1>4
  <2> QED  BY <2>1, <2>2
<1>8. /\ (b \o t)[1] = a[1] /\ (b \o t)[2] = a[2] /\ (b \o t)[3] = a[3] /\ (b \o t)[4] = a[4]
    BY <1>1, <1>4, <1>5
<1>9. a[1] = h[1] /\ a[2] = h[2] /\ a[3] = l[1] /\ a[4] = l[2]
    BY <1>2
<1>10. (b \o t)[n + 5] = s
    BY <1>1, <1>3, <1>5
<1>11. IsFrame(b \o t, h, l, c, s)
    BY <1>5, <1>7, <1>8, <1>9, <1>10 DEF n, IsFrame
<1> QED  BY <1>6, <1>11

\* Taking a byte moves it from what is on its way to what has been collected.
LEMMA Moved ==
    ASSUME NEW S, NEW m \in Seq(S), NEW w \in Seq(S), w # <<>>
    PROVE  /\ Append(m, Head(w)) \in Seq(S) /\ Tail(w) \in Seq(S)
           /\ Len(Append(m, Head(w))) = Len(m) + 1 /\ Len(Tail(w)) = Len(w) - 1
           /\ Append(m, Head(w)) \o Tail(w) = m \o w
<1>1. /\ Head(w) \in S /\ Tail(w) \in Seq(S) /\ Len(w) \in Nat \ {0} /\ Len(Tail(w)) = Len(w) - 1
      /\ Head(w) = w[1] /\ \A i \in 1 .. Len(w) - 1 : Tail(w)[i] = w[i + 1]
    BY Without
<1> DEFINE b == Head(w)
<1> DEFINE t == Tail(w)
<1> DEFINE f == Append(m, b)
<1> HIDE DEF b, t
<1>2. /\ f \in Seq(S) /\ Len(m) \in Nat /\ Len(f) = Len(m) + 1 /\ f[Len(m) + 1] = b
      /\ \A i \in 1 .. Len(m) : f[i] = m[i]
    BY <1>1, With DEF b
<1> HIDE DEF f
<1>3. /\ f \o t \in Seq(S) /\ Len(f \o t) = Len(f) + Len(t)
      /\ \A i \in 1 .. Len(f) + Len(t) : (f \o t)[i] = IF i <= Len(f) THEN f[i] ELSE t[i - Len(f)]
    BY <1>1, <1>2, ConcatProperties DEF t
<1>4. /\ m \o w \in Seq(S) /\ Len(m \o w) = Len(m) + Len(w)
      /\ \A i \in 1 .. Len(m) + Len(w) : (m \o w)[i] = IF i <= Len(m) THEN m[i] ELSE w[i - Len(m)]
    BY ConcatProperties
<1>5. b = w[1] /\ Len(t) = Len(w) - 1 /\ \A i \in 1 .. Len(w) - 1 : t[i] = w[i + 1]
    BY <1>1 DEF b, t
<1>6. \A i \in 1 .. Len(m) + Len(w) : (f \o t)[i] = (m \o w)[i]
  <2> TAKE i \in 1 .. Len(m) + Len(w)
  <2>1. CASE i <= Len(m)
      BY <1>1, <1>2, <1>3, <1>4, <1>5, <2>1
  <2>2. CASE i = Len(m) + 1
      BY <1>1, <1>2, <1>3, <1>4, <1>5, <2>2
  <2>3. CASE i # Len(m) + 1 /\ ~(i <= Len(m))
    <3>1. (f \o t)[i] = t[i - (Len(m) + 1)] /\ i - (Len(m) + 1) \in 1 .. Len(w) - 1
        BY <1>1, <1>2, <1>3, <1>5, <2>3
    <3>2. t[i - (Len(m) + 1)] = w[i - Len(m)]
        BY <1>1, <1>2, <1>5, <3>1
    <3> QED  BY <1>1, <1>2, <1>4, <2>3, <3>1, <3>2
  <2> QED  BY <2>1, <2>2, <2>3
<1>7. Len(f \o t) = Len(m \o w)
    BY <1>1, <1>2, <1>3, <1>4, <1>5
<1>8. f \o t = m \o w
    BY <1>3, <1>4, <1>6, <1>7, SeqEqual
<1> QED  BY <1>1, <1>2, <1>8 DEF b, t, f

\* The next byte b of a frame of which m has been collected and t is to come.
GoesOn(F, h, l, c, s, m, b, t) ==
    LET f == Append(m, b) IN
    /\ f \in Seq(Octets) /\ f \o t = F
    /\ Len(m) = 0 => b = h[1]
    /\ Len(m) = 1 => b = h[2]
    /\ Len(f) = Len(m) + 1 /\ Len(f) <= Len(c) + 5
    /\ t = <<>> <=> Len(f) = Len(c) + 5
    /\ Len(f) >= 4 => f[3] = l[1] /\ f[4] = l[2]
    /\ Len(f) = Len(c) + 5 => SubSeq(f, 5, Len(f) - 1) = c /\ b = s

\* The next byte of a frame.
LEMMA FramedNext ==
    ASSUME NEW h \in Pairs, NEW l \in Pairs, NEW c \in Seq(Octets), NEW s \in Octets,
           NEW F, IsFrame(F, h, l, c, s),
           NEW m \in Seq(Octets), NEW w \in Seq(Octets), w # <<>>, F = m \o w
    PROVE  GoesOn(F, h, l, c, s, m, Head(w), Tail(w))
<1> DEFINE f == Append(m, Head(w))
<1>1. /\ F \in Seq(Octets) /\ Len(F) = Len(c) + 5 /\ F[1] = h[1] /\ F[2] = h[2]
      /\ F[3] = l[1] /\ F[4] = l[2]
      /\ \A i \in 1 .. Len(c) : F[i + 4] = c[i]
      /\ F[Len(c) + 5] = s
    BY DEF IsFrame
<1>2. /\ f \in Seq(Octets) /\ Tail(w) \in Seq(Octets) /\ Len(m) \in Nat
      /\ Len(f) = Len(m) + 1 /\ Len(Tail(w)) = Len(w) - 1 /\ Len(w) \in Nat \ {0}
      /\ f \o Tail(w) = F
    BY Moved, Without, LenProperties
<1>3. /\ Len(F) = Len(f) + Len(Tail(w))
      /\ \A i \in 1 .. Len(f) : F[i] = f[i]
    BY <1>2, ConcatProperties
<1>4. Head(w) \in Octets
    BY Without
<1>5. f[Len(m) + 1] = Head(w)
    BY <1>4, With
<1> HIDE DEF f
<1>6. F[Len(m) + 1] = Head(w)
    BY <1>2, <1>3, <1>5
<1>7. Len(c) \in Nat
    BY LenProperties
<1>8. Tail(w) = <<>> <=> Len(f) = Len(c) + 5
  <2>1. Tail(w) = <<>> <=> Len(Tail(w)) = 0
      BY <1>2, EmptySeq
  <2>2. Len(c) + 5 = Len(f) + Len(Tail(w))
      BY <1>1, <1>3
  <2>3. Len(f) \in Nat /\ Len(Tail(w)) \in Nat
      BY <1>2
  <2> DEFINE k == Len(Tail(w))
  <2> DEFINE n == Len(f)
  <2> DEFINE p == Len(c)
  <2> HIDE DEF k, n, p
  <2>a. k \in Nat /\ n \in Nat /\ p \in Nat /\ p + 5 = n + k
      BY <1>7, <2>2, <2>3 DEF k, n, p
  <2>b. k = 0 <=> n = p + 5
      BY <2>a
  <2>4. Len(Tail(w)) = 0 <=> Len(f) = Len(c) + 5
      BY <2>b DEF k, n, p
  <2> QED  BY <2>1, <2>4
<1>9. ASSUME Len(f) = Len(c) + 5
      PROVE  SubSeq(f, 5, Len(f) - 1) = c /\ Head(w) = s
  <2>1. ASSUME NEW i \in 1 .. Len(c)
        PROVE  f[i + 4] = c[i]
    <3>1. i + 4 \in 1 .. Len(c) + 5
        BY <1>7
    <3>2. F[i + 4] = f[i + 4]
        BY <1>3, <1>9, <3>1
    <3> QED  BY <1>1, <3>2
  <2>2. \A i \in 5 .. Len(f) - 1 : f[i] \in Octets
      BY <1>2, <1>7, <1>9, ElementOfSeq
  <2>3. /\ SubSeq(f, 5, Len(f) - 1) \in Seq(Octets)
        /\ Len(SubSeq(f, 5, Len(f) - 1)) = IF 5 <= Len(f) - 1 THEN Len(f) - 1 - 5 + 1 ELSE 0
        /\ \A i \in 1 .. Len(f) - 1 - 5 + 1 : SubSeq(f, 5, Len(f) - 1)[i] = f[5 + i - 1]
      BY <1>7, <1>9, <2>2, SubSeqProperties
  <2> DEFINE g == SubSeq(f, 5, Len(f) - 1)
  <2>4. g \in Seq(Octets) /\ Len(g) = Len(c) /\ \A i \in 1 .. Len(c) : g[i] = f[i + 4]
      BY <1>7, <1>9, <2>3
  <2> HIDE DEF g
  <2>5. g = c
      BY <2>1, <2>4, SeqEqual
  <2> QED  BY <1>1, <1>2, <1>6, <1>7, <1>9, <2>5 DEF g
<1>10. /\ Len(m) = 0 => Head(w) = h[1]
       /\ Len(m) = 1 => Head(w) = h[2]
  <2>1. CASE Len(m) = 0
      BY <1>1, <1>6, <2>1
  <2>2. CASE Len(m) = 1
      BY <1>1, <1>6, <2>2
  <2> QED  BY <2>1, <2>2
<1>11. Len(f) >= 4 => f[3] = l[1] /\ f[4] = l[2]
    BY <1>1, <1>2, <1>3
<1>12. Len(f) <= Len(c) + 5
    BY <1>1, <1>2, <1>3, <1>7
<1> QED  BY <1>2, <1>8, <1>9, <1>10, <1>11, <1>12 DEF f, GoesOn

\* The next byte of noise: what is behind it is noise, and after the first byte of a
\* head the second does not follow.
LEMMA QuietNext ==
    ASSUME NEW h \in Pairs, NEW m \in Seq(Octets), NEW w \in Seq(Octets), w # <<>>,
           Quiet(h, m \o w), NEW f, f = Append(m, Head(w))
    PROVE  /\ Quiet(h, Tail(w)) /\ Quiet(h, f \o Tail(w))
           /\ Len(m) = 1 /\ m[1] = h[1] => Head(w) # h[2]
<1> DEFINE n == m \o w
<1> DEFINE t == Tail(w)
<1>1. /\ Head(w) \in Octets /\ t \in Seq(Octets) /\ Len(w) \in Nat \ {0} /\ Len(t) = Len(w) - 1
      /\ Head(w) = w[1] /\ \A i \in 1 .. Len(w) - 1 : t[i] = w[i + 1]
    BY Without
<1>2. /\ n \in Seq(Octets) /\ Len(n) = Len(m) + Len(w)
      /\ \A i \in 1 .. Len(m) + Len(w) : n[i] = IF i <= Len(m) THEN m[i] ELSE w[i - Len(m)]
    BY ConcatProperties
<1>3. f \o t = n
    BY Moved
<1>4. Len(m) \in Nat
    BY LenProperties
<1>5. Quiet(h, n)
    OBVIOUS
<1> HIDE DEF n, t
<1>6. \A i \in 2 .. Len(n) : <<n[i-1], n[i]>> # h
    BY <1>5 DEF Quiet
<1>7. n # <<>> => n[Len(n)] # h[1]
    BY <1>5 DEF Quiet
<1>8. \A i \in 1 .. Len(t) : t[i] = n[i + Len(m) + 1] /\ i + Len(m) + 1 \in 2 .. Len(n)
  <2> TAKE i \in 1 .. Len(t)
  <2>1. t[i] = w[i + 1]
      BY <1>1
  <2>2. i + Len(m) + 1 \in 2 .. Len(n)
      BY <1>1, <1>2, <1>4
  <2>3. n[i + Len(m) + 1] = w[i + Len(m) + 1 - Len(m)]
      BY <1>1, <1>2, <1>4, <2>2
  <2>4. i + Len(m) + 1 - Len(m) = i + 1
      BY <1>4
  <2> QED  BY <2>1, <2>2, <2>3, <2>4
<1>9. Quiet(h, t)
  <2>1. ASSUME NEW i \in 2 .. Len(t)
        PROVE  <<t[i-1], t[i]>> # h
    <3>1. i \in Int /\ i - 1 \in 1 .. Len(t) /\ i \in 1 .. Len(t)
        BY <1>1, <2>1
    <3>2. t[i-1] = n[(i - 1) + Len(m) + 1] /\ t[i] = n[i + Len(m) + 1]
        BY <1>8, <3>1
    <3>3. (i - 1) + Len(m) + 1 = (i + Len(m) + 1) - 1
        BY <1>4, <3>1
    <3>4. i + Len(m) + 1 \in 2 .. Len(n)
        BY <1>8, <3>1
    <3> QED  BY <1>6, <3>2, <3>3, <3>4
  <2>2. ASSUME t # <<>>
        PROVE  t[Len(t)] # h[1]
    <3>1. Len(t) \in 1 .. Len(t)
        BY <1>1, <2>2, EmptySeq
    <3>2. t[Len(t)] = n[Len(t) + Len(m) + 1]
        BY <1>8, <3>1
    <3>a. Len(t) + Len(m) + 1 = Len(n)
        BY <1>1, <1>2, <1>4
    <3>3. n # <<>>
        BY <1>1, <1>2, <1>4, EmptySeq
    <3> QED  BY <1>7, <3>2, <3>a, <3>3
  <2> QED  BY <2>1, <2>2 DEF Quiet
<1>10. ASSUME Len(m) = 1, m[1] = h[1], Head(w) = h[2]
       PROVE  FALSE
  <2>1. n[1] = h[1] /\ n[2] = h[2] /\ 2 \in 2 .. Len(n)
      BY <1>1, <1>2, <1>10
  <2>2. h = <<h[1], h[2]>>
      BY DEF Pairs
  <2>3. <<n[2-1], n[2]>> # h
      BY <1>6, <2>1
  <2> QED  BY <2>1, <2>2, <2>3
<1> QED  BY <1>3, <1>5, <1>9, <1>10 DEF n, t

\* When noise is used up, nothing of it is kept.
LEMMA QuietEnd ==
    ASSUME NEW h, NEW m \in Seq(Octets), Quiet(h, m \o <<>>), Len(m) < 2,
           m # <<>> => m[1] = h[1]
    PROVE  m = <<>>
<1>1. m \o <<>> = m
    BY ConcatEmptySeq
<1>2. SUFFICES ASSUME m # <<>> PROVE FALSE
    OBVIOUS
<1>a. Len(m) \in Nat \ {0}
  <2>1. \A q \in Seq(Octets) : q # <<>> => Len(q) \in Nat \ {0}
      BY EmptySeq
  <2> QED  BY <1>2, <2>1
<1>3. Len(m) = 1
  <2> DEFINE k == Len(m)
  <2>1. k \in Nat \ {0} /\ k < 2
      BY <1>a
  <2> HIDE DEF k
  <2>2. k = 1
      BY <2>1
  <2> QED  BY <2>2 DEF k
<1>4. m[Len(m)] # h[1]
    BY <1>1, <1>2 DEF Quiet
<1> QED  BY <1>2, <1>3, <1>4

\* The sum of a frame is a byte, and a spoilt one is another byte.
OddOnes(c, w) == Cardinality({i \in DOMAIN c : (c[i] \div w) % 2 = 1}) % 2
Binary == {0, 1}

\* A bit of the sum is 0 or 1.
LEMMA Weights ==
    ASSUME NEW c \in Seq(Octets), NEW w
    PROVE  OddOnes(c, w) \in Binary
<1> DEFINE T == {i \in DOMAIN c : (c[i] \div w) % 2 = 1}
<1>1. Len(c) \in Nat /\ DOMAIN c = 1 .. Len(c)
    BY LenProperties
<1>2. IsFiniteSet(1 .. Len(c))
    BY <1>1, FS_Interval
<1>3. T \in SUBSET (1 .. Len(c))
    BY <1>1
<1>4. IsFiniteSet(T)
    BY <1>2, <1>3, FS_Subset
<1>5. Cardinality(T) \in Nat
    BY <1>4, FS_CardinalityType
<1> HIDE DEF T
<1>6. Cardinality(T) % 2 \in {0, 1}
    BY <1>5
<1> QED  BY <1>6 DEF T, OddOnes, Binary

\* A byte with its last bit turned is another byte.
LEMMA OtherSum ==
    ASSUME NEW s \in Octets
    PROVE  (IF s % 2 = 0 THEN s + 1 ELSE s - 1) \in Octets \ {s}
<1>1. s \in Int /\ 0 <= s /\ s <= 255
    BY DEF Octets
<1>2. CASE s % 2 = 0
  <2>1. s # 255
      BY <1>2
  <2> QED  BY <1>1, <1>2, <2>1 DEF Octets
<1>3. CASE s % 2 # 0
  <2>1. s # 0
      BY <1>3
  <2> QED  BY <1>1, <1>3, <2>1 DEF Octets
<1> QED  BY <1>2, <1>3

\* So are the sums of the links, and of the serial line.
LEMMA FrameSums ==
    ASSUME NEW c \in Seq(Octets)
    PROVE  /\ Frames!recvcheck_sum(c) \in Octets
           /\ Frames!Spoilt(Frames!recvcheck_sum(c)) \in Octets \ {Frames!recvcheck_sum(c)}
<1>1. \A w : OddOnes(c, w) \in Binary
    BY Weights
<1>2. \A w : Frames!XorBit(c, w) = w * OddOnes(c, w)
    BY DEF Frames!XorBit, Frames!BitOf, Frames!Cardinality, Cardinality, OddOnes
<1>3. Frames!recvcheck_sum(c) =
            1 * OddOnes(c, 1) + 2 * OddOnes(c, 2) + 4 * OddOnes(c, 4) + 8 * OddOnes(c, 8)
            + 16 * OddOnes(c, 16) + 32 * OddOnes(c, 32) + 64 * OddOnes(c, 64) + 128 * OddOnes(c, 128)
  <2>1. /\ Frames!XorBit(c, 1) = 1 * OddOnes(c, 1) /\ Frames!XorBit(c, 2) = 2 * OddOnes(c, 2)
        /\ Frames!XorBit(c, 4) = 4 * OddOnes(c, 4) /\ Frames!XorBit(c, 8) = 8 * OddOnes(c, 8)
        /\ Frames!XorBit(c, 16) = 16 * OddOnes(c, 16) /\ Frames!XorBit(c, 32) = 32 * OddOnes(c, 32)
        /\ Frames!XorBit(c, 64) = 64 * OddOnes(c, 64)
        /\ Frames!XorBit(c, 128) = 128 * OddOnes(c, 128)
      BY <1>2
  <2> QED  BY <2>1 DEF Frames!recvcheck_sum, Frames!Xor
<1>4. Frames!recvcheck_sum(c) \in Octets
  <2>1. /\ OddOnes(c, 1) \in Binary /\ OddOnes(c, 2) \in Binary
        /\ OddOnes(c, 4) \in Binary /\ OddOnes(c, 8) \in Binary
        /\ OddOnes(c, 16) \in Binary /\ OddOnes(c, 32) \in Binary
        /\ OddOnes(c, 64) \in Binary /\ OddOnes(c, 128) \in Binary
      BY <1>1
  <2> DEFINE a == OddOnes(c, 1)
  <2> DEFINE b == OddOnes(c, 2)
  <2> DEFINE d == OddOnes(c, 4)
  <2> DEFINE e == OddOnes(c, 8)
  <2> DEFINE f == OddOnes(c, 16)
  <2> DEFINE g == OddOnes(c, 32)
  <2> DEFINE h == OddOnes(c, 64)
  <2> DEFINE k == OddOnes(c, 128)
  <2>a. a \in Binary /\ b \in Binary /\ d \in Binary /\ e \in Binary
        /\ f \in Binary /\ g \in Binary /\ h \in Binary /\ k \in Binary
      BY <2>1
  <2> HIDE DEF a, b, d, e, f, g, h, k
  <2>b. 1 * a + 2 * b + 4 * d + 8 * e + 16 * f + 32 * g + 64 * h + 128 * k \in Octets
      BY <2>a DEF Octets, Binary
  <2> QED  BY <1>3, <2>b DEF a, b, d, e, f, g, h, k
<1> QED  BY <1>4, OtherSum DEF Frames!Spoilt

\* The sums of the serial line.
LEMMA LineSums ==
    ASSUME NEW c \in Seq(Octets)
    PROVE  /\ Line803!recvcheck_sum(c) \in Octets
           /\ Line803!Spoilt(Line803!recvcheck_sum(c)) \in Octets \ {Line803!recvcheck_sum(c)}
<1>1. \A w : OddOnes(c, w) \in Binary
    BY Weights
<1>2. \A w : Line803!XorBit(c, w) = w * OddOnes(c, w)
    BY DEF Line803!XorBit, Line803!BitOf, Line803!Cardinality, Cardinality, OddOnes
<1>3. Line803!recvcheck_sum(c) =
            1 * OddOnes(c, 1) + 2 * OddOnes(c, 2) + 4 * OddOnes(c, 4) + 8 * OddOnes(c, 8)
            + 16 * OddOnes(c, 16) + 32 * OddOnes(c, 32) + 64 * OddOnes(c, 64) + 128 * OddOnes(c, 128)
  <2>1. /\ Line803!XorBit(c, 1) = 1 * OddOnes(c, 1) /\ Line803!XorBit(c, 2) = 2 * OddOnes(c, 2)
        /\ Line803!XorBit(c, 4) = 4 * OddOnes(c, 4) /\ Line803!XorBit(c, 8) = 8 * OddOnes(c, 8)
        /\ Line803!XorBit(c, 16) = 16 * OddOnes(c, 16)
        /\ Line803!XorBit(c, 32) = 32 * OddOnes(c, 32)
        /\ Line803!XorBit(c, 64) = 64 * OddOnes(c, 64)
        /\ Line803!XorBit(c, 128) = 128 * OddOnes(c, 128)
      BY <1>2
  <2> QED  BY <2>1 DEF Line803!recvcheck_sum, Line803!Xor
<1>4. Line803!recvcheck_sum(c) \in Octets
  <2>1. /\ OddOnes(c, 1) \in Binary /\ OddOnes(c, 2) \in Binary
        /\ OddOnes(c, 4) \in Binary /\ OddOnes(c, 8) \in Binary
        /\ OddOnes(c, 16) \in Binary /\ OddOnes(c, 32) \in Binary
        /\ OddOnes(c, 64) \in Binary /\ OddOnes(c, 128) \in Binary
      BY <1>1
  <2> DEFINE a == OddOnes(c, 1)
  <2> DEFINE b == OddOnes(c, 2)
  <2> DEFINE d == OddOnes(c, 4)
  <2> DEFINE e == OddOnes(c, 8)
  <2> DEFINE f == OddOnes(c, 16)
  <2> DEFINE g == OddOnes(c, 32)
  <2> DEFINE h == OddOnes(c, 64)
  <2> DEFINE k == OddOnes(c, 128)
  <2>a. a \in Binary /\ b \in Binary /\ d \in Binary /\ e \in Binary
        /\ f \in Binary /\ g \in Binary /\ h \in Binary /\ k \in Binary
      BY <2>1
  <2> HIDE DEF a, b, d, e, f, g, h, k
  <2>b. 1 * a + 2 * b + 4 * d + 8 * e + 16 * f + 32 * g + 64 * h + 128 * k \in Octets
      BY <2>a DEF Octets, Binary
  <2> QED  BY <1>3, <2>b DEF a, b, d, e, f, g, h, k
<1> QED  BY <1>4, OtherSum DEF Line803!Spoilt

\* A length below 256 in its two bytes.
LEMMA TwoBytes ==
    ASSUME NEW n \in Nat, n < 256
    PROVE  n % 256 = n /\ n \div 256 = 0 /\ n \in Octets
BY DEF Octets

(***************************************************************************)
(* The frames of the links: each good one is a command, whatever comes between.*)
(***************************************************************************)

FrameHead == <<235, 83>>

\* What the assumption gives.
LEMMA FramesConstants ==
    /\ Links # {} /\ MaxFrames \in Nat
    /\ \A c \in FrameContents : c \in Seq(Octets) /\ Len(c) < 256
    /\ \A n \in FrameNoise : n \in Seq(Octets) /\ n # <<>> /\ Quiet(FrameHead, n)
    /\ FrameHead \in Pairs /\ Frames!frame_head = FrameHead
    /\ FrameHead[1] = 235 /\ FrameHead[2] = 83
    /\ Frames!AnyLink \in Links
<1>1. Links # {} /\ Frames!ParserAssumption
    BY CommandsAssumption DEF CommandsAssumption, RequestsAssumption
<1>2. MaxFrames \in Nat /\ \A c \in FrameContents : c \in Seq(Octets) /\ Len(c) < 256
    BY <1>1 DEF Frames!ParserAssumption, Octets
<1>3. Frames!frame_head = FrameHead
    BY DEF Frames!frame_head, FrameHead
<1>4. \A n \in FrameNoise : n \in Seq(Octets) /\ n # <<>> /\ Quiet(FrameHead, n)
    BY <1>1, <1>3 DEF Frames!ParserAssumption, Octets, Quiet
<1>5. FrameHead \in Seq(Octets) /\ Len(FrameHead) = 2 /\ FrameHead[1] = 235 /\ FrameHead[2] = 83
    BY DEF FrameHead, Octets
<1>6. Frames!AnyLink \in Links
    BY <1>1 DEF Frames!AnyLink
<1> QED  BY <1>1, <1>2, <1>3, <1>4, <1>5, <1>6 DEF Pairs

\* A frame of the parser.
FrameLength(c) == <<Len(c) % 256, Len(c) \div 256>>

\* A frame of the links, by its places.
LEMMA FrameIs ==
    ASSUME NEW c \in FrameContents, NEW s \in Octets
    PROVE  /\ FrameLength(c) \in Pairs /\ c \in Seq(Octets)
           /\ FrameLength(c)[1] = Len(c) /\ FrameLength(c)[2] = 0
           /\ IsFrame(Frames!Frame(c, s), FrameHead, FrameLength(c), c, s)
<1>1. c \in Seq(Octets) /\ Len(c) \in Nat /\ Len(c) < 256
    BY FramesConstants, LenProperties
<1>2. Len(c) % 256 = Len(c) /\ Len(c) \div 256 = 0
    BY <1>1, TwoBytes
<1>3. FrameLength(c) = <<Len(c), 0>>
    BY <1>2 DEF FrameLength
<1>4. Len(c) \in Octets /\ 0 \in Octets
  <2>1. Len(c) \in Octets
      BY <1>1, TwoBytes
  <2>2. 0 \in Octets
      BY DEF Octets
  <2> QED  BY <2>1, <2>2
<1>5. FrameLength(c) \in Pairs /\ FrameLength(c)[1] = Len(c) /\ FrameLength(c)[2] = 0
    BY <1>3, <1>4 DEF Pairs
<1>6. Frames!Frame(c, s) = Framed(FrameHead, FrameLength(c), c, s)
    BY FramesConstants DEF Frames!Frame, Framed, FrameLength
<1> QED  BY <1>1, <1>5, <1>6, FramedIs, FramesConstants

\* What has been collected of what a link sends.
Mid(l) == IF owner = l THEN buf ELSE <<>>

\* A link is in the middle of a frame or between frames, and its commands are those
\* of its good frames but the one that is on its way.
InFrame(l, c, s) ==
    /\ wire[l] # <<>>
    /\ Mid(l) \o wire[l] = Frames!Frame(c, s)
    /\ good[l] = IF s = Frames!recvcheck_sum(c) /\ c # <<>> THEN Append(commands[l], c)
                 ELSE commands[l]
InNoise(l) ==
    /\ Quiet(FrameHead, Mid(l) \o wire[l])
    /\ Len(Mid(l)) < 2
    /\ good[l] = commands[l]
OnTheWay(l) == (\E c \in FrameContents, s \in Octets : InFrame(l, c, s)) \/ InNoise(l)

FrameTypes ==
    /\ wire \in [Links -> Seq(Octets)] /\ buf \in Seq(Octets)
    /\ commands \in [Links -> Seq(Seq(Octets))] /\ good \in [Links -> Seq(Seq(Octets))]
    /\ reading \in 0 .. 2
    /\ reading = 2 <=> Len(buf) = 1
    /\ reading = 1 <=> Len(buf) > 1
    /\ buf # <<>> => buf[1] = FrameHead[1]
    /\ sent \in 0 .. MaxFrames /\ owner \in Links /\ mixed \in BOOLEAN

FramesInv == FrameTypes /\ (~mixed => \A l \in Links : OnTheWay(l))

\* Nothing is on its way.
LEMMA FramesStart == ASSUME Frames!Init PROVE FramesInv
<1>1. /\ wire = [l \in Links |-> <<>>] /\ buf = <<>> /\ reading = 0
      /\ commands = [l \in Links |-> <<>>] /\ good = [l \in Links |-> <<>>]
      /\ sent = 0 /\ owner = Frames!AnyLink /\ mixed = FALSE
    BY DEF Frames!Init
<1>2. FrameTypes
  <2>1. wire \in [Links -> Seq(Octets)] /\ buf \in Seq(Octets)
      BY <1>1
  <2>2. commands \in [Links -> Seq(Seq(Octets))] /\ good \in [Links -> Seq(Seq(Octets))]
      BY <1>1
  <2>3. Len(buf) = 0
      BY <1>1
  <2>4. sent \in 0 .. MaxFrames /\ owner \in Links
      BY <1>1, FramesConstants
  <2>5. mixed \in BOOLEAN
      BY <1>1
  <2>6. reading \in 0 .. 2 /\ ~(reading = 2) /\ ~(reading = 1) /\ ~(Len(buf) = 1) /\ ~(Len(buf) > 1)
      BY <1>1, <2>3
  <2>7. ~(buf # <<>>)
      BY <1>1
  <2> QED  BY <2>1, <2>2, <2>4, <2>5, <2>6, <2>7 DEF FrameTypes
<1>3. ASSUME NEW l \in Links
      PROVE  InNoise(l)
  <2>1. Mid(l) = <<>> /\ wire[l] = <<>> /\ good[l] = commands[l]
      BY <1>1 DEF Mid
  <2>2. Mid(l) \o wire[l] = <<>>
      BY <2>1
  <2>3. Quiet(FrameHead, <<>>)
      BY DEF Quiet
  <2> QED  BY <2>1, <2>2, <2>3 DEF InNoise
<1> QED  BY <1>2, <1>3 DEF FramesInv, OnTheWay

\* When a link's bytes are used up nothing of them is kept.
LEMMA NothingKept ==
    ASSUME FramesInv, ~mixed, NEW l \in Links, wire[l] = <<>>
    PROVE  Mid(l) = <<>> /\ good[l] = commands[l]
<1>1. InNoise(l)
    BY DEF FramesInv, OnTheWay, InFrame
<1>2. Mid(l) \in Seq(Octets) /\ (Mid(l) # <<>> => Mid(l)[1] = FrameHead[1])
    BY DEF FramesInv, FrameTypes, Mid
<1>3. Quiet(FrameHead, Mid(l) \o <<>>) /\ Len(Mid(l)) < 2
    BY <1>1 DEF InNoise
<1>4. Mid(l) = <<>>
    BY <1>2, <1>3, QuietEnd
<1> QED  BY <1>1, <1>4 DEF InNoise

\* The invariant is what the run checks of the parser, and more.
LEMMA FramesShow ==
    ASSUME FramesInv
    PROVE  Frames!TypeOK /\ Frames!CommandsAreFrames /\ Frames!BackToHunt
<1>1. Frames!TypeOK
    BY DEF FramesInv, FrameTypes, Frames!TypeOK, Octets
<1>2. Frames!CommandsAreFrames
  <2> SUFFICES ASSUME ~mixed, NEW l \in Links
               PROVE  /\ Frames!IsPrefix(commands[l], good[l])
                      /\ wire[l] = <<>> => commands[l] = good[l]
      BY DEF Frames!CommandsAreFrames
  <2>1. wire[l] = <<>> => commands[l] = good[l]
      BY NothingKept
  <2>2. commands[l] \in Seq(Seq(Octets))
      BY DEF FramesInv, FrameTypes
  <2>3. good[l] = commands[l] \/ \E c \in Seq(Octets) : good[l] = Append(commands[l], c)
    <3>1. CASE InNoise(l)
        BY <3>1 DEF InNoise
    <3>2. ASSUME NEW c \in FrameContents, NEW s \in Octets, InFrame(l, c, s)
          PROVE  good[l] = commands[l] \/ good[l] = Append(commands[l], c)
        BY <3>2 DEF InFrame
    <3>3. \A c \in FrameContents : c \in Seq(Octets)
        BY FramesConstants
    <3>4. OnTheWay(l)
        BY DEF FramesInv
    <3> QED  BY <3>1, <3>2, <3>3, <3>4 DEF OnTheWay
  <2>4. Len(commands[l]) \in Nat
      BY <2>2, LenProperties
  <2>5. CASE good[l] = commands[l]
      BY <2>1, <2>4, <2>5 DEF Frames!IsPrefix
  <2>6. ASSUME NEW c \in Seq(Octets), good[l] = Append(commands[l], c)
        PROVE  Frames!IsPrefix(commands[l], good[l])
    <3> DEFINE a == commands[l]
    <3> DEFINE g == good[l]
    <3>1. /\ g \in Seq(Seq(Octets)) /\ Len(g) = Len(a) + 1
          /\ \A i \in 1 .. Len(a) : g[i] = a[i]
        BY <2>2, <2>6, With
    <3>2. a \in Seq(Seq(Octets)) /\ Len(a) \in Nat
        BY <2>2, <2>4
    <3> HIDE DEF a, g
    <3>3. \A i \in 1 .. Len(a) : a[i] \in Seq(Octets)
        BY <3>2, ElementOfSeq
    <3>4. /\ SubSeq(a, 1, Len(a)) \in Seq(Seq(Octets)) /\ SubSeq(g, 1, Len(a)) \in Seq(Seq(Octets))
          /\ Len(SubSeq(a, 1, Len(a))) = IF 1 <= Len(a) THEN Len(a) - 1 + 1 ELSE 0
          /\ Len(SubSeq(g, 1, Len(a))) = IF 1 <= Len(a) THEN Len(a) - 1 + 1 ELSE 0
          /\ \A i \in 1 .. Len(a) - 1 + 1 : SubSeq(a, 1, Len(a))[i] = a[1 + i - 1]
          /\ \A i \in 1 .. Len(a) - 1 + 1 : SubSeq(g, 1, Len(a))[i] = g[1 + i - 1]
      <4>1. \A i \in 1 .. Len(a) : g[i] \in Seq(Octets)
          BY <3>1, <3>3
      <4> QED  BY <3>2, <3>3, <4>1, SubSeqProperties
    <3>5. SubSeq(a, 1, Len(a)) = SubSeq(g, 1, Len(a))
      <4>1. Len(SubSeq(a, 1, Len(a))) = Len(a) /\ Len(SubSeq(g, 1, Len(a))) = Len(a)
          BY <3>2, <3>4
      <4>2. \A i \in 1 .. Len(a) : SubSeq(a, 1, Len(a))[i] = SubSeq(g, 1, Len(a))[i]
          BY <3>1, <3>2, <3>4
      <4> QED  BY <3>4, <4>1, <4>2, SeqEqual
    <3>6. Len(a) <= Len(g)
        BY <3>1, <3>2
    <3> QED  BY <3>5, <3>6 DEF Frames!IsPrefix, a, g
  <2> QED  BY <2>1, <2>3, <2>5, <2>6
<1>3. Frames!BackToHunt
  <2> SUFFICES ASSUME ~mixed, \A l \in Links : wire[l] = <<>>
               PROVE  reading = 0
      BY DEF Frames!BackToHunt
  <2>1. owner \in Links
      BY DEF FramesInv, FrameTypes
  <2>2. buf = <<>>
      BY <2>1, NothingKept DEF Mid
  <2> QED  BY <2>2 DEF FramesInv, FrameTypes
<1> QED  BY <1>1, <1>2, <1>3

\* A frame or noise arrives at a link of which nothing is left.
LEMMA ArriveKeeps ==
    ASSUME FramesInv, ~mixed, NEW l \in Links, Frames!Arrive(l)
    PROVE  FramesInv'
<1>1. /\ wire[l] = <<>> /\ sent < MaxFrames /\ sent' = sent + 1
      /\ UNCHANGED <<buf, reading, commands, owner, mixed>>
    BY DEF Frames!Arrive
<1>2. FrameTypes /\ \A k \in Links : OnTheWay(k)
    BY DEF FramesInv
<1>3. Mid(l) = <<>> /\ good[l] = commands[l]
    BY <1>1, NothingKept
<1>4. sent' \in 0 .. MaxFrames
    BY <1>1, <1>2, FramesConstants DEF FrameTypes
<1>5. Mid(l)' = <<>>
    BY <1>1, <1>3 DEF Mid
\* The other links have what they had.
<1>6. ASSUME NEW w \in Seq(Octets), NEW g \in Seq(Seq(Octets)),
             wire' = [wire EXCEPT ![l] = w], good' = [good EXCEPT ![l] = g],
             OnTheWay(l)'
      PROVE  FramesInv'
  <2>1. wire' \in [Links -> Seq(Octets)] /\ good' \in [Links -> Seq(Seq(Octets))]
      BY <1>2, <1>6 DEF FrameTypes
  <2>2. FrameTypes'
      BY <1>1, <1>2, <1>4, <2>1 DEF FrameTypes
  <2>3. ASSUME NEW k \in Links, k # l
        PROVE  OnTheWay(k)'
    <3>1. wire'[k] = wire[k] /\ good'[k] = good[k] /\ commands'[k] = commands[k]
        BY <1>1, <1>2, <1>6, <2>3 DEF FrameTypes
    <3>2. Mid(k)' = Mid(k)
        BY <1>1 DEF Mid
    <3> QED  BY <1>2, <3>1, <3>2 DEF OnTheWay, InFrame, InNoise
  <2> QED  BY <1>6, <2>2, <2>3 DEF FramesInv
<1>7. ASSUME NEW c \in FrameContents, NEW ok \in BOOLEAN,
             wire' = [wire EXCEPT ![l] = Frames!Frame(c,
                        IF ok THEN Frames!recvcheck_sum(c)
                        ELSE Frames!Spoilt(Frames!recvcheck_sum(c)))],
             good' = IF ok /\ c # <<>> THEN [good EXCEPT ![l] = Append(good[l], c)] ELSE good
      PROVE  FramesInv'
  <2> DEFINE s == IF ok THEN Frames!recvcheck_sum(c) ELSE Frames!Spoilt(Frames!recvcheck_sum(c))
  <2> DEFINE F == Frames!Frame(c, s)
  <2> DEFINE g == IF ok /\ c # <<>> THEN Append(good[l], c) ELSE good[l]
  <2>1. c \in Seq(Octets)
      BY FramesConstants
  <2>2. s \in Octets /\ (s = Frames!recvcheck_sum(c) <=> ok)
      BY <2>1, FrameSums
  <2>3. wire' = [wire EXCEPT ![l] = F]
      BY <1>7
  <2>4. good' = [good EXCEPT ![l] = g]
      BY <1>2, <1>7 DEF FrameTypes
  <2>5. g \in Seq(Seq(Octets))
    <3>1. good[l] \in Seq(Seq(Octets))
        BY <1>2 DEF FrameTypes
    <3>2. Append(good[l], c) \in Seq(Seq(Octets))
        BY <2>1, <3>1, With
    <3> QED  BY <3>1, <3>2
  <2>a. g = IF s = Frames!recvcheck_sum(c) /\ c # <<>> THEN Append(commands[l], c) ELSE commands[l]
      BY <1>3, <2>2
  <2> HIDE DEF s, g
  <2>6. F \in Seq(Octets) /\ Len(F) = Len(c) + 5 /\ Len(c) \in Nat
      BY <2>1, <2>2, FrameIs, LenProperties DEF IsFrame
  <2> HIDE DEF F
  <2>7. F # <<>>
      BY <2>6
  <2>8. wire'[l] = F /\ good'[l] = g /\ commands'[l] = commands[l]
      BY <1>1, <1>2, <2>3, <2>4 DEF FrameTypes
  <2>9. Mid(l)' \o wire'[l] = Frames!Frame(c, s)
      BY <1>5, <2>6, <2>8, ConcatEmptySeq DEF F
  <2>10. InFrame(l, c, s)'
      BY <2>7, <2>8, <2>9, <2>a DEF InFrame
  <2>11. OnTheWay(l)'
      BY <2>2, <2>10 DEF OnTheWay
  <2> QED  BY <1>6, <2>3, <2>4, <2>5, <2>6, <2>11
<1>8. ASSUME NEW n \in FrameNoise, wire' = [wire EXCEPT ![l] = n], UNCHANGED good
      PROVE  FramesInv'
  <2>1. n \in Seq(Octets) /\ Quiet(FrameHead, n)
      BY FramesConstants
  <2>2. good' = [good EXCEPT ![l] = good[l]] /\ good[l] \in Seq(Seq(Octets))
      BY <1>2, <1>8 DEF FrameTypes
  <2>3. wire'[l] = n /\ good'[l] = commands'[l]
      BY <1>1, <1>2, <1>3, <1>8 DEF FrameTypes
  <2>4. Mid(l)' \o wire'[l] = n /\ Len(Mid(l)') = 0
      BY <1>5, <2>1, <2>3, ConcatEmptySeq
  <2>5. InNoise(l)'
      BY <2>1, <2>3, <2>4 DEF InNoise
  <2> QED  BY <1>6, <1>8, <2>1, <2>2, <2>5 DEF OnTheWay
<1> QED  BY <1>7, <1>8 DEF Frames!Arrive

\* The byte taken, and what becomes of the buffer.
LEMMA Taking ==
    ASSUME FramesInv, NEW l \in Links, Frames!Byte(l), NEW b, b = Head(wire[l])
    PROVE  /\ b \in Octets /\ wire[l] # <<>> /\ wire[l] \in Seq(Octets)
           /\ Tail(wire[l]) \in Seq(Octets)
           /\ wire' = [wire EXCEPT ![l] = Tail(wire[l])] /\ wire'[l] = Tail(wire[l])
           /\ owner' = IF buf' = <<>> THEN Frames!AnyLink ELSE IF buf = <<>> THEN l ELSE owner
           /\ mixed' = (mixed \/ (buf # <<>> /\ owner # l))
           /\ UNCHANGED <<good, sent>>
           /\ Len(buf) \in Nat
           /\ Append(buf, b) \in Seq(Octets) /\ Len(Append(buf, b)) = Len(buf) + 1
           /\ Append(buf, b)[1] = IF buf = <<>> THEN b ELSE buf[1]
           /\ buf = <<>> <=> Len(buf) = 0
           /\ Append(buf, b) # <<>>
<1>1. /\ wire[l] # <<>> /\ wire' = [wire EXCEPT ![l] = Tail(wire[l])]
      /\ owner' = IF buf' = <<>> THEN Frames!AnyLink ELSE IF buf = <<>> THEN l ELSE owner
      /\ mixed' = (mixed \/ (buf # <<>> /\ owner # l))
      /\ UNCHANGED <<good, sent>>
    BY DEF Frames!Byte
<1>2. /\ wire \in [Links -> Seq(Octets)] /\ wire[l] \in Seq(Octets) /\ buf \in Seq(Octets)
    BY DEF FramesInv, FrameTypes
<1>3. b \in Octets /\ Tail(wire[l]) \in Seq(Octets)
    BY <1>1, <1>2, Without
<1>4. /\ Append(buf, b) \in Seq(Octets) /\ Len(buf) \in Nat /\ Len(Append(buf, b)) = Len(buf) + 1
      /\ Append(buf, b)[Len(buf) + 1] = b
      /\ \A i \in 1 .. Len(buf) : Append(buf, b)[i] = buf[i]
    BY <1>2, <1>3, With
<1>5. buf = <<>> <=> Len(buf) = 0
    BY <1>2, EmptySeq
<1>6. Append(buf, b)[1] = IF buf = <<>> THEN b ELSE buf[1]
    BY <1>4, <1>5
<1>7. wire'[l] = Tail(wire[l])
    BY <1>1, <1>2
<1>8. Append(buf, b) # <<>>
    BY <1>4, EmptySeq
<1> QED  BY <1>1, <1>2, <1>3, <1>4, <1>5, <1>6, <1>7, <1>8

\* The types need not know whose bytes they are.
LEMMA ByteKeepsTypes ==
    ASSUME FramesInv, NEW l \in Links, Frames!Byte(l)
    PROVE  FrameTypes'
<1> DEFINE b == Head(wire[l])
<1> DEFINE f == Append(buf, b)
<1>1. /\ b \in Octets /\ Tail(wire[l]) \in Seq(Octets)
      /\ wire' = [wire EXCEPT ![l] = Tail(wire[l])]
      /\ owner' = IF buf' = <<>> THEN Frames!AnyLink ELSE IF buf = <<>> THEN l ELSE owner
      /\ mixed' = (mixed \/ (buf # <<>> /\ owner # l))
      /\ UNCHANGED <<good, sent>>
      /\ Len(buf) \in Nat /\ f \in Seq(Octets) /\ Len(f) = Len(buf) + 1
      /\ f[1] = IF buf = <<>> THEN b ELSE buf[1]
      /\ buf = <<>> <=> Len(buf) = 0
      /\ f # <<>>
    BY Taking
<1>2. FrameTypes
    BY DEF FramesInv
<1>3. wire' \in [Links -> Seq(Octets)]
    BY <1>1, <1>2 DEF FrameTypes
<1>4. owner' \in Links
    BY <1>1, <1>2, FramesConstants DEF FrameTypes
<1>5. mixed' \in BOOLEAN
    BY <1>1, <1>2 DEF FrameTypes
<1>6. good' \in [Links -> Seq(Seq(Octets))] /\ sent' \in 0 .. MaxFrames
    BY <1>1, <1>2 DEF FrameTypes
<1>7. Frames!frame_head[1] = FrameHead[1]
    BY FramesConstants
<1> HIDE DEF b, f
\* What may become of the buffer.
<1>8. \/ buf' = <<>> /\ reading' = 0
      \/ buf' = f /\ reading # 1 /\ reading' = (IF Len(buf) = 1 THEN 1 ELSE 2)
         /\ (buf = <<>> => b = FrameHead[1])
      \/ buf' = f /\ reading = 1 /\ reading' = reading
  <2>1. CASE reading = 1
      BY <2>1 DEF Frames!Byte, Frames!Collect, b, f
  <2>2. CASE reading # 1
    <3>1. Frames!Hunt(b)
        BY <2>2 DEF Frames!Byte, b
    <3>2. CASE b = Frames!frame_head[Len(buf) + 1]
      <4>1. buf' = f /\ reading' = (IF Len(buf) = 1 THEN 1 ELSE 2)
          BY <3>1, <3>2 DEF Frames!Hunt, f
      <4>2. buf = <<>> => b = FrameHead[1]
          BY <1>1, <1>7, <3>2
      <4> QED  BY <2>2, <4>1, <4>2
    <3>3. CASE b # Frames!frame_head[Len(buf) + 1]
        BY <3>1, <3>3 DEF Frames!Hunt
    <3> QED  BY <3>2, <3>3
  <2> QED  BY <2>1, <2>2
<1>9. commands' \in [Links -> Seq(Seq(Octets))]
  <2>1. CASE UNCHANGED commands
      BY <1>2, <2>1 DEF FrameTypes
  <2>2. ASSUME ~(UNCHANGED commands)
        PROVE  /\ commands' = [commands EXCEPT ![l] = Append(@, SubSeq(f, 5, Len(f) - 1))]
               /\ 4 <= Len(f)
    <3>1. reading = 1
        BY <2>2 DEF Frames!Byte, Frames!Hunt
    <3>2. Frames!Collect(l, b)
        BY <3>1 DEF Frames!Byte, b
    <3> QED  BY <2>2, <3>2 DEF Frames!Collect, Frames!Complete, f
  <2>3. SubSeq(f, 5, Len(f) - 1) \in Seq(Octets)
    <3>1. \A i \in 5 .. Len(f) - 1 : f[i] \in Octets
        BY <1>1, ElementOfSeq
    <3>2. 5 \in Int /\ Len(f) - 1 \in Int
        BY <1>1
    <3> QED  BY <3>1, <3>2, SubSeqProperties
  <2>4. Append(commands[l], SubSeq(f, 5, Len(f) - 1)) \in Seq(Seq(Octets))
    <3>1. commands[l] \in Seq(Seq(Octets))
        BY <1>2 DEF FrameTypes
    <3> QED  BY <2>3, <3>1, With
  <2>5. [commands EXCEPT ![l] = Append(commands[l], SubSeq(f, 5, Len(f) - 1))]
            \in [Links -> Seq(Seq(Octets))]
      BY <1>2, <2>4 DEF FrameTypes
  <2> QED  BY <2>1, <2>2, <2>5
<1>10. /\ buf' \in Seq(Octets) /\ reading' \in 0 .. 2
       /\ reading' = 2 <=> Len(buf') = 1
       /\ reading' = 1 <=> Len(buf') > 1
       /\ buf' # <<>> => buf'[1] = FrameHead[1]
  <2>1. /\ reading \in 0 .. 2 /\ (reading = 2 <=> Len(buf) = 1) /\ (reading = 1 <=> Len(buf) > 1)
        /\ (buf # <<>> => buf[1] = FrameHead[1])
      BY <1>2 DEF FrameTypes
  <2>2. CASE buf' = <<>> /\ reading' = 0
    <3>1. buf' \in Seq(Octets) /\ Len(buf') = 0
        BY <2>2
    <3> QED  BY <2>2, <3>1
  <2>3. CASE buf' = f /\ reading # 1 /\ reading' = (IF Len(buf) = 1 THEN 1 ELSE 2)
             /\ (buf = <<>> => b = FrameHead[1])
    <3>1. Len(buf) = 0 \/ Len(buf) = 1
      <4> DEFINE k == Len(buf)
      <4>1. k \in Nat /\ ~(k > 1)
          BY <1>1, <2>1, <2>3
      <4> HIDE DEF k
      <4>2. k = 0 \/ k = 1
          BY <4>1
      <4> QED  BY <4>2 DEF k
    <3>2. f[1] = FrameHead[1]
        BY <1>1, <2>1, <2>3
    <3> QED  BY <1>1, <2>3, <3>1, <3>2
  <2>4. CASE buf' = f /\ reading = 1 /\ reading' = reading
    <3>1. Len(buf) > 1 /\ Len(f) > 1 /\ ~(Len(f) = 1)
        BY <1>1, <2>1, <2>4
    <3>2. f[1] = FrameHead[1]
        BY <1>1, <2>1, <3>1
    <3> QED  BY <1>1, <2>4, <3>1, <3>2
  <2> QED  BY <1>8, <2>2, <2>3, <2>4
<1> QED  BY <1>3, <1>4, <1>5, <1>6, <1>9, <1>10 DEF FrameTypes

\* The parser takes a byte.
LEMMA ByteKeeps ==
    ASSUME FramesInv, ~mixed, NEW l \in Links, Frames!Byte(l)
    PROVE  FramesInv'
<1> DEFINE w == wire[l]
<1> DEFINE b == Head(w)
<1> DEFINE f == Append(buf, b)
<1>1. FrameTypes'
    BY ByteKeepsTypes
<1>2. SUFFICES ASSUME ~mixed' PROVE \A k \in Links : OnTheWay(k)'
    BY <1>1 DEF FramesInv
<1>3. /\ b \in Octets /\ w # <<>> /\ w \in Seq(Octets) /\ Tail(w) \in Seq(Octets)
      /\ wire' = [wire EXCEPT ![l] = Tail(w)] /\ wire'[l] = Tail(w)
      /\ owner' = IF buf' = <<>> THEN Frames!AnyLink ELSE IF buf = <<>> THEN l ELSE owner
      /\ mixed' = (mixed \/ (buf # <<>> /\ owner # l))
      /\ UNCHANGED <<good, sent>>
      /\ Len(buf) \in Nat /\ f \in Seq(Octets) /\ Len(f) = Len(buf) + 1
      /\ buf = <<>> <=> Len(buf) = 0
      /\ f # <<>>
    BY Taking
<1>4. FrameTypes /\ \A k \in Links : OnTheWay(k)
    BY DEF FramesInv
<1>5. buf # <<>> => owner = l
    BY <1>2, <1>3
<1>6. Mid(l) = buf /\ Mid(l)' = buf'
    BY <1>3, <1>5 DEF Mid
<1>7. /\ reading \in 0 .. 2 /\ (reading = 2 <=> Len(buf) = 1) /\ (reading = 1 <=> Len(buf) > 1)
      /\ buf # <<>> => buf[1] = FrameHead[1]
      /\ buf \in Seq(Octets)
    BY <1>4 DEF FrameTypes
<1>8. /\ Frames!frame_head = FrameHead /\ FrameHead \in Pairs
    BY FramesConstants
\* The other links, whose commands too are as they were.
<1>9. ASSUME NEW k \in Links, k # l
      PROVE  OnTheWay(k)'
  <2>1. wire'[k] = wire[k] /\ good'[k] = good[k]
      BY <1>3, <1>4, <1>9 DEF FrameTypes
  <2>2. commands'[k] = commands[k]
    <3>1. CASE reading = 1
      <4>1. UNCHANGED commands \/ \E c : commands' = [commands EXCEPT ![l] = c]
          BY <3>1 DEF Frames!Byte, Frames!Collect
      <4> QED  BY <1>4, <1>9, <4>1 DEF FrameTypes
    <3>2. CASE reading # 1
        BY <3>2 DEF Frames!Byte
    <3> QED  BY <3>1, <3>2
  <2>3. Mid(k) = <<>> /\ Mid(k)' = <<>>
      BY <1>3, <1>5, <1>9 DEF Mid
  <2>4. OnTheWay(k)
      BY <1>4
  <2> QED  BY <2>1, <2>2, <2>3, <2>4 DEF OnTheWay, InFrame, InNoise
\* A frame on its way.
<1>10. ASSUME NEW c \in FrameContents, NEW s \in Octets, InFrame(l, c, s)
       PROVE  OnTheWay(l)'
  <2> DEFINE F == Frames!Frame(c, s)
  <2>1. /\ FrameLength(c) \in Pairs /\ c \in Seq(Octets) /\ Len(c) \in Nat
        /\ FrameLength(c)[1] = Len(c) /\ FrameLength(c)[2] = 0
        /\ IsFrame(F, FrameHead, FrameLength(c), c, s)
      BY FrameIs, LenProperties
  <2>2. F = buf \o w
      BY <1>6, <1>10 DEF InFrame
  <2>3. /\ f \o Tail(w) = F
        /\ Len(buf) = 0 => b = FrameHead[1]
        /\ Len(buf) = 1 => b = FrameHead[2]
        /\ Len(f) <= Len(c) + 5
        /\ Tail(w) = <<>> <=> Len(f) = Len(c) + 5
        /\ Len(f) >= 4 => f[3] = FrameLength(c)[1] /\ f[4] = FrameLength(c)[2]
        /\ Len(f) = Len(c) + 5 => SubSeq(f, 5, Len(f) - 1) = c /\ b = s
    <3> HIDE DEF F
    <3>1. GoesOn(F, FrameHead, FrameLength(c), c, s, buf, b, Tail(w))
        BY <1>3, <1>7, <1>8, <2>1, <2>2, FramedNext
    <3> HIDE DEF b, w
    <3> QED  BY <3>1 DEF GoesOn
  <2>4. good[l] = IF s = Frames!recvcheck_sum(c) /\ c # <<>> THEN Append(commands[l], c)
                  ELSE commands[l]
      BY <1>10 DEF InFrame
  <2> HIDE DEF F, b, f
\* It goes on.
  <2>5. ASSUME buf' = f, UNCHANGED commands, Len(f) # Len(c) + 5
        PROVE  OnTheWay(l)'
    <3>1. wire'[l] # <<>>
        BY <1>3, <2>3, <2>5
    <3>2. Mid(l)' \o wire'[l] = F
        BY <1>3, <1>6, <2>3, <2>5
    <3>3. good'[l] = good[l] /\ commands'[l] = commands[l]
        BY <1>3, <2>5
    <3>4. InFrame(l, c, s)'
        BY <2>4, <3>1, <3>2, <3>3 DEF InFrame, F
    <3> QED  BY <3>4 DEF OnTheWay
  <2>6. CASE reading = 1
    <3>1. Frames!Collect(l, b)
        BY <2>6 DEF Frames!Byte, b
    <3>2. Len(buf) >= 2 /\ Len(f) >= 3
        BY <1>3, <1>7, <2>6
    <3>3. Frames!Complete(f) <=> Len(f) = Len(c) + 5
      <4>1. ASSUME Len(f) >= 4
            PROVE  f[3] + 256 * f[4] + 5 = Len(c) + 5
        <5>1. f[3] = Len(c) /\ f[4] = 0
            BY <2>1, <2>3, <4>1
        <5> QED  BY <2>1, <5>1
      <4>2. Len(f) = Len(c) + 5 => Len(f) >= 4
          BY <2>1
      <4> QED  BY <4>1, <4>2 DEF Frames!Complete
    <3>4. CASE ~Frames!Complete(f)
        BY <2>5, <3>1, <3>3, <3>4 DEF Frames!Collect, f
    <3>5. CASE Frames!Complete(f)
      <4>1. /\ buf' = <<>>
            /\ commands' = IF Frames!Valid(f)
                           THEN [commands EXCEPT ![l] = Append(@, SubSeq(f, 5, Len(f) - 1))]
                           ELSE commands
          BY <3>1, <3>5 DEF Frames!Collect, f
      <4>2. SubSeq(f, 5, Len(f) - 1) = c /\ b = s /\ Tail(w) = <<>> /\ Len(f) = Len(c) + 5
          BY <2>3, <3>3, <3>5
      <4>3. f[Len(f)] = b
        <5>1. f[Len(buf) + 1] = b
            BY <1>3, <1>7, With DEF f
        <5> QED  BY <1>3, <5>1
      <4>4. Frames!Valid(f) <=> c # <<>> /\ Frames!recvcheck_sum(c) = s
        <5>1. Len(f) >= 6 <=> Len(c) # 0
          <6> DEFINE k == Len(c)
          <6>1. k \in Nat /\ Len(f) = k + 5
              BY <2>1, <4>2
          <6> HIDE DEF k
          <6>2. Len(f) >= 6 <=> k # 0
              BY <6>1
          <6> QED  BY <6>2 DEF k
        <5>2. Len(c) = 0 <=> c = <<>>
            BY <2>1, EmptySeq
        <5> QED  BY <4>2, <4>3, <5>1, <5>2 DEF Frames!Valid
      <4>5. commands'[l] = good[l]
          BY <1>4, <2>4, <4>1, <4>2, <4>4 DEF FrameTypes
      <4>6. Mid(l)' \o wire'[l] = <<>> /\ Len(Mid(l)') = 0 /\ good'[l] = commands'[l]
        <5>1. Mid(l)' = <<>> /\ wire'[l] = <<>>
            BY <1>3, <1>6, <4>1, <4>2
        <5>2. good'[l] = good[l]
            BY <1>3
        <5> QED  BY <4>5, <5>1, <5>2
      <4>7. Quiet(FrameHead, <<>>)
          BY DEF Quiet
      <4>8. InNoise(l)'
          BY <4>6, <4>7 DEF InNoise
      <4> QED  BY <4>8 DEF OnTheWay
    <3> QED  BY <3>4, <3>5
  <2>7. CASE reading # 1
    <3>1. Frames!Hunt(b) /\ UNCHANGED commands
        BY <2>7 DEF Frames!Byte, b
    <3>2. Len(buf) = 0 \/ Len(buf) = 1
      <4> DEFINE k == Len(buf)
      <4>1. k \in Nat /\ ~(k > 1)
          BY <1>3, <1>7, <2>7
      <4> HIDE DEF k
      <4>2. k = 0 \/ k = 1
          BY <4>1
      <4> QED  BY <4>2 DEF k
    <3>3. b = FrameHead[Len(buf) + 1]
      <4>1. CASE Len(buf) = 0
          BY <2>3, <4>1
      <4>2. CASE Len(buf) = 1
          BY <2>3, <4>2
      <4> QED  BY <3>2, <4>1, <4>2
    <3>4. buf' = f
        BY <1>8, <3>1, <3>3 DEF Frames!Hunt, f
    <3>5. Len(f) # Len(c) + 5
      <4> DEFINE k == Len(buf)
      <4> DEFINE n == Len(f)
      <4> DEFINE p == Len(c)
      <4>1. (k = 0 \/ k = 1) /\ n = k + 1 /\ p \in Nat
          BY <1>3, <2>1, <3>2
      <4> HIDE DEF k, n, p
      <4>2. n # p + 5
          BY <4>1
      <4> QED  BY <4>2 DEF n, p
    <3> QED  BY <2>5, <3>1, <3>4, <3>5
  <2> QED  BY <2>6, <2>7
\* Noise.
<1>11. ASSUME InNoise(l)
       PROVE  OnTheWay(l)'
  <2>1. Quiet(FrameHead, buf \o w) /\ Len(buf) < 2 /\ good[l] = commands[l]
      BY <1>6, <1>11 DEF InNoise
  <2>2. /\ Quiet(FrameHead, Tail(w)) /\ Quiet(FrameHead, f \o Tail(w))
        /\ Len(buf) = 1 /\ buf[1] = FrameHead[1] => b # FrameHead[2]
    <3>1. \A g : g = Append(buf, Head(w)) =>
            /\ Quiet(FrameHead, Tail(w)) /\ Quiet(FrameHead, g \o Tail(w))
            /\ Len(buf) = 1 /\ buf[1] = FrameHead[1] => Head(w) # FrameHead[2]
        BY <1>3, <1>7, <1>8, <2>1, QuietNext
    <3> QED  BY <3>1
  <2> HIDE DEF b, f
  <2>3. reading # 1
      BY <1>3, <1>7, <2>1
  <2>4. Frames!Hunt(b) /\ UNCHANGED commands
      BY <2>3 DEF Frames!Byte, b
  <2>5. good'[l] = commands'[l]
      BY <1>3, <2>1, <2>4
  <2>6. CASE b = FrameHead[Len(buf) + 1]
    <3>1. buf' = f
        BY <1>8, <2>4, <2>6 DEF Frames!Hunt, f
    <3>2. Len(buf) # 1
        BY <1>3, <1>7, <2>2, <2>6
    <3>3. Len(f) < 2
      <4> DEFINE k == Len(buf)
      <4> DEFINE n == Len(f)
      <4>1. k \in Nat /\ k < 2 /\ k # 1 /\ n = k + 1
          BY <1>3, <2>1, <3>2
      <4> HIDE DEF k, n
      <4>2. n < 2
          BY <4>1
      <4> QED  BY <4>2 DEF n
    <3>4. InNoise(l)'
        BY <1>3, <1>6, <2>2, <2>5, <3>1, <3>3 DEF InNoise
    <3> QED  BY <3>4 DEF OnTheWay
  <2>7. CASE b # FrameHead[Len(buf) + 1]
    <3>1. buf' = <<>>
        BY <1>8, <2>4, <2>7 DEF Frames!Hunt
    <3>2. Mid(l)' \o wire'[l] = Tail(w) /\ Len(Mid(l)') = 0
        BY <1>3, <1>6, <3>1, ConcatEmptySeq
    <3>3. InNoise(l)'
        BY <2>2, <2>5, <3>2 DEF InNoise
    <3> QED  BY <3>3 DEF OnTheWay
  <2> QED  BY <2>6, <2>7
<1> QED  BY <1>4, <1>9, <1>10, <1>11 DEF OnTheWay

\* Every step keeps the invariant.
LEMMA FramesKeep ==
    ASSUME FramesInv, [Frames!Next]_(Frames!vars)
    PROVE  FramesInv'
<1>1. CASE UNCHANGED Frames!vars
  <2>1. UNCHANGED <<wire, buf, reading, commands, good, sent, owner, mixed>>
      BY <1>1 DEF Frames!vars
  <2>2. FrameTypes'
      BY <2>1 DEF FramesInv, FrameTypes
  <2>3. \A l \in Links : OnTheWay(l) => OnTheWay(l)'
      BY <2>1 DEF OnTheWay, InFrame, InNoise, Mid
  <2> QED  BY <2>1, <2>2, <2>3 DEF FramesInv
<1>2. CASE Frames!Next
    BY <1>2, ArriveKeeps, ByteKeeps DEF Frames!Next
<1> QED  BY <1>1, <1>2

(***************************************************************************)
(* The serial line: the image process hears what the good frames say.      *)
(***************************************************************************)

LineHead == <<170, 85>>

\* What the assumption gives, in parts.
LEMMA LineAssumed == Line803!Uart803Assumption
BY CommandsAssumption, Zenon DEF CommandsAssumption

\* The files.
LEMMA FilesAssumed == Files \subseteq [at : {"none", "short"}] \cup [at : {"whole"}, time : 0 .. 10]
BY LineAssumed, Zenon DEF Line803!Uart803Assumption

\* The errors.
LEMMA ErrorsAssumed == Errors \subseteq -Line803!MaxError .. Line803!MaxError
<1>1. Errors \subseteq -Line803!MaxError .. Line803!MaxError /\ Garbage \subseteq Nat
    BY LineAssumed, SMT DEF Line803!Uart803Assumption
<1> QED  BY <1>1

\* What is sent.
LEMMA LineConstants ==
    /\ MaxLine \in Nat /\ MaxStarts \in Nat
    /\ \A c \in LineContents : c \in Seq(Octets) /\ Len(c) < 256
    /\ \A n \in LineNoise : n \in Seq(Octets) /\ n # <<>> /\ Quiet(LineHead, n)
    /\ LineHead \in Pairs /\ Line803!frame_head = LineHead
    /\ LineHead[1] = 170 /\ LineHead[2] = 85
<1>1. MaxLine \in Nat /\ MaxStarts \in Nat
  <2>1. {MaxLine, MaxStarts} \subseteq Nat
      BY LineAssumed, Zenon DEF Line803!Uart803Assumption
  <2> QED  BY <2>1
<1>2. \A c \in LineContents : c \in Seq(Octets) /\ Len(c) < 256
    BY LineAssumed, Zenon DEF Line803!Uart803Assumption, Octets
<1>3. Line803!frame_head = LineHead
    BY DEF Line803!frame_head, LineHead
<1>4. \A n \in LineNoise : n \in Seq(Octets) /\ n # <<>> /\ Quiet(LineHead, n)
  <2>1. \A n \in LineNoise : /\ n \in Seq(0 .. 255) \ {<<>>}
                             /\ \A i \in 2 .. Len(n) : <<n[i-1], n[i]>> # Line803!frame_head
                             /\ n[Len(n)] # Line803!frame_head[1]
      BY LineAssumed, Zenon DEF Line803!Uart803Assumption
  <2> QED  BY <1>3, <2>1 DEF Octets, Quiet
<1>5. LineHead \in Seq(Octets) /\ Len(LineHead) = 2 /\ LineHead[1] = 170 /\ LineHead[2] = 85
    BY DEF LineHead, Octets
<1>6. LineHead \in Pairs
    BY <1>5 DEF Pairs
<1> QED  BY <1>1, <1>2, <1>3, <1>4, <1>5, <1>6

LineLength(c) == <<Len(c) \div 256, Len(c) % 256>>

\* A frame of the serial line, by its places.
LEMMA LineFrameIs ==
    ASSUME NEW c \in LineContents, NEW s \in Octets
    PROVE  /\ LineLength(c) \in Pairs /\ c \in Seq(Octets)
           /\ LineLength(c)[1] = 0 /\ LineLength(c)[2] = Len(c)
           /\ IsFrame(Line803!Frame(c, s), LineHead, LineLength(c), c, s)
<1>1. c \in Seq(Octets) /\ Len(c) \in Nat /\ Len(c) < 256
    BY LineConstants, LenProperties
<1>2. Len(c) % 256 = Len(c) /\ Len(c) \div 256 = 0
    BY <1>1, TwoBytes
<1>3. LineLength(c) = <<0, Len(c)>>
    BY <1>2 DEF LineLength
<1>4. Len(c) \in Octets /\ 0 \in Octets
  <2>1. Len(c) \in Octets
      BY <1>1, TwoBytes
  <2>2. 0 \in Octets
      BY DEF Octets
  <2> QED  BY <2>1, <2>2
<1>5. LineLength(c) \in Pairs /\ LineLength(c)[1] = 0 /\ LineLength(c)[2] = Len(c)
    BY <1>3, <1>4 DEF Pairs
<1>6. Line803!Frame(c, s) = Framed(LineHead, LineLength(c), c, s)
    BY LineConstants DEF Line803!Frame, Framed, LineLength
<1> QED  BY <1>1, <1>5, <1>6, FramedIs, LineConstants

\* What the image process may be told.
Parameters == Nat \cup (Nat \X Nat)
Orders     == {"changeSensor", "trk", "mmt", "posemovestep", "mtd", "mtdAreaClass",
               "mmtcoord", "sendMtdcoord", "sendMtdSelfCoord", "settrktime", "posmove"}
Messages   == [cmd : Orders, prm : Parameters]

\* A number is a parameter, and so is a pair of numbers.
LEMMA ParametersAre ==
    /\ \A n \in Nat : n \in Parameters
    /\ \A n, k \in Nat : <<n, k>> \in Parameters
BY DEF Parameters

\* What the commands with a parameter or a place say.
LEMMA NamesAre ==
    /\ \A n \in {1, 2, 4, 7, 8, 12} : /\ Line803!OneByte[n] \in Orders
                                      /\ Line803!OneByte[n] # "settrktime"
    /\ \A n \in {5, 9, 11} : Line803!Place[n] \in Orders /\ Line803!Place[n] # "settrktime"
<1>1. /\ Line803!OneByte[1] = "changeSensor" /\ Line803!OneByte[2] = "trk"
      /\ Line803!OneByte[4] = "mmt" /\ Line803!OneByte[7] = "posemovestep"
      /\ Line803!OneByte[8] = "mtd" /\ Line803!OneByte[12] = "mtdAreaClass"
    BY DEF Line803!OneByte
<1>2. /\ Line803!Place[5] = "mmtcoord" /\ Line803!Place[9] = "sendMtdcoord"
      /\ Line803!Place[11] = "sendMtdSelfCoord"
    BY DEF Line803!Place
<1>3. ASSUME NEW n \in {1, 2, 4, 7, 8, 12}
      PROVE  Line803!OneByte[n] \in Orders /\ Line803!OneByte[n] # "settrktime"
  <2>1. n = 1 \/ n = 2 \/ n = 4 \/ n = 7 \/ n = 8 \/ n = 12
      BY <1>3
  <2> QED  BY <1>1, <2>1 DEF Orders
<1>4. ASSUME NEW n \in {5, 9, 11}
      PROVE  Line803!Place[n] \in Orders /\ Line803!Place[n] # "settrktime"
  <2>1. n = 5 \/ n = 9 \/ n = 11
      BY <1>4
  <2> QED  BY <1>2, <2>1 DEF Orders
<1> QED  BY <1>3, <1>4

\* The bytes of the content, and the sum behind them, are numbers.
LEMMA BehindContent ==
    ASSUME NEW c \in Seq(Octets), NEW i \in 4 .. Len(c) + 4
    PROVE  Line803!At(c, i) \in Nat
<1> DEFINE s == Line803!recvcheck_sum(c)
<1>1. s \in Octets /\ Len(c) \in Nat
    BY LineSums, LenProperties
<1>2. <<s>> \in Seq(Octets) /\ Len(<<s>>) = 1
    BY <1>1
<1>3. c \o <<s>> \in Seq(Octets) /\ Len(c \o <<s>>) = Len(c) + 1
    BY <1>2, ConcatProperties
<1>4. i - 3 \in 1 .. Len(c \o <<s>>)
    BY <1>1, <1>3
<1>5. (c \o <<s>>)[i - 3] \in Octets
    BY <1>3, <1>4, ElementOfSeq
<1>6. \A n \in Octets : n \in Nat
    BY DEF Octets
<1> QED  BY <1>5, <1>6 DEF Line803!At

\* A good frame tells the time or something else.
LEMMA TellsIs ==
    ASSUME NEW c \in Seq(Octets), c # <<>>
    PROVE  /\ Line803!Tells(c) \in Seq(Messages)
           /\ Line803!SetsTime(c) =>
                /\ Line803!At(c, 5) \in 0 .. 10
                /\ Line803!Tells(c) = <<[cmd |-> "settrktime", prm |-> Line803!At(c, 5)]>>
           /\ ~Line803!SetsTime(c) =>
                \A i \in 1 .. Len(Line803!Tells(c)) : Line803!Tells(c)[i].cmd # "settrktime"
<1> DEFINE cmd == c[1]
<1> DEFINE a(i) == Line803!At(c, i)
<1>1. Len(c) \in Nat \ {0}
    BY EmptySeq
<1>2. a(5) \in Nat
    BY <1>1, BehindContent
<1>3. \A m \in Messages : <<m>> \in Seq(Messages) /\ Len(<<m>>) = 1 /\ <<m>>[1] = m
    OBVIOUS
<1>4. <<>> \in Seq(Messages) /\ Len(<<>>) = 0
    OBVIOUS
<1>5. CASE cmd \in DOMAIN Line803!OneByte
  <2>1. cmd \in {1, 2, 4, 7, 8, 12}
      BY <1>5 DEF Line803!OneByte
  <2> DEFINE m == [cmd |-> Line803!OneByte[cmd], prm |-> a(5)]
  <2>2. Line803!OneByte[cmd] \in Orders /\ Line803!OneByte[cmd] # "settrktime"
      BY <2>1, NamesAre
  <2>3. m \in Messages /\ m.cmd # "settrktime"
      BY <1>2, <2>2, ParametersAre DEF Messages
  <2>4. Line803!Tells(c) = <<m>>
      BY <1>5, <2>1 DEF Line803!Tells, Line803!Message, Line803!Place, Line803!OneByte
  <2>5. ~Line803!SetsTime(c)
      BY <2>1 DEF Line803!SetsTime
  <2> HIDE DEF m
  <2> QED  BY <1>3, <2>3, <2>4, <2>5
<1>6. CASE cmd \in DOMAIN Line803!Place
  <2>1. cmd \in {5, 9, 11}
      BY <1>6 DEF Line803!Place
  <2>5. ~Line803!SetsTime(c)
      BY <2>1 DEF Line803!SetsTime
  <2>2. CASE Line803!Throws(c)
    <3>1. Line803!Tells(c) = <<>>
        BY <2>1, <2>2, <1>6 DEF Line803!Tells, Line803!OneByte
    <3> QED  BY <1>4, <2>5, <3>1
  <2>3. CASE ~Line803!Throws(c)
    <3> DEFINE m == [cmd |-> Line803!Place[cmd], prm |-> <<256 * a(5) + a(6), 256 * a(7) + a(8)>>]
    <3>1. Len(c) >= 4
        BY <1>1, <1>6, <2>3 DEF Line803!Throws
    <3>2. a(6) \in Nat /\ a(7) \in Nat /\ a(8) \in Nat
        BY <1>1, <3>1, BehindContent
    <3>3. Line803!Place[cmd] \in Orders /\ Line803!Place[cmd] # "settrktime"
        BY <2>1, NamesAre
    <3>4. Line803!Tells(c) = <<m>>
        BY <1>6, <2>1, <2>3 DEF Line803!Tells, Line803!Message, Line803!OneByte
    <3> HIDE DEF a
    <3>5. 256 * a(5) + a(6) \in Nat /\ 256 * a(7) + a(8) \in Nat
        BY <1>2, <3>2
    <3>6. m \in Messages /\ m.cmd # "settrktime"
        BY <3>3, <3>5, ParametersAre DEF Messages
    <3> HIDE DEF m
    <3> QED  BY <1>3, <2>5, <3>4, <3>6
  <2> QED  BY <2>2, <2>3
<1>7. CASE cmd = 3
  <2>1. CASE a(5) <= 10
    <3> DEFINE m == [cmd |-> "settrktime", prm |-> a(5)]
    <3>1. Line803!SetsTime(c) /\ a(5) \in 0 .. 10
        BY <1>2, <1>7, <2>1 DEF Line803!SetsTime
    <3>2. Line803!Tells(c) = <<m>>
        BY <1>7, <2>1 DEF Line803!Tells, Line803!Message, Line803!OneByte, Line803!Place
    <3>3. m \in Messages
      <4>1. a(5) \in Parameters
          BY <1>2, ParametersAre
      <4> HIDE DEF a
      <4> QED  BY <4>1 DEF Messages, Orders
    <3> QED  BY <1>3, <3>1, <3>2, <3>3
  <2>2. CASE ~(a(5) <= 10)
    <3>1. ~Line803!SetsTime(c)
        BY <2>2 DEF Line803!SetsTime
    <3>2. Line803!Tells(c) = <<>>
        BY <1>7, <2>2 DEF Line803!Tells, Line803!OneByte, Line803!Place
    <3> QED  BY <1>4, <3>1, <3>2
  <2> QED  BY <2>1, <2>2
<1>8. CASE cmd = 6
  <2> DEFINE m == [cmd |-> "posmove", prm |-> <<Line803!Step(a(5), 0), Line803!Step(a(5), 2)>>]
  <2>1. ~Line803!SetsTime(c)
      BY <1>8 DEF Line803!SetsTime
  <2>2. Line803!Tells(c) = <<m>>
      BY <1>8 DEF Line803!Tells, Line803!Message, Line803!OneByte, Line803!Place
  <2>3. \A n, b : Line803!Step(n, b) \in Nat
      BY DEF Line803!Step
  <2>5. <<Line803!Step(a(5), 0), Line803!Step(a(5), 2)>> \in Parameters
      BY <2>3, ParametersAre
  <2>4. m \in Messages /\ m.cmd # "settrktime"
      BY <2>5 DEF Messages, Orders
  <2> HIDE DEF m
  <2> QED  BY <1>3, <2>1, <2>2, <2>4
<1>9. CASE /\ cmd \notin DOMAIN Line803!OneByte /\ cmd \notin DOMAIN Line803!Place
           /\ cmd # 3 /\ cmd # 6
  <2>1. ~Line803!SetsTime(c)
      BY <1>9 DEF Line803!SetsTime
  <2>2. Line803!Tells(c) = <<>>
      BY <1>9 DEF Line803!Tells
  <2> QED  BY <1>4, <2>1, <2>2
<1> QED  BY <1>5, <1>6, <1>7, <1>8, <1>9

FileKinds == [at : {"none", "short"}] \cup [at : {"whole"}, time : 0 .. 10]

LineTypes ==
    /\ phase \in {"down", "up"}
    /\ wire \in Seq(Octets) /\ buf \in Seq(Octets)
    /\ reading \in 0 .. 2
    /\ reading = 2 <=> Len(buf) = 1
    /\ reading = 1 <=> Len(buf) > 1
    /\ buf # <<>> => buf[1] = LineHead[1]
    /\ trktime \in 0 .. 3000
    /\ file \in FileKinds
    /\ told \in Seq(Messages) /\ good \in Seq(Messages)
    /\ file.at = "whole" => before \in 0 .. 10
    /\ sent \in 0 .. MaxLine /\ starts \in 0 .. MaxStarts

\* What left can be read back.
LineReports ==
    /\ com1.kind \in {"nothing", "error", "targets"}
    /\ com1.kind = "error" => com1.high \in Octets /\ com1.low \in Octets
    /\ Line803!ErrorReadsBack

\* The file keeps the time that was told last.
TimeOf(m) == m.cmd = "settrktime"
LastKept ==
    file.at = "whole" =>
        \/ (\A i \in 1 .. Len(told) : ~TimeOf(told[i])) /\ before = file.time
        \/ \E i \in 1 .. Len(told) : /\ TimeOf(told[i]) /\ told[i].prm = file.time
                                     /\ \A j \in i + 1 .. Len(told) : ~TimeOf(told[j])

\* What the image process was told at the start, and what is still to come.
AtStart == IF file.at = "whole" THEN <<[cmd |-> "settrktime", prm |-> before]>>
           ELSE Line803!ToldAtStart(file)
LineInFrame(c, s) ==
    /\ wire # <<>>
    /\ buf \o wire = Line803!Frame(c, s)
    /\ AtStart \o good = IF s = Line803!recvcheck_sum(c) /\ c # <<>> THEN told \o Line803!Tells(c)
                         ELSE told
LineInNoise ==
    /\ Quiet(LineHead, buf \o wire)
    /\ Len(buf) < 2
    /\ AtStart \o good = told
LineOnTheWay == (\E c \in LineContents, s \in Octets : LineInFrame(c, s)) \/ LineInNoise

LineInv == LineTypes /\ LineReports /\ LastKept /\ (phase = "up" => LineOnTheWay)

\* What a file tells at the start.
LEMMA FileIs ==
    ASSUME NEW f \in FileKinds
    PROVE  /\ f.at \in {"none", "short", "whole"}
           /\ f.at = "whole" => f.time \in 0 .. 10 /\ f \in [at : {"whole"}, time : 0 .. 10]
           /\ f.at # "whole" => f = [at |-> f.at]
           /\ Line803!TimeAtStart(f) \in 0 .. 3000 /\ Line803!TimeAtStart(f) \in Nat
           /\ f.at = "whole" => Line803!TimeAtStart(f) = f.time
<1>1. CASE f \in [at : {"none", "short"}]
  <2>1. f.at \in {"none", "short"} /\ f = [at |-> f.at]
      BY <1>1
  <2>2. Line803!TimeAtStart(f) \in {3, 3000}
      BY <2>1 DEF Line803!TimeAtStart, Line803!Short, Line803!NoFile
  <2> QED  BY <2>1, <2>2
<1>2. CASE f \in [at : {"whole"}, time : 0 .. 10]
  <2>1. f.at = "whole" /\ f.time \in 0 .. 10
      BY <1>2
  <2>2. Line803!TimeAtStart(f) = f.time
      BY <2>1 DEF Line803!TimeAtStart, Line803!Short, Line803!NoFile
  <2> QED  BY <1>2, <2>1, <2>2
<1> QED  BY <1>1, <1>2 DEF FileKinds

\* The time can be told.
LEMMA TimeMessage ==
    ASSUME NEW t \in Nat
    PROVE  /\ [cmd |-> "settrktime", prm |-> t] \in Messages
           /\ <<[cmd |-> "settrktime", prm |-> t]>> \in Seq(Messages)
           /\ Len(<<[cmd |-> "settrktime", prm |-> t]>>) = 1
<1>1. t \in Parameters
    BY ParametersAre
<1>2. [cmd |-> "settrktime", prm |-> t] \in Messages
    BY <1>1 DEF Messages, Orders
<1> QED  BY <1>2

\* What is told at the start is a sequence of messages.
LEMMA AtStartIs ==
    ASSUME LineTypes
    PROVE  AtStart \in Seq(Messages) /\ Line803!ToldAtStart(file) \in Seq(Messages)
<1>1. file \in FileKinds /\ (file.at = "whole" => before \in 0 .. 10)
    BY DEF LineTypes
<1>2. Line803!TimeAtStart(file) \in Nat
    BY <1>1, FileIs
<1>3. Line803!ToldAtStart(file) \in Seq(Messages)
  <2>1. CASE file.at = Line803!Short
      BY <2>1 DEF Line803!ToldAtStart
  <2>2. CASE file.at # Line803!Short
    <3>1. Line803!TimeAtStart(file) \in Nat
        BY <1>2
    <3>2. Line803!ToldAtStart(file) = <<[cmd |-> "settrktime", prm |-> Line803!TimeAtStart(file)]>>
        BY <2>2 DEF Line803!ToldAtStart, Line803!Message
    <3> QED  BY <3>1, <3>2, TimeMessage
  <2> QED  BY <2>1, <2>2
<1>4. file.at = "whole" => AtStart \in Seq(Messages)
    BY <1>1, TimeMessage DEF AtStart
<1> QED  BY <1>3, <1>4 DEF AtStart

\* The time told last is the one that is kept.
LEMMA LastIsKept ==
    ASSUME LineTypes, LastKept, file.at = "whole"
    PROVE  Line803!LastTime = file.time
<1>1. Len(told) \in Nat /\ DOMAIN told = 1 .. Len(told)
    BY LenProperties DEF LineTypes
<1>2. Line803!Times = {i \in 1 .. Len(told) : TimeOf(told[i])}
    BY <1>1 DEF Line803!Times, TimeOf
<1>3. CASE (\A i \in 1 .. Len(told) : ~TimeOf(told[i])) /\ before = file.time
    BY <1>2, <1>3 DEF Line803!LastTime
<1>4. ASSUME NEW i \in 1 .. Len(told), TimeOf(told[i]), told[i].prm = file.time,
             \A j \in i + 1 .. Len(told) : ~TimeOf(told[j])
      PROVE  Line803!LastTime = file.time
  <2> DEFINE T == Line803!Times
  <2>1. i \in T
      BY <1>2, <1>4
  <2>2. \A j \in T : j \in Int /\ j <= i
    <3> TAKE j \in T
    <3>1. j \in 1 .. Len(told) /\ TimeOf(told[j])
        BY <1>2
    <3>2. j \notin i + 1 .. Len(told)
        BY <1>4, <3>1
    <3> QED  BY <1>1, <3>1, <3>2
  <2>3. i \in Int
      BY <1>4
  <2> DEFINE k == CHOOSE n \in T : \A j \in T : j <= n
  <2>4. k \in T /\ \A j \in T : j <= k
      BY <2>1, <2>2
  <2> HIDE DEF k
  <2>5. k = i
      BY <2>1, <2>2, <2>3, <2>4
  <2>6. T # {}
      BY <2>1
  <2> QED  BY <1>4, <2>5, <2>6 DEF Line803!LastTime, k
<1> QED  BY <1>3, <1>4 DEF LastKept

\* What is told next is kept, or is no time.
LEMMA ToldMore ==
    ASSUME NEW s \in Seq(Messages), NEW t \in Seq(Messages)
    PROVE  /\ s \o t \in Seq(Messages) /\ Len(s) \in Nat /\ Len(s \o t) = Len(s) + Len(t)
           /\ \A i \in 1 .. Len(s) : (s \o t)[i] = s[i]
           /\ \A i \in Len(s) + 1 .. Len(s) + Len(t) : (s \o t)[i] = t[i - Len(s)]
           /\ Len(t) \in Nat
<1>1. /\ s \o t \in Seq(Messages) /\ Len(s \o t) = Len(s) + Len(t)
      /\ \A i \in 1 .. Len(s) + Len(t) : (s \o t)[i] = IF i <= Len(s) THEN s[i] ELSE t[i - Len(s)]
    BY ConcatProperties
<1>2. Len(s) \in Nat /\ Len(t) \in Nat
    BY LenProperties
<1>3. ASSUME NEW i \in 1 .. Len(s)
      PROVE  (s \o t)[i] = s[i]
    BY <1>1, <1>2
<1>4. ASSUME NEW i \in Len(s) + 1 .. Len(s) + Len(t)
      PROVE  (s \o t)[i] = t[i - Len(s)]
    BY <1>1, <1>2
<1> QED  BY <1>1, <1>2, <1>3, <1>4

\* A time that is told is kept, and what tells no time leaves the file alone.
LEMMA LastKeptOn ==
    ASSUME LineTypes, LastKept, NEW c \in Seq(Octets), c # <<>>,
           Line803!parsingComEvent(c), UNCHANGED before
    PROVE  LastKept'
<1>1. /\ told' = told \o Line803!Tells(c) /\ told \in Seq(Messages) /\ file \in FileKinds
      /\ Line803!Tells(c) \in Seq(Messages)
    BY TellsIs DEF Line803!parsingComEvent, LineTypes
<1> DEFINE t == Line803!Tells(c)
<1> DEFINE n == Len(told)
<1>2. /\ n \in Nat /\ Len(told') = n + Len(t) /\ Len(t) \in Nat
      /\ \A i \in 1 .. n : told'[i] = told[i]
      /\ \A i \in n + 1 .. n + Len(t) : told'[i] = t[i - n]
    BY <1>1, ToldMore
<1> HIDE DEF n, t
<1>3. CASE Line803!SetsTime(c)
  <2>1. /\ Line803!At(c, 5) \in 0 .. 10
        /\ t = <<[cmd |-> "settrktime", prm |-> Line803!At(c, 5)]>>
      BY <1>3, TellsIs DEF t
  <2>2. file' = Line803!Saved(Line803!At(c, 5))
      BY <1>3 DEF Line803!parsingComEvent
  <2>3. SUFFICES ASSUME file'.at = "whole"
                 PROVE  \E i \in 1 .. Len(told') :
                            /\ TimeOf(told'[i]) /\ told'[i].prm = file'.time
                            /\ \A j \in i + 1 .. Len(told') : ~TimeOf(told'[j])
      BY DEF LastKept
  <2>4. file'.time = Line803!At(c, 5)
    <3>1. CASE file.at = "whole"
      <4>1. file \in [at : {"whole"}, time : 0 .. 10]
          BY <1>1, <3>1, FileIs
      <4> QED  BY <2>2, <3>1, <4>1 DEF Line803!Saved
    <3>2. CASE file.at # "whole"
        BY <2>2, <2>3, <3>2 DEF Line803!Saved
    <3> QED  BY <3>1, <3>2
  <2>5. Len(t) = 1 /\ t[1] = [cmd |-> "settrktime", prm |-> Line803!At(c, 5)]
      BY <2>1
  <2>6. n + 1 \in 1 .. Len(told') /\ told'[n + 1] = t[1]
      BY <1>2, <2>5
  <2>7. TimeOf(told'[n + 1]) /\ told'[n + 1].prm = file'.time
      BY <2>4, <2>5, <2>6 DEF TimeOf
  <2>8. \A j \in (n + 1) + 1 .. Len(told') : ~TimeOf(told'[j])
      BY <1>2, <2>5
  <2> QED  BY <2>6, <2>7, <2>8
<1>4. CASE ~Line803!SetsTime(c)
  <2>1. \A i \in 1 .. Len(t) : ~TimeOf(t[i])
      BY <1>4, TellsIs DEF t, TimeOf
  <2>2. UNCHANGED file
      BY <1>4 DEF Line803!parsingComEvent
  <2>3. \A i \in n + 1 .. n + Len(t) : ~TimeOf(told'[i])
    <3> TAKE i \in n + 1 .. n + Len(t)
    <3>1. i - n \in 1 .. Len(t)
        BY <1>2
    <3> QED  BY <1>2, <2>1, <3>1
  <2>4. SUFFICES ASSUME file.at = "whole"
                 PROVE  \/ (\A i \in 1 .. Len(told') : ~TimeOf(told'[i])) /\ before = file.time
                        \/ \E i \in 1 .. Len(told') : 
                              /\ TimeOf(told'[i]) /\ told'[i].prm = file.time
                              /\ \A j \in i + 1 .. Len(told') : ~TimeOf(told'[j])
      BY <2>2 DEF LastKept
  <2>5. \A i \in 1 .. Len(told') : i \in 1 .. n \/ i \in n + 1 .. n + Len(t)
      BY <1>2
  <2>6. CASE (\A i \in 1 .. n : ~TimeOf(told[i])) /\ before = file.time
      BY <1>2, <2>3, <2>5, <2>6
  <2>7. ASSUME NEW i \in 1 .. n, TimeOf(told[i]), told[i].prm = file.time,
               \A j \in i + 1 .. n : ~TimeOf(told[j])
        PROVE  \E k \in 1 .. Len(told') : /\ TimeOf(told'[k]) /\ told'[k].prm = file.time
                                     /\ \A j \in k + 1 .. Len(told') : ~TimeOf(told'[j])
    <3>1. i \in 1 .. Len(told') /\ told'[i] = told[i]
        BY <1>2
    <3>2. ASSUME NEW j \in i + 1 .. Len(told')
          PROVE  ~TimeOf(told'[j])
      <4>1. j \in i + 1 .. n \/ j \in n + 1 .. n + Len(t)
          BY <1>2
      <4>2. CASE j \in i + 1 .. n
        <5>1. j \in 1 .. n
            BY <1>2, <4>2
        <5> QED  BY <1>2, <2>7, <4>2, <5>1
      <4> QED  BY <2>3, <4>1, <4>2
    <3> QED  BY <2>7, <3>1, <3>2
  <2> QED  BY <2>4, <2>6, <2>7 DEF LastKept, n
<1> QED  BY <1>3, <1>4

\* The program does not run yet.
LEMMA LineStart == ASSUME Line803!Init PROVE LineInv
<1>1. /\ phase = "down" /\ wire = <<>> /\ buf = <<>> /\ reading = 0 /\ trktime = 3
      /\ file \in Files /\ told = <<>> /\ good = <<>> /\ sent = 0 /\ starts = 0
    BY DEF Line803!Init
<1>2. com1.kind = "nothing" /\ made.kind = "nothing"
    BY DEF Line803!Init, Line803!Nothing
<1>3. before = Line803!TimeAtStart(file)
    BY DEF Line803!Init
<1>4. file \in FileKinds
    BY <1>1, FilesAssumed DEF FileKinds
<1>5. Len(buf) = 0
    BY <1>1
<1>6. sent \in 0 .. MaxLine /\ starts \in 0 .. MaxStarts
    BY <1>1, LineConstants
<1>7. file.at = "whole" => before = file.time /\ before \in 0 .. 10
    BY <1>3, <1>4, FileIs
<1>8. LineTypes
  <2>1. wire \in Seq(Octets) /\ buf \in Seq(Octets)
      BY <1>1
  <2>2. told \in Seq(Messages) /\ good \in Seq(Messages)
      BY <1>1
  <2>3. /\ reading \in 0 .. 2
        /\ reading = 2 <=> Len(buf) = 1
        /\ reading = 1 <=> Len(buf) > 1
      BY <1>1, <1>5
  <2>4. trktime \in 0 .. 3000
      BY <1>1
  <2>5. phase \in {"down", "up"}
      BY <1>1
  <2>6. buf # <<>> => buf[1] = LineHead[1]
      BY <1>1
  <2> QED  BY <1>4, <1>6, <1>7, <2>1, <2>2, <2>3, <2>4, <2>5, <2>6 DEF LineTypes
<1>9. LastKept
  <2>1. \A i \in 1 .. Len(told) : ~TimeOf(told[i])
      BY <1>1
  <2> QED  BY <1>7, <2>1 DEF LastKept
<1>10. LineReports
    BY <1>2 DEF LineReports, Line803!ErrorReadsBack
<1>11. phase # "up"
    BY <1>1
<1> QED  BY <1>8, <1>9, <1>10, <1>11 DEF LineInv

\* A start: the time that was kept is told again.
LEMMA StartsLine == ASSUME LineInv, Line803!readtrktime PROVE LineInv'
<1>1. /\ starts < MaxStarts /\ starts' = starts + 1
      /\ phase' = "up"
      /\ trktime' = Line803!TimeAtStart(file)
      /\ told' = Line803!ToldAtStart(file)
      /\ wire' = <<>> /\ buf' = <<>> /\ reading' = 0
      /\ good' = <<>>
      /\ before' = Line803!LastTime
      /\ UNCHANGED <<file, com1, sent, made>>
    BY DEF Line803!readtrktime
<1>2. LineTypes /\ LineReports /\ LastKept
    BY DEF LineInv
<1>3. file \in FileKinds /\ starts \in 0 .. MaxStarts /\ sent \in 0 .. MaxLine
    BY <1>2 DEF LineTypes
<1>4. file.at = "whole" => before' = file.time /\ file.time \in 0 .. 10
    BY <1>1, <1>2, <1>3, FileIs, LastIsKept
<1>5. starts' \in 0 .. MaxStarts
    BY <1>1, <1>3, LineConstants
<1>6. told' \in Seq(Messages)
    BY <1>1, <1>2, AtStartIs
<1>7. trktime' \in 0 .. 3000
  <2>1. Line803!TimeAtStart(file) \in 0 .. 3000
      BY <1>3, FileIs
  <2> QED  BY <1>1, <2>1
<1>8. LineTypes'
  <2>1. wire' \in Seq(Octets) /\ buf' \in Seq(Octets) /\ good' \in Seq(Messages)
      BY <1>1
  <2>2. Len(buf') = 0
      BY <1>1
  <2>3. /\ reading' \in 0 .. 2
        /\ reading' = 2 <=> Len(buf') = 1
        /\ reading' = 1 <=> Len(buf') > 1
      BY <1>1, <2>2
  <2>4. buf' # <<>> => buf'[1] = LineHead[1]
      BY <1>1
  <2>5. phase' \in {"down", "up"} /\ file' = file /\ sent' = sent
      BY <1>1
  <2> QED  BY <1>3, <1>4, <1>5, <1>6, <1>7, <2>1, <2>3, <2>4, <2>5 DEF LineTypes
<1>9. LineReports'
    BY <1>1, <1>2 DEF LineReports, Line803!ErrorReadsBack
<1>10. AtStart' = told'
  <2>1. CASE file.at = "whole"
    <3>1. Line803!ToldAtStart(file) = <<[cmd |-> "settrktime", prm |-> file.time]>>
        BY <1>3, <2>1, FileIs DEF Line803!ToldAtStart, Line803!Message, Line803!Short
    <3> QED  BY <1>1, <1>4, <2>1, <3>1 DEF AtStart
  <2>2. CASE file.at # "whole"
      BY <1>1, <2>2 DEF AtStart
  <2> QED  BY <2>1, <2>2
<1>11. LastKept'
  <2> SUFFICES ASSUME file.at = "whole"
               PROVE  \E i \in 1 .. Len(told') : /\ TimeOf(told'[i]) /\ told'[i].prm = file.time
                                     /\ \A j \in i + 1 .. Len(told') : ~TimeOf(told'[j])
      BY <1>1 DEF LastKept
  <2>1. told' = <<[cmd |-> "settrktime", prm |-> file.time]>>
      BY <1>1, <1>3, FileIs DEF Line803!ToldAtStart, Line803!Message, Line803!Short
  <2>2. Len(told') = 1 /\ told'[1] = [cmd |-> "settrktime", prm |-> file.time]
      BY <2>1
  <2>3. TimeOf(told'[1]) /\ told'[1].prm = file.time
      BY <2>2 DEF TimeOf
  <2> QED  BY <2>2, <2>3
<1>12. LineInNoise'
  <2>1. AtStart' \in Seq(Messages)
      BY <1>6, <1>10
  <2>2. AtStart' \o good' = told'
      BY <1>1, <1>10, <2>1, ConcatEmptySeq
  <2>3. buf' \o wire' = <<>> /\ Len(buf') = 0
      BY <1>1
  <2>4. Quiet(LineHead, <<>>)
      BY DEF Quiet
  <2> QED  BY <2>2, <2>3, <2>4 DEF LineInNoise
<1> QED  BY <1>8, <1>9, <1>11, <1>12 DEF LineInv, LineOnTheWay

\* The end leaves all but the phase.
LEMMA EndsLine == ASSUME LineInv, Line803!End PROVE LineInv'
<1>1. /\ phase' = "down"
      /\ UNCHANGED <<wire, buf, reading, trktime, file, told, com1, good, before, sent,
                     starts, made>>
    BY DEF Line803!End, Line803!input
<1>2. LineTypes /\ LineReports /\ LastKept
    BY DEF LineInv
<1>3. LineTypes'
    BY <1>1, <1>2 DEF LineTypes
<1>4. LineReports'
    BY <1>1, <1>2 DEF LineReports, Line803!ErrorReadsBack
<1>5. LastKept'
    BY <1>1, <1>2 DEF LastKept
<1>6. phase' # "up"
    BY <1>1
<1> QED  BY <1>3, <1>4, <1>5, <1>6 DEF LineInv

\* What is on its way is not disturbed by what leaves.
LEMMA LineLeaves ==
    ASSUME LineInv, Line803!Leaves, LineReports',
           UNCHANGED <<phase, wire, buf, reading, trktime, file, told, good, before, starts>>
    PROVE  LineInv'
<1>1. LineTypes /\ LineReports /\ LastKept /\ LineOnTheWay
    BY DEF LineInv, Line803!Leaves
<1>2. sent' \in 0 .. MaxLine
    BY <1>1, LineConstants DEF LineTypes, Line803!Leaves
<1>3. LineTypes'
    BY <1>1, <1>2 DEF LineTypes
<1>4. LastKept'
    BY <1>1 DEF LastKept
<1>5. LineOnTheWay'
    BY <1>1 DEF LineOnTheWay, LineInFrame, LineInNoise, AtStart
<1> QED  BY <1>3, <1>4, <1>5 DEF LineInv

\* The number behind MaxError.
LEMMA ErrorSize == Line803!MaxError \in Nat /\ Line803!MaxError = 32767
BY SMT DEF Line803!MaxError

\* Fifteen bits and a sign in two bytes.
LEMMA TwoBytesAndSign ==
    ASSUME NEW e \in -Line803!MaxError .. Line803!MaxError
    PROVE  /\ Line803!High(e) \in Octets /\ Line803!Low(e) \in Octets
           /\ e = IF Line803!High(e) >= 128
                  THEN -(256 * (Line803!High(e) - 128) + Line803!Low(e))
                  ELSE 256 * Line803!High(e) + Line803!Low(e)
<1> DEFINE m == Line803!MaxError
<1>a. m \in Nat
    BY ErrorSize
<1> HIDE DEF m
<1>b. e \in Int /\ -m <= e /\ e <= m
  <2>1. e \in -m .. m
      BY DEF m
  <2> QED  BY <1>a, <2>1
<1>c. m = 32767
    BY ErrorSize DEF m
<1>1. e \in Int /\ -32767 <= e /\ e <= 32767
    BY <1>a, <1>b, <1>c
<1>2. CASE e < 0
  <2> DEFINE q == (-e) \div 256
  <2> DEFINE r == (-e) % 256
  <2>1. q \in Int /\ r \in Int /\ 0 <= r /\ r <= 255 /\ -e = 256 * q + r
      BY <1>1, <1>2
  <2> HIDE DEF q, r
  <2>2. 0 <= q /\ q <= 127
      BY <1>1, <1>2, <2>1
  <2>3. Line803!High(e) = 128 + q /\ Line803!Low(e) = r
      BY <1>2 DEF Line803!High, Line803!Low, q, r
  <2> QED  BY <1>1, <2>1, <2>2, <2>3 DEF Octets
<1>3. CASE ~(e < 0)
  <2> DEFINE q == e \div 256
  <2> DEFINE r == e % 256
  <2>1. q \in Int /\ r \in Int /\ 0 <= r /\ r <= 255 /\ e = 256 * q + r
      BY <1>1, <1>3
  <2> HIDE DEF q, r
  <2>2. 0 <= q /\ q <= 127
      BY <1>1, <1>3, <2>1
  <2>3. Line803!High(e) = q /\ Line803!Low(e) = r
      BY <1>3 DEF Line803!High, Line803!Low, q, r
  <2> QED  BY <1>1, <2>1, <2>2, <2>3 DEF Octets
<1> QED  BY <1>2, <1>3

\* An error leaves.
LEMMA ErrorLeaves ==
    ASSUME LineInv, NEW e \in Errors, NEW s \in 0 .. 1, Line803!sendtrkerr(e, s, 4 * s)
    PROVE  LineInv'
<1>1. /\ Line803!Leaves
      /\ com1'.kind = "error" /\ com1'.high = Line803!High(e) /\ com1'.low = Line803!Low(e)
      /\ made'.error = e
      /\ UNCHANGED <<phase, wire, buf, reading, trktime, file, told, good, before, starts>>
    BY DEF Line803!sendtrkerr, Line803!input
<1>2. e \in -Line803!MaxError .. Line803!MaxError
    BY ErrorsAssumed
<1>3. LineReports'
    BY <1>1, <1>2, TwoBytesAndSign DEF LineReports, Line803!ErrorReadsBack
<1> QED  BY <1>1, <1>3, LineLeaves

\* The targets leave.
LEMMA TargetsLeave ==
    ASSUME LineInv, NEW ch, Line803!sendmtdprm(360, ch)
    PROVE  LineInv'
<1>1. /\ Line803!Leaves
      /\ com1'.kind = "targets" /\ made'.kind = "targets"
      /\ UNCHANGED <<phase, wire, buf, reading, trktime, file, told, good, before, starts>>
    BY DEF Line803!sendmtdprm, Line803!input
<1>2. LineReports'
    BY <1>1 DEF LineReports, Line803!ErrorReadsBack
<1> QED  BY <1>1, <1>2, LineLeaves

\* When the bytes of the line are used up nothing of them is kept.
LEMMA LineNothingKept ==
    ASSUME LineInv, phase = "up", wire = <<>>
    PROVE  buf = <<>> /\ AtStart \o good = told
<1>1. LineInNoise
    BY DEF LineInv, LineOnTheWay, LineInFrame
<1>2. buf \in Seq(Octets) /\ (buf # <<>> => buf[1] = LineHead[1])
    BY DEF LineInv, LineTypes
<1>3. Quiet(LineHead, buf \o <<>>) /\ Len(buf) < 2
    BY <1>1 DEF LineInNoise
<1>4. buf = <<>>
    BY <1>2, <1>3, QuietEnd
<1> QED  BY <1>1, <1>4 DEF LineInNoise

\* What is told may be put together in either order.
LEMMA Regrouped ==
    ASSUME NEW a \in Seq(Messages), NEW g \in Seq(Messages), NEW t \in Seq(Messages)
    PROVE  (a \o g) \o t = a \o (g \o t)
BY ConcatAssociative, SMT

\* A frame or noise arrives.
LEMMA LineArrives == ASSUME LineInv, Line803!Arrive PROVE LineInv'
<1>1. /\ phase = "up" /\ wire = <<>> /\ sent < MaxLine /\ sent' = sent + 1
      /\ UNCHANGED <<phase, buf, reading, trktime, file, told, com1, before, starts, made>>
    BY DEF Line803!Arrive
<1>2. LineTypes /\ LineReports /\ LastKept
    BY DEF LineInv
<1>3. buf = <<>> /\ buf' = <<>> /\ AtStart \o good = told
    BY <1>1, LineNothingKept
<1>4. sent' \in 0 .. MaxLine
    BY <1>1, <1>2, LineConstants DEF LineTypes
<1>5. LineReports'
    BY <1>1, <1>2 DEF LineReports, Line803!ErrorReadsBack
<1>6. LastKept'
    BY <1>1, <1>2 DEF LastKept
<1>7. AtStart' = AtStart /\ AtStart \in Seq(Messages) /\ good \in Seq(Messages)
    BY <1>1, <1>2, AtStartIs DEF AtStart, LineTypes
<1>8. ASSUME wire' \in Seq(Octets), good' \in Seq(Messages), LineOnTheWay'
      PROVE  LineInv'
  <2>1. LineTypes'
      BY <1>1, <1>2, <1>4, <1>8 DEF LineTypes
  <2> QED  BY <1>5, <1>6, <1>8, <2>1 DEF LineInv
<1>9. ASSUME NEW c \in LineContents, NEW ok \in BOOLEAN,
             wire' = Line803!Frame(c, IF ok THEN Line803!recvcheck_sum(c)
                                      ELSE Line803!Spoilt(Line803!recvcheck_sum(c))),
             good' = IF ok /\ c # <<>> THEN good \o Line803!Tells(c) ELSE good
      PROVE  LineInv'
  <2> DEFINE s == IF ok THEN Line803!recvcheck_sum(c) ELSE Line803!Spoilt(Line803!recvcheck_sum(c))
  <2> DEFINE F == Line803!Frame(c, s)
  <2>1. c \in Seq(Octets)
      BY LineConstants
  <2>2. s \in Octets /\ (s = Line803!recvcheck_sum(c) <=> ok)
      BY <2>1, LineSums
  <2>3. wire' = F
      BY <1>9
  <2> HIDE DEF s
  <2>4. F \in Seq(Octets) /\ Len(F) = Len(c) + 5 /\ Len(c) \in Nat
      BY <2>1, <2>2, LineFrameIs, LenProperties DEF IsFrame
  <2> HIDE DEF F
  <2>5. F # <<>>
      BY <2>4
  <2>6. buf' \o wire' = F
      BY <1>3, <2>3, <2>4, ConcatEmptySeq
  <2>7. c # <<>> => Line803!Tells(c) \in Seq(Messages)
      BY <2>1, TellsIs
  <2>8. good' \in Seq(Messages)
      BY <1>7, <1>9, <2>7, ConcatProperties
  <2>9. c # <<>> => AtStart \o (good \o Line803!Tells(c)) = told \o Line803!Tells(c)
    <3> DEFINE t == Line803!Tells(c)
    <3> DEFINE a == AtStart
    <3> HIDE DEF t, a
    <3>1. c # <<>> => t \in Seq(Messages)
        BY <2>7 DEF t
    <3>2. a \in Seq(Messages) /\ good \in Seq(Messages) /\ a \o good = told
        BY <1>3, <1>7 DEF a
    <3>3. ASSUME c # <<>>
          PROVE  a \o (good \o t) = told \o t
      <4>1. t \in Seq(Messages) /\ a \in Seq(Messages) /\ good \in Seq(Messages)
          BY <3>1, <3>2, <3>3
      <4>2. (a \o good) \o t = a \o (good \o t)
          BY <4>1, Regrouped
      <4> QED  BY <3>2, <4>2
    <3> QED  BY <3>3 DEF a, t
  <2>10. AtStart' \o good' = IF s = Line803!recvcheck_sum(c) /\ c # <<>>
                             THEN told' \o Line803!Tells(c) ELSE told'
      BY <1>1, <1>3, <1>7, <1>9, <2>2, <2>9
  <2>11. LineInFrame(c, s)'
      BY <2>3, <2>5, <2>6, <2>10 DEF LineInFrame, F
  <2>12. LineOnTheWay'
      BY <2>2, <2>11 DEF LineOnTheWay
  <2> QED  BY <1>8, <2>3, <2>4, <2>8, <2>12
<1>10. ASSUME wire' \in LineNoise, UNCHANGED good
       PROVE  LineInv'
  <2>1. wire' \in Seq(Octets) /\ Quiet(LineHead, wire')
      BY <1>10, LineConstants
  <2>2. buf' \o wire' = wire' /\ Len(buf') = 0
      BY <1>3, <2>1, ConcatEmptySeq
  <2>3. AtStart' \o good' = told'
      BY <1>1, <1>3, <1>7, <1>10
  <2>4. LineInNoise'
      BY <2>1, <2>2, <2>3 DEF LineInNoise
  <2> QED  BY <1>2, <1>8, <1>10, <2>1, <2>4 DEF LineOnTheWay, LineTypes
<1> QED  BY <1>9, <1>10 DEF Line803!Arrive

\* What a byte makes of the buffer.
LineGrows(b) ==
    LET f == Append(buf, b) IN
    \/ buf' = <<>> /\ reading' = 0
    \/ /\ buf' = f /\ reading # 1 /\ reading' = (IF Len(buf) = 1 THEN 1 ELSE 2)
       /\ buf = <<>> => b = LineHead[1]
    \/ buf' = f /\ reading = 1 /\ reading' = reading

\* The byte taken.
LEMMA LineTaking ==
    ASSUME LineInv, Line803!findValidData
    PROVE  /\ Head(wire) \in Octets /\ wire # <<>> /\ wire \in Seq(Octets)
           /\ Tail(wire) \in Seq(Octets) /\ wire' = Tail(wire)
           /\ Len(buf) \in Nat /\ buf \in Seq(Octets)
           /\ Append(buf, Head(wire)) \in Seq(Octets)
           /\ Len(Append(buf, Head(wire))) = Len(buf) + 1
           /\ Append(buf, Head(wire))[Len(buf) + 1] = Head(wire)
           /\ Append(buf, Head(wire))[1] = IF buf = <<>> THEN Head(wire) ELSE buf[1]
           /\ buf = <<>> <=> Len(buf) = 0
           /\ phase = "up" /\ UNCHANGED <<com1, good, before, sent, starts, made>>
<1>1. /\ wire # <<>> /\ wire' = Tail(wire) /\ phase = "up"
      /\ UNCHANGED <<com1, good, before, sent, starts, made>>
    BY DEF Line803!findValidData
<1>2. wire \in Seq(Octets) /\ buf \in Seq(Octets)
    BY DEF LineInv, LineTypes
<1> DEFINE b == Head(wire)
<1>3. b \in Octets /\ Tail(wire) \in Seq(Octets)
    BY <1>1, <1>2, Without
<1> HIDE DEF b
<1>4. /\ Append(buf, b) \in Seq(Octets) /\ Len(buf) \in Nat /\ Len(Append(buf, b)) = Len(buf) + 1
      /\ Append(buf, b)[Len(buf) + 1] = b
      /\ \A i \in 1 .. Len(buf) : Append(buf, b)[i] = buf[i]
    BY <1>2, <1>3, With
<1>5. buf = <<>> <=> Len(buf) = 0
    BY <1>2, EmptySeq
<1>6. Append(buf, b)[1] = IF buf = <<>> THEN b ELSE buf[1]
    BY <1>4, <1>5
<1> QED  BY <1>1, <1>2, <1>3, <1>4, <1>5, <1>6 DEF b

\* A frame is handed on, or the byte was not the last one of a good frame.
LineHandled(b) ==
    LET f == Append(buf, b)
        c == SubSeq(f, 5, Len(f) - 1)
    IN  \/ UNCHANGED <<phase, trktime, file, told>>
        \/ c # <<>> /\ c \in Seq(Octets) /\ Line803!parsingComEvent(c)

\* What becomes of the buffer, and of a frame that is complete.
LEMMA LineByte ==
    ASSUME LineInv, Line803!findValidData
    PROVE  LineGrows(Head(wire)) /\ LineHandled(Head(wire))
<1> DEFINE b == Head(wire)
<1> DEFINE f == Append(buf, b)
<1>1. /\ f \in Seq(Octets) /\ Len(f) = Len(buf) + 1 /\ Len(buf) \in Nat
      /\ (buf = <<>> <=> Len(buf) = 0)
    BY LineTaking
<1>2. Line803!frame_head[1] = LineHead[1]
    BY LineConstants
<1>3. /\ reading \in 0 .. 2
      /\ reading = 2 <=> Len(buf) = 1
      /\ reading = 1 <=> Len(buf) > 1
    BY DEF LineInv, LineTypes
<1> HIDE DEF b, f
<1>4. CASE reading = 1
  <2>1. Line803!Collect(b)
      BY <1>4 DEF Line803!findValidData, b
  <2>2. LineGrows(b)
      BY <1>4, <2>1 DEF Line803!Collect, LineGrows, f
  <2> DEFINE c == SubSeq(f, 5, Len(f) - 1)
  <2>3. c \in Seq(Octets)
    <3>1. \A i \in 5 .. Len(f) - 1 : f[i] \in Octets
        BY <1>1, ElementOfSeq
    <3>2. 5 \in Int /\ Len(f) - 1 \in Int
        BY <1>1
    <3> QED  BY <3>1, <3>2, SubSeqProperties
  <2>4. \/ UNCHANGED <<phase, trktime, file, told>>
        \/ c # <<>> /\ Line803!parsingComEvent(c)
      BY <2>1 DEF Line803!Collect, f
  <2>5. LineHandled(b)
      BY <2>3, <2>4 DEF LineHandled, f
  <2> QED  BY <2>2, <2>5 DEF b
<1>5. CASE reading # 1
  <2>1. Line803!Hunt(b)
      BY <1>5 DEF Line803!findValidData, b
  <2>2. LineHandled(b)
      BY <2>1 DEF Line803!Hunt, LineHandled
  <2>3. CASE b = Line803!frame_head[Len(buf) + 1]
    <3>1. buf' = f /\ reading' = 2 - Len(buf)
        BY <2>1, <2>3 DEF Line803!Hunt, f
    <3>2. Len(buf) = 0 \/ Len(buf) = 1
      <4> DEFINE k == Len(buf)
      <4>1. k \in Nat /\ ~(k > 1)
          BY <1>1, <1>3, <1>5
      <4> HIDE DEF k
      <4>2. k = 0 \/ k = 1
          BY <4>1
      <4> QED  BY <4>2 DEF k
    <3>3. reading' = (IF Len(buf) = 1 THEN 1 ELSE 2)
      <4> DEFINE k == Len(buf)
      <4>1. reading' = 2 - k /\ (k = 0 \/ k = 1)
          BY <3>1, <3>2
      <4> HIDE DEF k
      <4>2. reading' = (IF k = 1 THEN 1 ELSE 2)
          BY <4>1
      <4> QED  BY <4>2 DEF k
    <3>4. buf = <<>> => b = LineHead[1]
        BY <1>1, <1>2, <2>3
    <3> QED  BY <1>5, <2>2, <3>1, <3>3, <3>4 DEF LineGrows, f, b
  <2>4. CASE b # Line803!frame_head[Len(buf) + 1]
    <3>1. buf' = <<>> /\ reading' = 0
        BY <2>1, <2>4 DEF Line803!Hunt
    <3> QED  BY <2>2, <3>1 DEF LineGrows, b
  <2> QED  BY <2>3, <2>4
<1> QED  BY <1>4, <1>5

\* The file, the times and what has been told keep their types.
LEMMA HandledTypes ==
    ASSUME LineTypes, LastKept, NEW b, LineHandled(b), UNCHANGED before, phase = "up"
    PROVE  /\ phase' \in {"down", "up"} /\ trktime' \in 0 .. 3000 /\ file' \in FileKinds
           /\ file'.at = file.at /\ told' \in Seq(Messages) /\ LastKept'
<1>1. file \in FileKinds /\ told \in Seq(Messages) /\ trktime \in 0 .. 3000
    BY DEF LineTypes
<1>2. CASE UNCHANGED <<phase, trktime, file, told>>
    BY <1>1, <1>2 DEF LastKept
<1>3. ASSUME NEW c \in Seq(Octets), c # <<>>, Line803!parsingComEvent(c)
      PROVE  /\ phase' \in {"down", "up"} /\ trktime' \in 0 .. 3000 /\ file' \in FileKinds
             /\ file'.at = file.at /\ told' \in Seq(Messages) /\ LastKept'
  <2>1. Line803!Tells(c) \in Seq(Messages)
        /\ (Line803!SetsTime(c) => Line803!At(c, 5) \in 0 .. 10)
      BY <1>3, TellsIs
  <2>2. told' \in Seq(Messages)
      BY <1>1, <1>3, <2>1, ToldMore DEF Line803!parsingComEvent
  <2>3. phase' \in {"down", "up"}
      BY <1>3 DEF Line803!parsingComEvent
  <2>4. LastKept'
      BY <1>3, LastKeptOn
  <2>5. CASE Line803!SetsTime(c)
    <3>1. trktime' = Line803!At(c, 5) /\ file' = Line803!Saved(Line803!At(c, 5))
        BY <1>3, <2>5 DEF Line803!parsingComEvent
    <3> DEFINE t == Line803!At(c, 5)
    <3>2. t \in 0 .. 10
        BY <2>1, <2>5
    <3>a. trktime' = t /\ file' = Line803!Saved(t)
        BY <3>1
    <3> HIDE DEF t
    <3>3. trktime' \in 0 .. 3000
        BY <3>a, <3>2
    <3>4. CASE file.at = "whole"
      <4>1. file \in [at : {"whole"}, time : 0 .. 10]
          BY <1>1, <3>4, FileIs
      <4>2. file' = [file EXCEPT !.time = t]
          BY <3>a, <3>4 DEF Line803!Saved
      <4>3. file' \in [at : {"whole"}, time : 0 .. 10] /\ file'.at = file.at
          BY <3>2, <4>1, <4>2
      <4> QED  BY <2>2, <2>3, <2>4, <3>3, <4>3 DEF FileKinds
    <3>5. CASE file.at # "whole"
      <4>1. file' = file
          BY <3>a, <3>5 DEF Line803!Saved
      <4> QED  BY <1>1, <2>2, <2>3, <2>4, <3>3, <4>1
    <3> QED  BY <3>4, <3>5
  <2>6. CASE ~Line803!SetsTime(c)
    <3>1. UNCHANGED <<trktime, file>>
        BY <1>3, <2>6 DEF Line803!parsingComEvent
    <3> QED  BY <1>1, <2>2, <2>3, <2>4, <3>1
  <2> QED  BY <2>5, <2>6
<1> QED  BY <1>2, <1>3 DEF LineHandled

\* A byte keeps the types, the file and what left.
LEMMA LineByteTypes ==
    ASSUME LineInv, Line803!findValidData
    PROVE  LineTypes' /\ LastKept' /\ LineReports' /\ AtStart' = AtStart
<1> DEFINE b == Head(wire)
<1> DEFINE f == Append(buf, b)
<1>1. /\ wire' \in Seq(Octets)
      /\ Len(buf) \in Nat /\ f \in Seq(Octets) /\ Len(f) = Len(buf) + 1
      /\ f[1] = IF buf = <<>> THEN b ELSE buf[1]
      /\ buf = <<>> <=> Len(buf) = 0
      /\ phase = "up" /\ UNCHANGED <<com1, good, before, sent, starts, made>>
    BY LineTaking
<1>2. LineGrows(b) /\ LineHandled(b)
    BY LineByte
<1>3. LineTypes /\ LastKept /\ LineReports
    BY DEF LineInv
<1> HIDE DEF b, f
<1>4. /\ phase' \in {"down", "up"} /\ trktime' \in 0 .. 3000 /\ file' \in FileKinds
      /\ file'.at = file.at /\ told' \in Seq(Messages) /\ LastKept'
    BY <1>1, <1>2, <1>3, HandledTypes
<1>5. AtStart' = AtStart
  <2>1. file \in FileKinds
      BY <1>3 DEF LineTypes
  <2>2. CASE file.at = "whole"
      BY <1>1, <1>4, <2>2 DEF AtStart
  <2>3. CASE file.at # "whole"
    <3>1. file = [at |-> file.at] /\ file' = [at |-> file'.at]
        BY <1>4, <2>1, <2>3, FileIs
    <3>2. file' = file
        BY <1>4, <3>1
    <3> QED  BY <2>3, <3>2 DEF AtStart
  <2> QED  BY <2>2, <2>3
<1>6. LineReports'
    BY <1>1, <1>3 DEF LineReports, Line803!ErrorReadsBack
<1>7. /\ buf' \in Seq(Octets) /\ reading' \in 0 .. 2
      /\ reading' = 2 <=> Len(buf') = 1
      /\ reading' = 1 <=> Len(buf') > 1
      /\ buf' # <<>> => buf'[1] = LineHead[1]
  <2>1. /\ reading \in 0 .. 2 /\ (reading = 2 <=> Len(buf) = 1) /\ (reading = 1 <=> Len(buf) > 1)
        /\ (buf # <<>> => buf[1] = LineHead[1])
      BY <1>3 DEF LineTypes
  <2>2. CASE buf' = <<>> /\ reading' = 0
    <3>1. buf' \in Seq(Octets) /\ Len(buf') = 0
        BY <2>2
    <3> QED  BY <2>2, <3>1
  <2>3. CASE buf' = f /\ reading # 1 /\ reading' = (IF Len(buf) = 1 THEN 1 ELSE 2)
             /\ (buf = <<>> => b = LineHead[1])
    <3>1. Len(buf) = 0 \/ Len(buf) = 1
      <4> DEFINE k == Len(buf)
      <4>1. k \in Nat /\ ~(k > 1)
          BY <1>1, <2>1, <2>3
      <4> HIDE DEF k
      <4>2. k = 0 \/ k = 1
          BY <4>1
      <4> QED  BY <4>2 DEF k
    <3>2. f[1] = LineHead[1]
        BY <1>1, <2>1, <2>3
    <3> DEFINE k == Len(buf)
    <3>3. (k = 0 \/ k = 1) /\ Len(buf') = k + 1 /\ reading' = (IF k = 1 THEN 1 ELSE 2)
        BY <1>1, <2>3, <3>1
    <3> DEFINE n == Len(buf')
    <3> HIDE DEF k, n
    <3>4. reading' \in 0 .. 2 /\ (reading' = 2 <=> n = 1) /\ (reading' = 1 <=> n > 1)
        BY <3>3 DEF n
    <3>5. buf' \in Seq(Octets) /\ buf'[1] = LineHead[1]
        BY <1>1, <2>3, <3>2
    <3> QED  BY <3>4, <3>5 DEF n
  <2>4. CASE buf' = f /\ reading = 1 /\ reading' = reading
    <3>1. Len(buf) > 1 /\ Len(f) > 1 /\ ~(Len(f) = 1)
        BY <1>1, <2>1, <2>4
    <3>2. f[1] = LineHead[1]
        BY <1>1, <2>1, <3>1
    <3> QED  BY <1>1, <2>4, <3>1, <3>2
  <2> QED  BY <1>2, <2>2, <2>3, <2>4 DEF LineGrows, f
<1>8. LineTypes'
  <2>1. file'.at = "whole" => before' \in 0 .. 10
      BY <1>1, <1>3, <1>4 DEF LineTypes
  <2>2. good' \in Seq(Messages) /\ sent' \in 0 .. MaxLine /\ starts' \in 0 .. MaxStarts
      BY <1>1, <1>3 DEF LineTypes
  <2> QED  BY <1>1, <1>4, <1>7, <2>1, <2>2 DEF LineTypes
<1> QED  BY <1>4, <1>5, <1>6, <1>8

\* The number of its bytes makes a frame of the line complete.
LEMMA LineCompletes ==
    ASSUME NEW c \in LineContents, NEW f \in Seq(Octets),
           Len(f) >= 4 => f[3] = LineLength(c)[1] /\ f[4] = LineLength(c)[2]
    PROVE  Line803!Complete(f) <=> Len(f) = Len(c) + 5
<1>1. c \in Seq(Octets) /\ Len(c) \in Nat /\ LineLength(c)[1] = 0 /\ LineLength(c)[2] = Len(c)
  <2>1. 0 \in Octets
      BY DEF Octets
  <2> QED  BY <2>1, LineFrameIs, LenProperties
<1>2. ASSUME Len(f) >= 4
      PROVE  256 * f[3] + f[4] + 5 = Len(c) + 5
  <2>1. f[3] = 0 /\ f[4] = Len(c)
      BY <1>1, <1>2
  <2> QED  BY <1>1, <2>1
<1>3. Len(f) = Len(c) + 5 => Len(f) >= 4
    BY <1>1
<1> QED  BY <1>2, <1>3 DEF Line803!Complete

\* A byte of a frame that is on its way.
LEMMA ByteInFrame ==
    ASSUME LineInv, Line803!findValidData, NEW c \in LineContents, NEW s \in Octets,
           LineInFrame(c, s)
    PROVE  LineOnTheWay'
<1> DEFINE w == wire
<1> DEFINE b == Head(w)
<1> DEFINE f == Append(buf, b)
<1> DEFINE F == Line803!Frame(c, s)
<1>1. /\ w # <<>> /\ w \in Seq(Octets) /\ Tail(w) \in Seq(Octets) /\ wire' = Tail(w)
      /\ Len(buf) \in Nat /\ buf \in Seq(Octets) /\ f \in Seq(Octets) /\ Len(f) = Len(buf) + 1
      /\ UNCHANGED good
    BY LineTaking
<1>2. AtStart' = AtStart
    BY LineByteTypes
<1>3. /\ reading \in 0 .. 2
      /\ reading = 2 <=> Len(buf) = 1
      /\ reading = 1 <=> Len(buf) > 1
    BY DEF LineInv, LineTypes
<1>4. /\ LineLength(c) \in Pairs /\ c \in Seq(Octets) /\ Len(c) \in Nat
      /\ IsFrame(F, LineHead, LineLength(c), c, s)
    BY LineFrameIs, LenProperties
<1>5. LineHead \in Pairs /\ Line803!frame_head = LineHead
    BY LineConstants
<1>6. F = buf \o w
    BY DEF LineInFrame
<1>7. /\ f \o Tail(w) = F
      /\ Len(buf) = 0 => b = LineHead[1]
      /\ Len(buf) = 1 => b = LineHead[2]
      /\ Tail(w) = <<>> <=> Len(f) = Len(c) + 5
      /\ Len(f) >= 4 => f[3] = LineLength(c)[1] /\ f[4] = LineLength(c)[2]
      /\ Len(f) = Len(c) + 5 => SubSeq(f, 5, Len(f) - 1) = c /\ b = s
  <2> HIDE DEF F
  <2>1. GoesOn(F, LineHead, LineLength(c), c, s, buf, b, Tail(w))
      BY <1>1, <1>4, <1>5, <1>6, FramedNext
  <2> HIDE DEF b, w
  <2> QED  BY <2>1 DEF GoesOn
<1>8. AtStart \o good = IF s = Line803!recvcheck_sum(c) /\ c # <<>> THEN told \o Line803!Tells(c)
                        ELSE told
    BY DEF LineInFrame
<1> HIDE DEF F, b, f
\* It goes on.
<1>9. ASSUME buf' = f, UNCHANGED told, Len(f) # Len(c) + 5
      PROVE  LineOnTheWay'
  <2>1. wire' # <<>>
      BY <1>1, <1>7, <1>9
  <2>2. buf' \o wire' = F
      BY <1>1, <1>7, <1>9
  <2>3. LineInFrame(c, s)'
      BY <1>1, <1>2, <1>8, <1>9, <2>1, <2>2 DEF LineInFrame, F
  <2> QED  BY <2>3 DEF LineOnTheWay
<1>10. CASE reading = 1
  <2>1. Line803!Collect(b)
      BY <1>10 DEF Line803!findValidData, b
  <2>2. Line803!Complete(f) <=> Len(f) = Len(c) + 5
      BY <1>1, <1>7, LineCompletes
  <2>3. CASE ~Line803!Complete(f)
    <3>1. buf' = f /\ UNCHANGED told
        BY <2>1, <2>3 DEF Line803!Collect, f
    <3> QED  BY <1>9, <2>2, <2>3, <3>1
  <2>4. CASE Line803!Complete(f)
    <3>1. SubSeq(f, 5, Len(f) - 1) = c /\ b = s /\ Tail(w) = <<>>
        BY <1>7, <2>2, <2>4
    <3>2. /\ buf' = <<>>
          /\ IF c # <<>> /\ Line803!recvcheck_sum(c) = b
             THEN Line803!parsingComEvent(c)
             ELSE UNCHANGED <<phase, trktime, file, told>>
        BY <2>1, <2>4, <3>1 DEF Line803!Collect, f
    <3>3. told' = AtStart \o good
      <4>1. CASE c # <<>> /\ Line803!recvcheck_sum(c) = b
        <5>1. told' = told \o Line803!Tells(c)
            BY <3>2, <4>1 DEF Line803!parsingComEvent
        <5> QED  BY <1>8, <3>1, <4>1, <5>1
      <4>2. CASE ~(c # <<>> /\ Line803!recvcheck_sum(c) = b)
          BY <1>8, <3>1, <3>2, <4>2
      <4> QED  BY <4>1, <4>2
    <3>4. buf' \o wire' = <<>> /\ Len(buf') < 2
        BY <1>1, <3>1, <3>2
    <3>a. AtStart' \o good' = told'
        BY <1>1, <1>2, <3>3
    <3>5. Quiet(LineHead, <<>>)
        BY DEF Quiet
    <3>6. LineInNoise'
        BY <3>4, <3>5, <3>a DEF LineInNoise
    <3> QED  BY <3>6 DEF LineOnTheWay
  <2> QED  BY <2>3, <2>4
<1>11. CASE reading # 1
  <2>1. Line803!Hunt(b)
      BY <1>11 DEF Line803!findValidData, b
  <2>2. Len(buf) = 0 \/ Len(buf) = 1
    <3> DEFINE k == Len(buf)
    <3>1. k \in Nat /\ ~(k > 1)
        BY <1>1, <1>3, <1>11
    <3> HIDE DEF k
    <3>2. k = 0 \/ k = 1
        BY <3>1
    <3> QED  BY <3>2 DEF k
  <2>3. b = LineHead[Len(buf) + 1]
    <3>1. CASE Len(buf) = 0
        BY <1>7, <3>1
    <3>2. CASE Len(buf) = 1
        BY <1>7, <3>2
    <3> QED  BY <2>2, <3>1, <3>2
  <2>4. buf' = f /\ UNCHANGED told
      BY <1>5, <2>1, <2>3 DEF Line803!Hunt, f
  <2>5. Len(f) # Len(c) + 5
    <3> DEFINE k == Len(buf)
    <3> DEFINE n == Len(f)
    <3> DEFINE p == Len(c)
    <3>1. (k = 0 \/ k = 1) /\ n = k + 1 /\ p \in Nat
        BY <1>1, <1>4, <2>2
    <3> HIDE DEF k, n, p
    <3>2. n # p + 5
        BY <3>1
    <3> QED  BY <3>2 DEF n, p
  <2> QED  BY <1>9, <2>4, <2>5
<1> QED  BY <1>10, <1>11

\* A byte of noise.
LEMMA ByteInNoise ==
    ASSUME LineInv, Line803!findValidData, LineInNoise
    PROVE  LineOnTheWay'
<1> DEFINE w == wire
<1> DEFINE b == Head(w)
<1> DEFINE f == Append(buf, b)
<1>1. /\ w # <<>> /\ w \in Seq(Octets) /\ Tail(w) \in Seq(Octets) /\ wire' = Tail(w)
      /\ Len(buf) \in Nat /\ buf \in Seq(Octets) /\ Len(f) = Len(buf) + 1
      /\ buf = <<>> <=> Len(buf) = 0
      /\ UNCHANGED good
    BY LineTaking
<1>2. AtStart' = AtStart
    BY LineByteTypes
<1>3. /\ reading = 1 <=> Len(buf) > 1
      /\ buf # <<>> => buf[1] = LineHead[1]
    BY DEF LineInv, LineTypes
<1>4. LineHead \in Pairs /\ Line803!frame_head = LineHead
    BY LineConstants
<1>5. Quiet(LineHead, buf \o w) /\ Len(buf) < 2 /\ AtStart \o good = told
    BY DEF LineInNoise
<1>6. /\ Quiet(LineHead, Tail(w)) /\ Quiet(LineHead, f \o Tail(w))
      /\ Len(buf) = 1 /\ buf[1] = LineHead[1] => b # LineHead[2]
  <2>1. \A g : g = Append(buf, Head(w)) =>
          /\ Quiet(LineHead, Tail(w)) /\ Quiet(LineHead, g \o Tail(w))
          /\ Len(buf) = 1 /\ buf[1] = LineHead[1] => Head(w) # LineHead[2]
      BY <1>1, <1>4, <1>5, QuietNext
  <2> QED  BY <2>1
<1> HIDE DEF b, f
<1>7. reading # 1
    BY <1>1, <1>3, <1>5
<1>8. Line803!Hunt(b)
    BY <1>7 DEF Line803!findValidData, b
<1>9. UNCHANGED told
    BY <1>8 DEF Line803!Hunt
<1>10. CASE b = LineHead[Len(buf) + 1]
  <2>1. buf' = f
      BY <1>4, <1>8, <1>10 DEF Line803!Hunt, f
  <2>2. Len(buf) # 1
    <3> SUFFICES ASSUME Len(buf) = 1
                 PROVE  FALSE
        OBVIOUS
    <3>1. buf # <<>> /\ buf[1] = LineHead[1]
        BY <1>1, <1>3
    <3>2. Len(buf) + 1 = 2
        OBVIOUS
    <3>3. b = LineHead[2]
        BY <1>10, <3>2
    <3> QED  BY <1>6, <3>1, <3>3
  <2>3. Len(f) < 2
    <3> DEFINE k == Len(buf)
    <3> DEFINE n == Len(f)
    <3>1. k \in Nat /\ k < 2 /\ k # 1 /\ n = k + 1
        BY <1>1, <1>5, <2>2
    <3> HIDE DEF k, n
    <3>2. n < 2
        BY <3>1
    <3> QED  BY <3>2 DEF n
  <2>4. LineInNoise'
      BY <1>1, <1>2, <1>5, <1>6, <1>9, <2>1, <2>3 DEF LineInNoise
  <2> QED  BY <2>4 DEF LineOnTheWay
<1>11. CASE b # LineHead[Len(buf) + 1]
  <2>1. buf' = <<>>
      BY <1>4, <1>8, <1>11 DEF Line803!Hunt
  <2>2. buf' \o wire' = Tail(w) /\ Len(buf') = 0
      BY <1>1, <2>1, ConcatEmptySeq
  <2>3. LineInNoise'
      BY <1>1, <1>2, <1>5, <1>6, <1>9, <2>2 DEF LineInNoise
  <2> QED  BY <2>3 DEF LineOnTheWay
<1> QED  BY <1>10, <1>11

\* Every step keeps the invariant.
LEMMA LineKeeps ==
    ASSUME LineInv, [Line803!Next]_(Line803!vars)
    PROVE  LineInv'
<1>1. CASE UNCHANGED Line803!vars
  <2>1. UNCHANGED <<phase, wire, buf, reading, trktime, file, told, com1, good, before, sent,
                    starts, made>>
      BY <1>1 DEF Line803!vars, Line803!input
  <2>2. LineTypes'
      BY <2>1 DEF LineInv, LineTypes
  <2>3. LineReports' /\ LastKept'
      BY <2>1 DEF LineInv, LineReports, LastKept, Line803!ErrorReadsBack
  <2>4. LineOnTheWay => LineOnTheWay'
      BY <2>1 DEF LineOnTheWay, LineInFrame, LineInNoise, AtStart
  <2> QED  BY <2>1, <2>2, <2>3, <2>4 DEF LineInv
<1>2. CASE Line803!readtrktime
    BY <1>2, StartsLine
<1>3. CASE Line803!End
    BY <1>3, EndsLine
<1>4. CASE Line803!Arrive
    BY <1>4, LineArrives
<1>5. CASE Line803!findValidData
  <2>1. LineTypes' /\ LastKept' /\ LineReports'
      BY <1>5, LineByteTypes
  <2>2. LineOnTheWay
      BY <1>5 DEF LineInv, Line803!findValidData
  <2>3. LineOnTheWay'
      BY <1>5, <2>2, ByteInFrame, ByteInNoise DEF LineOnTheWay
  <2> QED  BY <2>1, <2>3 DEF LineInv
<1>6. ASSUME NEW e \in Errors, NEW s \in 0 .. 1, Line803!sendtrkerr(e, s, 4 * s)
      PROVE  LineInv'
    BY <1>6, ErrorLeaves
<1>7. ASSUME NEW ch \in {0, 4}, Line803!sendmtdprm(360, ch)
      PROVE  LineInv'
    BY <1>7, TargetsLeave
<1> QED  BY <1>1, <1>2, <1>3, <1>4, <1>5, <1>6, <1>7 DEF Line803!Next

\* What the image process has been told begins what it is to be told.
LEMMA Begins ==
    ASSUME NEW S, NEW s \in Seq(S), NEW t \in Seq(S)
    PROVE  Line803!IsPrefix(s, s \o t) /\ Line803!IsPrefix(s, s)
<1> DEFINE g == s \o t
<1>1. /\ g \in Seq(S) /\ Len(g) = Len(s) + Len(t)
      /\ \A i \in 1 .. Len(s) + Len(t) : g[i] = IF i <= Len(s) THEN s[i] ELSE t[i - Len(s)]
    BY ConcatProperties
<1>2. Len(s) \in Nat /\ Len(t) \in Nat
    BY LenProperties
<1> HIDE DEF g
<1>3. \A i \in 1 .. Len(s) : g[i] = s[i] /\ s[i] \in S
    BY <1>1, <1>2, ElementOfSeq
<1>4. /\ SubSeq(s, 1, Len(s)) \in Seq(S) /\ SubSeq(g, 1, Len(s)) \in Seq(S)
      /\ Len(SubSeq(s, 1, Len(s))) = IF 1 <= Len(s) THEN Len(s) - 1 + 1 ELSE 0
      /\ Len(SubSeq(g, 1, Len(s))) = IF 1 <= Len(s) THEN Len(s) - 1 + 1 ELSE 0
      /\ \A i \in 1 .. Len(s) - 1 + 1 : SubSeq(s, 1, Len(s))[i] = s[1 + i - 1]
      /\ \A i \in 1 .. Len(s) - 1 + 1 : SubSeq(g, 1, Len(s))[i] = g[1 + i - 1]
  <2>1. \A i \in 1 .. Len(s) : g[i] \in S
      BY <1>3
  <2> QED  BY <1>2, <1>3, <2>1, SubSeqProperties
<1>5. SubSeq(s, 1, Len(s)) = SubSeq(g, 1, Len(s))
  <2>1. Len(SubSeq(s, 1, Len(s))) = Len(s) /\ Len(SubSeq(g, 1, Len(s))) = Len(s)
      BY <1>2, <1>4
  <2>2. \A i \in 1 .. Len(s) : SubSeq(s, 1, Len(s))[i] = SubSeq(g, 1, Len(s))[i]
      BY <1>2, <1>3, <1>4
  <2> QED  BY <1>4, <2>1, <2>2, SeqEqual
<1>6. Len(s) <= Len(g) /\ Len(s) <= Len(s)
    BY <1>1, <1>2
<1> QED  BY <1>5, <1>6 DEF Line803!IsPrefix, g

\* The invariant is what the run checks of the serial line, and more.
LEMMA LineShows ==
    ASSUME LineInv
    PROVE  Line803!TypeOK /\ Line803!ImageHears /\ Line803!ErrorReadsBack
<1>1. LineTypes /\ LineReports
    BY DEF LineInv
<1>2. Line803!TypeOK
  <2>1. file \in {[at |-> "none"], [at |-> "short"]} \cup [at : {"whole"}, time : 0 .. 10]
    <3>1. file \in FileKinds
        BY <1>1 DEF LineTypes
    <3> QED  BY <3>1, FileIs
  <2>2. com1.kind = "error" => {com1.high, com1.low} \subseteq 0 .. 255
      BY <1>1 DEF LineReports, Octets
  <2>3. com1.kind \in {"nothing", "error", "targets"}
      BY <1>1 DEF LineReports
  <2> QED  BY <1>1, <2>1, <2>2, <2>3 DEF LineTypes, Line803!TypeOK, Line803!NoFile,
                                         Line803!Short, Octets
<1>3. Line803!ImageHears
  <2> DEFINE all == AtStart \o good
  <2>1. all = (IF file.at = "whole" THEN <<Line803!Message("settrktime", before)>>
               ELSE Line803!ToldAtStart(file)) \o good
      BY DEF AtStart, Line803!Message
  <2> HIDE DEF all
  <2>2. SUFFICES ASSUME phase = "up"
                 PROVE  Line803!IsPrefix(told, all) /\ (wire = <<>> => told = all)
      BY <2>1 DEF Line803!ImageHears
  <2>3. wire = <<>> => told = all
      BY <2>2, LineNothingKept DEF all
  <2>4. told \in Seq(Messages)
      BY <1>1 DEF LineTypes
  <2>5. LineOnTheWay
      BY <2>2 DEF LineInv
  <2>6. CASE LineInNoise
    <3>1. all = told
        BY <2>6 DEF LineInNoise, all
    <3> QED  BY <2>3, <2>4, <3>1, Begins
  <2>7. ASSUME NEW c \in LineContents, NEW s \in Octets, LineInFrame(c, s)
        PROVE  Line803!IsPrefix(told, all)
    <3>1. all = IF s = Line803!recvcheck_sum(c) /\ c # <<>> THEN told \o Line803!Tells(c) ELSE told
        BY <2>7 DEF LineInFrame, all
    <3>2. c # <<>> => Line803!Tells(c) \in Seq(Messages)
        BY LineConstants, TellsIs
    <3> QED  BY <2>4, <3>1, <3>2, Begins
  <2> QED  BY <2>3, <2>5, <2>6, <2>7 DEF LineOnTheWay
<1> QED  BY <1>1, <1>2, <1>3 DEF LineReports

(***************************************************************************)
(* The modes: what the handler knows at each place, unless a message is to come.*)
(***************************************************************************)

\* A message of that field is still to come.
Coming(f) == \/ \E t \in Mode!Inputs : at[t].do = "send" /\ at[t].field = f
             \/ \E i \in DOMAIN queue : queue[i] = f

WorkAsked    == workmode # 0 => curState = IF workmode = 1 THEN "AUTOMTD" ELSE "SCENETRK"
CaptureAsked == workmode = 0 => curState = Mode!Routine[capturemode]
NotOfWork    == workmode = 0 => curState \notin {"AUTOMTD", "SCENETRK"}
AckIs        == workAck # 0 => /\ workAck = 2 <=> curState = "AUTOMTD"
                               /\ workAck = 3 <=> curState = "SCENETRK"

\* What the dispatcher knows at each place, unless a field's message is still to come.
Known ==
    /\ disp = "idle" => /\ Coming("workMode") \/ WorkAsked
                        /\ handled => \/ Coming("workMode") \/ Coming("captureMode")
                                      \/ CaptureAsked
    /\ disp = "test" /\ msg = "captureMode" => Coming("workMode") \/ WorkAsked
    /\ disp \in {"is0", "is1", "is2", "back"} => Coming("workMode") \/ workmode = 0
    /\ disp = "is1" => Coming("captureMode") \/ capturemode # 0
    /\ disp = "is2" => Coming("captureMode") \/ capturemode = 2
    /\ disp \in {"isAuto", "isScene"} => msg = "workMode"
    /\ disp = "isAuto" => Coming("workMode") \/ workmode # 0
    /\ disp = "isScene" => Coming("workMode") \/ workmode = 2
    /\ disp \in {"restore", "back"} => msg = "captureMode"
    /\ disp = "restore" => Coming("workMode") \/ (WorkAsked /\ workmode # 0)
    /\ disp = "feedback" => Coming("workMode") \/ WorkAsked
    /\ disp \in {"back", "feedback"} =>
          Coming("workMode") \/ Coming("captureMode") \/ CaptureAsked

Acked ==
    ~missed =>
        /\ msg = "captureMode" \/ disp \in {"idle", "feedback"} =>
              Coming("workMode") \/ NotOfWork
        /\ msg = "captureMode" \/ disp = "idle" => Coming("workMode") \/ AckIs
        /\ disp = "feedback" /\ msg = "workMode" => curState # "none"

ModeInv == Mode!TypeOK /\ Known /\ Acked

\* What the assumption gives.
LEMMA ModeConstants ==
    /\ Joysticks \cap Links = {} /\ QueueLen \in Nat \ {0} /\ MaxPresses \in Nat
    /\ Mode!Routine[0] = "PTZ" /\ Mode!Routine[1] = "BOX" /\ Mode!Routine[2] = "MANUALMTD"
    /\ Mode!RoutineModes = {"PTZ", "BOX", "MANUALMTD"}
<1>1. Joysticks \cap Links = {} /\ QueueLen \in Nat \ {0} /\ MaxPresses \in Nat
    BY CommandsAssumption DEF CommandsAssumption, Mode!InputAssumption
<1>2. Mode!Routine[0] = "PTZ" /\ Mode!Routine[1] = "BOX" /\ Mode!Routine[2] = "MANUALMTD"
    BY DEF Mode!Routine
<1>3. 0 .. 2 = {0, 1, 2}
    OBVIOUS
<1>4. Mode!RoutineModes = {"PTZ", "BOX", "MANUALMTD"}
    BY <1>2, <1>3 DEF Mode!RoutineModes
<1> QED  BY <1>1, <1>2, <1>4

\* No mode has been asked for.
LEMMA ModeStart == ASSUME Mode!Init PROVE ModeInv
<1>1. /\ workmode = 0 /\ capturemode = 0 /\ at = [t \in Mode!Inputs |-> Mode!Idle]
      /\ queue = <<>> /\ captureModeBack = 0 /\ disp = "idle" /\ msg = "workMode"
      /\ curState = "none" /\ workAck = 0 /\ presses = 0 /\ handled = FALSE /\ missed = FALSE
    BY DEF Mode!Init
<1>2. Mode!Idle \in [do : {"idle", "store", "send"}, field : Mode!Fields, value : 0 .. 2]
    BY DEF Mode!Idle, Mode!Fields
<1>3. queue \in Seq(Mode!Fields) /\ Len(queue) = 0
    BY <1>1
<1>4. at \in [Mode!Inputs -> [do : {"idle", "store", "send"}, field : Mode!Fields,
                              value : 0 .. 2]]
    BY <1>1, <1>2
<1>5. Mode!TypeOK
  <2>1. presses \in 0 .. MaxPresses /\ Len(queue) <= QueueLen
      BY <1>1, <1>3, ModeConstants
  <2>2. workmode \in 0 .. 2 /\ capturemode \in 0 .. 2 /\ captureModeBack \in 0 .. 2
        /\ workAck \in 0 .. 3
      BY <1>1
  <2>4. {handled, missed} \subseteq BOOLEAN
      BY <1>1
  <2>3. msg \in Mode!Fields
        /\ disp \in {"idle", "test", "is0", "is1", "is2", "isAuto", "isScene", "back", "restore",
                    "feedback"}
        /\ curState \in Mode!RoutineModes \cup {"AUTOMTD", "SCENETRK", "none"}
      BY <1>1 DEF Mode!Fields
  <2> QED  BY <1>3, <1>4, <2>1, <2>2, <2>3, <2>4 DEF Mode!TypeOK
<1>6. Known
    BY <1>1 DEF Known, WorkAsked
<1>7. Acked
    BY <1>1 DEF Acked, NotOfWork, AckIs
<1> QED  BY <1>5, <1>6, <1>7 DEF ModeInv

\* A button is pressed, or a command comes in.
LEMMA PressKeeps ==
    ASSUME ModeInv, NEW t \in Mode!Inputs, NEW f \in Mode!Fields, Mode!Press(t, f)
    PROVE  ModeInv'
<1>1. /\ at[t] = Mode!Idle /\ presses < MaxPresses /\ presses' = presses + 1
      /\ UNCHANGED <<workmode, capturemode, queue, captureModeBack, disp, msg, curState,
                     workAck, handled, missed>>
    BY DEF Mode!Press, Mode!dispatching
<1>2. PICK v \in IF t \in Joysticks THEN {Mode!NextMode(Mode!ValueOf(f))} ELSE 0 .. 2 :
          at' = [at EXCEPT ![t] = [do |-> "store", field |-> f, value |-> v]]
    BY DEF Mode!Press
<1>3. v \in 0 .. 2
    BY <1>2 DEF ModeInv, Mode!TypeOK, Mode!NextMode, Mode!ValueOf
<1>4. at \in [Mode!Inputs -> [do : {"idle", "store", "send"}, field : Mode!Fields,
                              value : 0 .. 2]]
    BY DEF ModeInv, Mode!TypeOK
<1>5. at' \in [Mode!Inputs -> [do : {"idle", "store", "send"}, field : Mode!Fields,
                              value : 0 .. 2]]
    BY <1>2, <1>3, <1>4
<1>6. presses' \in 0 .. MaxPresses
    BY <1>1, ModeConstants DEF ModeInv, Mode!TypeOK
<1>7. Mode!TypeOK'
    BY <1>1, <1>5, <1>6 DEF ModeInv, Mode!TypeOK
<1>8. ASSUME NEW g
      PROVE  Coming(g)' <=> Coming(g)
  <2>1. at[t].do # "send" /\ at'[t].do # "send"
      BY <1>1, <1>2, <1>4 DEF Mode!Idle
  <2>2. \A u \in Mode!Inputs : u # t => at'[u] = at[u]
      BY <1>2, <1>4
  <2> QED  BY <1>1, <2>1, <2>2 DEF Coming
<1>9. Known' /\ Acked'
    BY <1>1, <1>8 DEF ModeInv, Known, Acked, WorkAsked, CaptureAsked, NotOfWork, AckIs
<1> QED  BY <1>7, <1>9 DEF ModeInv

\* The mode asked for is stored, before its message is sent.
LEMMA StoreKeeps ==
    ASSUME ModeInv, NEW t \in Mode!Inputs, Mode!Store(t)
    PROVE  ModeInv'
<1>1. /\ at[t].do = "store"
      /\ IF at[t].field = "workMode" THEN workmode' = at[t].value /\ capturemode' = capturemode
                                     ELSE capturemode' = at[t].value /\ workmode' = workmode
      /\ at' = [at EXCEPT ![t].do = "send"]
      /\ UNCHANGED <<queue, presses, captureModeBack, disp, msg, curState, workAck, handled,
                     missed>>
    BY DEF Mode!Store, Mode!dispatching
<1>2. at \in [Mode!Inputs -> [do : {"idle", "store", "send"}, field : Mode!Fields,
                              value : 0 .. 2]]
    BY DEF ModeInv, Mode!TypeOK
<1>3. /\ at' \in [Mode!Inputs -> [do : {"idle", "store", "send"}, field : Mode!Fields,
                              value : 0 .. 2]]
      /\ at'[t].do = "send" /\ at'[t].field = at[t].field
      /\ \A u \in Mode!Inputs : u # t => at'[u] = at[u]
    BY <1>1, <1>2
<1>4. at[t].value \in 0 .. 2 /\ at[t].field \in {"workMode", "captureMode"}
    BY <1>2 DEF Mode!Fields
<1>5. Mode!TypeOK'
    BY <1>1, <1>3, <1>4 DEF ModeInv, Mode!TypeOK
<1>6. Coming(at[t].field)' /\ \A g : Coming(g) => Coming(g)'
    BY <1>1, <1>3 DEF Coming
<1>7. CASE at[t].field = "workMode"
    BY <1>1, <1>5, <1>6, <1>7
    DEF ModeInv, Known, Acked, WorkAsked, CaptureAsked, NotOfWork, AckIs
<1>8. CASE at[t].field = "captureMode"
    BY <1>1, <1>5, <1>6, <1>8
    DEF ModeInv, Known, Acked, WorkAsked, CaptureAsked, NotOfWork, AckIs
<1> QED  BY <1>4, <1>7, <1>8

\* The message is sent: it is to come as before.
LEMMA SendKeepsMode ==
    ASSUME ModeInv, NEW t \in Mode!Inputs, Mode!Send(t)
    PROVE  ModeInv'
<1>1. /\ at[t].do = "send" /\ Len(queue) < QueueLen
      /\ queue' = Append(queue, at[t].field) /\ at' = [at EXCEPT ![t] = Mode!Idle]
      /\ UNCHANGED <<workmode, capturemode, presses, captureModeBack, disp, msg, curState,
                     workAck, handled, missed>>
    BY DEF Mode!Send, Mode!dispatching
<1>2. /\ at \in [Mode!Inputs -> [do : {"idle", "store", "send"}, field : Mode!Fields,
                              value : 0 .. 2]]
      /\ queue \in Seq(Mode!Fields)
    BY DEF ModeInv, Mode!TypeOK
<1>3. at[t].field \in Mode!Fields /\ Mode!Idle.do = "idle"
      /\ Mode!Idle \in [do : {"idle", "store", "send"}, field : Mode!Fields, value : 0 .. 2]
    BY <1>2 DEF Mode!Idle, Mode!Fields
<1>4. /\ at' \in [Mode!Inputs -> [do : {"idle", "store", "send"}, field : Mode!Fields,
                              value : 0 .. 2]]
      /\ at'[t].do = "idle"
      /\ \A u \in Mode!Inputs : u # t => at'[u] = at[u]
    BY <1>1, <1>2, <1>3
<1>5. /\ queue' \in Seq(Mode!Fields) /\ Len(queue) \in Nat /\ Len(queue') = Len(queue) + 1
      /\ DOMAIN queue = 1 .. Len(queue) /\ DOMAIN queue' = 1 .. Len(queue) + 1
      /\ queue'[Len(queue) + 1] = at[t].field
      /\ \A i \in 1 .. Len(queue) : queue'[i] = queue[i]
    BY <1>1, <1>2, <1>3, With
<1>6. Mode!TypeOK'
    BY <1>1, <1>4, <1>5, ModeConstants DEF ModeInv, Mode!TypeOK
<1>7. ASSUME NEW g
      PROVE  Coming(g)' <=> Coming(g)
  <2>1. ASSUME Coming(g) PROVE Coming(g)'
    <3>1. CASE \E u \in Mode!Inputs : at[u].do = "send" /\ at[u].field = g
      <4>1. PICK u \in Mode!Inputs : at[u].do = "send" /\ at[u].field = g
          BY <3>1
      <4>2. u = t => Len(queue) + 1 \in DOMAIN queue' /\ queue'[Len(queue) + 1] = g
          BY <1>5, <4>1
      <4> QED  BY <1>4, <4>1, <4>2 DEF Coming
    <3>2. CASE \E i \in DOMAIN queue : queue[i] = g
      <4>1. \A i \in DOMAIN queue : i \in DOMAIN queue' /\ queue'[i] = queue[i]
          BY <1>5
      <4> QED  BY <3>2, <4>1 DEF Coming
    <3> QED  BY <2>1, <3>1, <3>2 DEF Coming
  <2>2. ASSUME Coming(g)' PROVE Coming(g)
    <3>1. CASE \E u \in Mode!Inputs : at'[u].do = "send" /\ at'[u].field = g
        BY <1>4, <3>1 DEF Coming
    <3>2. CASE \E i \in DOMAIN queue' : queue'[i] = g
      <4>1. PICK i \in DOMAIN queue' : queue'[i] = g
          BY <3>2
      <4>2. CASE i = Len(queue) + 1
          BY <1>1, <1>5, <4>1, <4>2 DEF Coming
      <4>3. CASE i # Len(queue) + 1
        <5>1. i \in DOMAIN queue /\ queue[i] = g
            BY <1>5, <4>1, <4>3
        <5> QED  BY <5>1 DEF Coming
      <4> QED  BY <4>2, <4>3
    <3> QED  BY <2>2, <3>1, <3>2 DEF Coming
  <2> QED  BY <2>1, <2>2
<1>8. Known' /\ Acked'
    BY <1>1, <1>7 DEF ModeInv, Known, Acked, WorkAsked, CaptureAsked, NotOfWork, AckIs
<1> QED  BY <1>6, <1>8 DEF ModeInv

\* The dispatcher takes a message.
LEMMA TakeKeeps ==
    ASSUME ModeInv, Mode!Take
    PROVE  ModeInv'
<1>1. /\ disp = "idle" /\ queue # <<>> /\ msg' = Head(queue) /\ queue' = Tail(queue)
      /\ disp' = "test"
      /\ UNCHANGED <<workmode, capturemode, at, captureModeBack, curState, workAck, presses,
                     handled, missed>>
    BY DEF Mode!Take
<1>2. queue \in Seq(Mode!Fields) /\ Len(queue) <= QueueLen
    BY DEF ModeInv, Mode!TypeOK
<1>3. /\ msg' \in Mode!Fields /\ queue' \in Seq(Mode!Fields) /\ Len(queue) \in Nat \ {0}
      /\ Len(queue') = Len(queue) - 1
      /\ DOMAIN queue = 1 .. Len(queue) /\ DOMAIN queue' = 1 .. Len(queue) - 1
      /\ msg' = queue[1]
      /\ \A i \in 1 .. Len(queue) - 1 : queue'[i] = queue[i + 1]
    BY <1>1, <1>2, Without
<1>4. Mode!TypeOK'
    BY <1>1, <1>2, <1>3, ModeConstants DEF ModeInv, Mode!TypeOK
<1>5. ASSUME NEW g, g # msg', Coming(g)
      PROVE  Coming(g)'
  <2>1. CASE \E i \in DOMAIN queue : queue[i] = g
    <3>1. PICK i \in DOMAIN queue : queue[i] = g
        BY <2>1
    <3>2. i - 1 \in DOMAIN queue' /\ queue'[i - 1] = g
        BY <1>3, <1>5, <3>1
    <3> QED  BY <3>2 DEF Coming
  <2> QED  BY <1>1, <1>5, <2>1 DEF Coming
<1>6. Known' /\ Acked'
    BY <1>1, <1>5 DEF ModeInv, Known, Acked, WorkAsked, CaptureAsked, NotOfWork, AckIs
<1> QED  BY <1>4, <1>6 DEF ModeInv

\* The dispatcher's own steps take no message and store nothing that one is still to
\* come for.
LEMMA SameComing ==
    ASSUME UNCHANGED <<at, queue>>, NEW g
    PROVE  Coming(g)' <=> Coming(g)
BY DEF Coming

\* The handler looks at the work mode.
LEMMA TestKeeps ==
    ASSUME ModeInv, Mode!Test
    PROVE  ModeInv'
<1>1. /\ disp = "test"
      /\ disp' = IF workmode = 0 THEN "is0" ELSE IF msg = "captureMode" THEN "restore" ELSE "isAuto"
      /\ UNCHANGED <<workmode, capturemode, at, queue, captureModeBack, msg, curState, workAck,
                     presses, handled, missed>>
    BY DEF Mode!Test
<1>2. Mode!TypeOK'
    BY <1>1 DEF ModeInv, Mode!TypeOK
<1>3. msg \in {"workMode", "captureMode"}
    BY DEF ModeInv, Mode!TypeOK, Mode!Fields
<1>4. \A g : Coming(g)' <=> Coming(g)
    BY <1>1, SameComing
<1>5. Known' /\ Acked'
    BY <1>1, <1>3, <1>4 DEF ModeInv, Known, Acked, WorkAsked, NotOfWork, AckIs
<1> QED  BY <1>2, <1>5 DEF ModeInv

\* The handler compares the capture mode with one of the three.
LEMMA IsKeeps ==
    ASSUME ModeInv, NEW c \in 0 .. 2, NEW place, NEW next, Mode!Is(c, place, next),
           <<c, place, next>> \in {<<0, "is0", "is1">>, <<1, "is1", "is2">>,
                                   <<2, "is2", Mode!AfterSwitch>>}
    PROVE  ModeInv'
<1>1. /\ disp = place
      /\ IF capturemode = c THEN curState' = Mode!Routine[c] /\ disp' = Mode!AfterSwitch
                            ELSE curState' = curState /\ disp' = next
      /\ missed' = (missed \/ (c = 2 /\ capturemode # c))
      /\ UNCHANGED <<workmode, capturemode, at, queue, captureModeBack, msg, workAck, presses,
                     handled>>
    BY DEF Mode!Is
<1>2. Mode!AfterSwitch = IF msg = "captureMode" THEN "back" ELSE "feedback"
    BY DEF Mode!AfterSwitch
<1>3. \/ c = 0 /\ place = "is0" /\ next = "is1"
      \/ c = 1 /\ place = "is1" /\ next = "is2"
      \/ c = 2 /\ place = "is2" /\ next = Mode!AfterSwitch
    OBVIOUS
<1>4. Mode!Routine[c] \in {"PTZ", "BOX", "MANUALMTD"}
    BY <1>3, ModeConstants
<1>5. /\ msg \in {"workMode", "captureMode"} /\ capturemode \in {0, 1, 2} /\ workmode \in 0 .. 2
      /\ missed \in BOOLEAN /\ handled \in BOOLEAN
    BY DEF ModeInv, Mode!TypeOK, Mode!Fields
<1>6. Mode!TypeOK'
  <2>1. missed' \in BOOLEAN
      BY <1>1, <1>5
  <2>2. disp' \in {"is1", "is2", "back", "feedback"}
      BY <1>1, <1>2, <1>3
  <2>3. curState' \in Mode!RoutineModes \cup {"AUTOMTD", "SCENETRK", "none"}
      BY <1>1, <1>4, ModeConstants DEF ModeInv, Mode!TypeOK
  <2> QED  BY <1>1, <2>1, <2>2, <2>3 DEF ModeInv, Mode!TypeOK
<1>7. \A g : Coming(g)' <=> Coming(g)
    BY <1>1, SameComing
<1>8. CASE capturemode = c
  <2>1. curState' = Mode!Routine[capturemode] /\ disp' = Mode!AfterSwitch
      BY <1>1, <1>8
  <2>2. Known'
      BY <1>1, <1>2, <1>3, <1>7, <2>1 DEF ModeInv, Known, WorkAsked, CaptureAsked
  <2>3. Acked'
      BY <1>1, <1>2, <1>3, <1>4, <1>7, <1>8, <2>1 DEF ModeInv, Known, Acked, NotOfWork, AckIs
  <2> QED  BY <1>6, <2>2, <2>3 DEF ModeInv
<1>9. CASE capturemode # c
  <2>1. curState' = curState /\ disp' = next
      BY <1>1, <1>9
  <2>2. Known'
      BY <1>1, <1>2, <1>3, <1>5, <1>7, <1>9, <2>1 DEF ModeInv, Known, WorkAsked, CaptureAsked
  <2>3. Acked'
      BY <1>1, <1>2, <1>3, <1>7, <1>9, <2>1 DEF ModeInv, Known, Acked, NotOfWork, AckIs
  <2> QED  BY <1>6, <2>2, <2>3 DEF ModeInv
<1> QED  BY <1>8, <1>9

\* The three comparisons, one after the other.
LEMMA CaptureKeeps ==
    ASSUME ModeInv, Mode!Capture
    PROVE  ModeInv'
<1>1. CASE Mode!Is(0, "is0", "is1")
    BY <1>1, IsKeeps
<1>2. CASE Mode!Is(1, "is1", "is2")
    BY <1>2, IsKeeps
<1>3. CASE Mode!Is(2, "is2", Mode!AfterSwitch)
    BY <1>3, IsKeeps
<1> QED  BY <1>1, <1>2, <1>3 DEF Mode!Capture

\* The handler compares the work mode with one of the two others.
LEMMA WorkKeepsMode ==
    ASSUME ModeInv, NEW m \in 1 .. 2, NEW mode, NEW next,
           Mode!IsWork(m, IF m = 1 THEN "isAuto" ELSE "isScene", mode, next),
           mode = IF m = 1 THEN "AUTOMTD" ELSE "SCENETRK",
           next = IF m = 1 THEN "isScene" ELSE "feedback"
    PROVE  ModeInv'
<1>1. /\ disp = IF m = 1 THEN "isAuto" ELSE "isScene"
      /\ IF workmode = m THEN curState' = mode /\ disp' = "feedback"
                         ELSE curState' = curState /\ disp' = next
      /\ missed' = (missed \/ (m = 2 /\ workmode # m))
      /\ UNCHANGED <<workmode, capturemode, at, queue, captureModeBack, msg, workAck, presses,
                     handled>>
    BY DEF Mode!IsWork
<1>2. /\ msg = "workMode" /\ workmode \in 0 .. 2 /\ m \in {1, 2}
      /\ missed \in BOOLEAN /\ handled \in BOOLEAN
    BY <1>1 DEF ModeInv, Mode!TypeOK, Known
<1>3. Mode!TypeOK'
  <2>1. missed' \in BOOLEAN
      BY <1>1, <1>2
  <2> QED  BY <1>1, <1>2, <2>1 DEF ModeInv, Mode!TypeOK
<1>4. \A g : Coming(g)' <=> Coming(g)
    BY <1>1, SameComing
<1>5. Known'
    BY <1>1, <1>2, <1>4 DEF ModeInv, Known, WorkAsked, CaptureAsked
<1>6. Acked'
  <2>1. CASE workmode = m
    <3>1. workmode # 0 /\ curState' # "none" /\ disp' = "feedback" /\ UNCHANGED <<workmode, msg>>
        BY <1>1, <1>2, <2>1
    <3> QED  BY <1>2, <3>1 DEF Acked, NotOfWork
  <2>2. CASE workmode # m
    <3>1. m = 2 => missed'
        BY <1>1, <2>2
    <3>2. m = 1 => disp' = "isScene" /\ msg' = "workMode"
        BY <1>1, <1>2, <2>2
    <3> QED  BY <1>2, <3>1, <3>2 DEF Acked
  <2> QED  BY <2>1, <2>2
<1> QED  BY <1>3, <1>5, <1>6 DEF ModeInv

\* The capture mode is remembered.
LEMMA BackKeeps ==
    ASSUME ModeInv, Mode!Back
    PROVE  ModeInv'
<1>1. /\ disp = "back" /\ captureModeBack' = capturemode /\ disp' = "feedback"
      /\ UNCHANGED <<workmode, capturemode, at, queue, msg, curState, workAck, presses, handled,
                     missed>>
    BY DEF Mode!Back
<1>2. Mode!TypeOK'
    BY <1>1 DEF ModeInv, Mode!TypeOK
<1>3. \A g : Coming(g)' <=> Coming(g)
    BY <1>1, SameComing
<1>4. Known' /\ Acked'
    BY <1>1, <1>3 DEF ModeInv, Known, Acked, WorkAsked, CaptureAsked, NotOfWork, AckIs
<1> QED  BY <1>2, <1>4 DEF ModeInv

\* The capture mode is put back: another work mode is on.
LEMMA RestoreKeeps ==
    ASSUME ModeInv, Mode!Restore
    PROVE  ModeInv'
<1>1. /\ disp = "restore" /\ capturemode' = captureModeBack /\ disp' = "feedback"
      /\ UNCHANGED <<workmode, at, queue, captureModeBack, msg, curState, workAck, presses,
                     handled, missed>>
    BY DEF Mode!Restore
<1>2. Mode!TypeOK'
    BY <1>1 DEF ModeInv, Mode!TypeOK
<1>3. \A g : Coming(g)' <=> Coming(g)
    BY <1>1, SameComing
<1>4. Known' /\ Acked'
    BY <1>1, <1>3 DEF ModeInv, Known, Acked, WorkAsked, CaptureAsked, NotOfWork, AckIs
<1> QED  BY <1>2, <1>4 DEF ModeInv

\* The handler reports the mode and is done.
LEMMA FeedbackKeeps ==
    ASSUME ModeInv, Mode!Feedback
    PROVE  ModeInv'
<1>1. /\ disp = "feedback" /\ handled' = TRUE /\ disp' = "idle" /\ msg' = "workMode"
      /\ IF msg = "workMode" THEN workAck' \in Mode!Reported(curState) ELSE workAck' = workAck
      /\ UNCHANGED <<workmode, capturemode, at, queue, captureModeBack, curState, presses, missed>>
    BY DEF Mode!Feedback
<1>2. msg \in {"workMode", "captureMode"} /\ workAck \in 0 .. 3
      /\ curState \in {"PTZ", "BOX", "MANUALMTD", "AUTOMTD", "SCENETRK", "none"}
    BY ModeConstants DEF ModeInv, Mode!TypeOK, Mode!Fields
<1>3. /\ Mode!Reported(curState) \subseteq 0 .. 3
      /\ curState = "AUTOMTD" => Mode!Reported(curState) = {2}
      /\ curState = "SCENETRK" => Mode!Reported(curState) = {3}
      /\ curState \in {"PTZ", "BOX", "MANUALMTD"} => Mode!Reported(curState) = {1}
    BY <1>2 DEF Mode!Reported
<1>4. Mode!TypeOK'
    BY <1>1, <1>2, <1>3 DEF ModeInv, Mode!TypeOK, Mode!Fields
<1>5. \A g : Coming(g)' <=> Coming(g)
    BY <1>1, SameComing
<1>6. Known'
    BY <1>1, <1>5 DEF ModeInv, Known, WorkAsked, CaptureAsked
<1>7. Acked'
  <2>1. CASE msg = "workMode"
    <3>1. ~missed => curState # "none"
        BY <1>1, <2>1 DEF ModeInv, Acked
    <3>2. ~missed => AckIs'
        BY <1>1, <1>2, <1>3, <2>1, <3>1 DEF AckIs
    <3> QED  BY <1>1, <1>5, <3>2 DEF ModeInv, Acked, NotOfWork
  <2>2. CASE msg = "captureMode"
      BY <1>1, <1>5, <2>2 DEF ModeInv, Acked, NotOfWork, AckIs
  <2> QED  BY <1>2, <2>1, <2>2
<1> QED  BY <1>4, <1>6, <1>7 DEF ModeInv

\* Every step keeps the invariant.
LEMMA ModeKeeps ==
    ASSUME ModeInv, [Mode!Next]_Mode!vars
    PROVE  ModeInv'
<1>1. ASSUME NEW t \in Mode!Inputs, NEW f \in Mode!Fields, Mode!Press(t, f)
      PROVE  ModeInv'
    BY <1>1, PressKeeps
<1>2. ASSUME NEW t \in Mode!Inputs, Mode!Store(t) \/ Mode!Send(t)
      PROVE  ModeInv'
    BY <1>2, StoreKeeps, SendKeepsMode
<1>3. CASE Mode!Take \/ Mode!Test \/ Mode!Capture \/ Mode!Back \/ Mode!Restore \/ Mode!Feedback
    BY <1>3, TakeKeeps, TestKeeps, CaptureKeeps, BackKeeps, RestoreKeeps, FeedbackKeeps
<1>4. CASE Mode!Work
  <2>1. CASE Mode!IsWork(1, "isAuto", "AUTOMTD", "isScene")
      BY <2>1, WorkKeepsMode
  <2>2. CASE Mode!IsWork(2, "isScene", "SCENETRK", "feedback")
      BY <2>2, WorkKeepsMode
  <2> QED  BY <1>4, <2>1, <2>2 DEF Mode!Work
<1>5. CASE UNCHANGED Mode!vars
  <2>1. UNCHANGED <<workmode, capturemode, at, queue, captureModeBack, disp, msg, curState,
                    workAck, presses, handled, missed>>
      BY <1>5 DEF Mode!vars
  <2>2. \A g : Coming(g)' <=> Coming(g)
      BY <2>1, SameComing
  <2>3. Mode!TypeOK'
      BY <2>1 DEF ModeInv, Mode!TypeOK
  <2>4. Known' /\ Acked'
      BY <2>1, <2>2 DEF ModeInv, Known, Acked, WorkAsked, CaptureAsked, NotOfWork, AckIs
  <2> QED  BY <2>3, <2>4 DEF ModeInv
<1> QED  BY <1>1, <1>2, <1>3, <1>4, <1>5 DEF Mode!Next

\* The invariant is what the run checks of the modes, and more.
LEMMA ModeShows == ASSUME ModeInv
    PROVE  Mode!TypeOK /\ Mode!FollowsInput /\ Mode!WorkAckTrue
<1>1. ASSUME Mode!Quiet
      PROVE  disp = "idle" /\ \A g : ~Coming(g)
  <2>1. queue = <<>> /\ DOMAIN queue = {} /\ disp = "idle"
        /\ \A t \in Mode!Inputs : at[t].do # "send"
      BY <1>1 DEF Mode!Quiet, Mode!Idle
  <2> QED  BY <2>1 DEF Coming
<1>2. Mode!FollowsInput
  <2> SUFFICES ASSUME Mode!Quiet, handled
               PROVE  curState = CASE workmode = 1 -> "AUTOMTD"
                                   [] workmode = 2 -> "SCENETRK"
                                   [] OTHER        -> Mode!Routine[capturemode]
      BY DEF Mode!FollowsInput
  <2>1. WorkAsked /\ CaptureAsked /\ workmode \in {0, 1, 2}
      BY <1>1 DEF ModeInv, Known, Mode!TypeOK
  <2> QED  BY <2>1 DEF WorkAsked, CaptureAsked
<1>3. Mode!WorkAckTrue
    BY <1>1 DEF ModeInv, Acked, AckIs, Mode!WorkAckTrue
<1> QED  BY <1>2, <1>3 DEF ModeInv

(***************************************************************************)
(* The joystick: what is toggled belongs to a key that is held.            *)
(***************************************************************************)

ZoomSpeed(ctrl) == IF ctrl = 1 THEN -1 ELSE IF ctrl = 2 THEN 1 ELSE 0

\* The stick is out, or back but not yet known to be to the dispatcher.
StickOut == report.y # "mid" \/ bak.y # "mid" \/ Stick!StickWaits

\* What has been looked at of a report is known, and a release undoes the press.
Looked ==
    /\ todo # "pov" => bak.pov = report.pov
    /\ todo \in {"axis", "nothing"} => bak.but = report.but
    /\ todo = "nothing" => bak.y = report.y
    /\ bak.pov = Stick!Released => index.pov = 0
    /\ bak.but = Stick!Released => index.but = 0

Chosen ==
    /\ irisctrl = IF Iris_Focus = 1 THEN 3 ELSE 0
    /\ focusctrl = IF Iris_Focus = 2 THEN 3 ELSE 0

ZoomKnown == \/ \E i \in DOMAIN queue : queue[i] = "zoom"
             \/ setSpeed.zoom = ZoomSpeed(zoomctrl)

\* As long as nothing came between a press and its release, the fields that are
\* toggled are those of the keys that are held, and iris and focus move only while
\* the stick is out.
Undisturbed ==
    ~meddled =>
        /\ zoomctrl = IF index.pov = 3 THEN 2 ELSE IF index.pov = 4 THEN 1 ELSE 0
        /\ todo = "pov" /\ report.pov \in Stick!Zoomers /\ report.pov # bak.pov => index.pov = 0
        /\ index.but = 6 <=> sectrkctrl = 1
        /\ report.but # bak.but =>
              /\ report.but = Stick!Released \/ bak.but = Stick!Released
              /\ ~StickOut
        /\ setSpeed.iris # 0 => StickOut /\ irisctrl = 3 /\ sectrkctrl # 1
        /\ setSpeed.focus # 0 => StickOut /\ focusctrl = 3 /\ sectrkctrl # 1

Notices == {"zoom", "search", "irisFocus", "jos", "other"}
InQueue(k) == \E i \in DOMAIN queue : queue[i] = k

\* What the assumption gives.
LEMMA StickConstants ==
    /\ Stick!Released \in Povs
    /\ Povs \subseteq {Stick!Released} \cup Stick!Steers \cup Stick!Zoomers
    /\ Stick!Released \in Buttons
    /\ Buttons \subseteq {Stick!Released, "js_5", "js_6", "js_7", "js_9", "js_11"}
    /\ LinkZooms \subseteq 0 .. 2 /\ "mid" \in Heights /\ Heights \subseteq {"low", "mid", "high"}
    /\ MaxReports \in Nat
BY CommandsAssumption DEF CommandsAssumption, Stick!JoystickAssumption

\* A message is added to those that wait.
LEMMA NoticeSent ==
    ASSUME queue \in Seq(Notices), NEW m \in Notices, Stick!Send(m)
    PROVE  queue' \in Seq(Notices) /\ \A k : InQueue(k)' <=> InQueue(k) \/ k = m
<1>1. /\ queue' \in Seq(Notices) /\ Len(queue) \in Nat /\ Len(queue') = Len(queue) + 1
      /\ DOMAIN queue = 1 .. Len(queue) /\ DOMAIN queue' = 1 .. Len(queue) + 1
      /\ queue'[Len(queue) + 1] = m
      /\ \A i \in 1 .. Len(queue) : queue'[i] = queue[i]
    BY With DEF Stick!Send
<1>2. ASSUME NEW k, InQueue(k) \/ k = m
      PROVE  InQueue(k)'
  <2>1. CASE k = m
    <3>1. Len(queue) + 1 \in DOMAIN queue'
        BY <1>1
    <3> QED  BY <1>1, <2>1, <3>1 DEF InQueue
  <2>2. CASE InQueue(k)
      BY <1>1, <2>2 DEF InQueue
  <2> QED  BY <1>2, <2>1, <2>2
<1>3. ASSUME NEW k, InQueue(k)', k # m
      PROVE  InQueue(k)
  <2>1. PICK i \in DOMAIN queue' : queue'[i] = k
      BY <1>3 DEF InQueue
  <2>2. i \in DOMAIN queue /\ queue[i] = k
      BY <1>1, <1>3, <2>1
  <2> QED  BY <2>2 DEF InQueue
<1> QED  BY <1>1, <1>2, <1>3

\* The first message is taken from those that wait.
LEMMA NoticeTaken ==
    ASSUME queue \in Seq(Notices), NEW m, queue # <<>>, Head(queue) = m, queue' = Tail(queue)
    PROVE  /\ queue' \in Seq(Notices)
           /\ \A k : InQueue(k)' => InQueue(k)
           /\ \A k : InQueue(k) => InQueue(k)' \/ k = m
           /\ InQueue(m)
<1>1. /\ queue' \in Seq(Notices) /\ Len(queue) \in Nat \ {0}
      /\ DOMAIN queue = 1 .. Len(queue) /\ DOMAIN queue' = 1 .. Len(queue) - 1
      /\ queue[1] = m
      /\ \A i \in 1 .. Len(queue) - 1 : queue'[i] = queue[i + 1]
    BY Without
<1>2. ASSUME NEW k, InQueue(k)'
      PROVE  InQueue(k)
  <2>1. PICK i \in DOMAIN queue' : queue'[i] = k
      BY <1>2 DEF InQueue
  <2>2. i + 1 \in DOMAIN queue /\ queue[i + 1] = k
      BY <1>1, <2>1
  <2> QED  BY <2>2 DEF InQueue
<1>3. ASSUME NEW k, InQueue(k), k # m
      PROVE  InQueue(k)'
  <2>1. PICK i \in DOMAIN queue : queue[i] = k
      BY <1>3 DEF InQueue
  <2>2. i - 1 \in DOMAIN queue' /\ queue'[i - 1] = k
      BY <1>1, <1>3, <2>1
  <2> QED  BY <2>2 DEF InQueue
<1>4. 1 \in DOMAIN queue
    BY <1>1
<1> QED  BY <1>1, <1>2, <1>3, <1>4 DEF InQueue

\* The types in the words of the proofs.
StickTypes ==
    /\ report \in [pov : Povs, but : Buttons, y : Heights]
    /\ bak \in [pov : Povs \cup {"up"}, but : Buttons, y : Heights \cup {"low"}]
    /\ todo \in {"nothing", "pov", "but", "axis"}
    /\ index.pov \in {0, 3, 4} /\ index.but \in {0, 6} /\ index \in [pov : {0, 3, 4}, but : {0, 6}]
    /\ Iris_Focus \in 0 .. 2
    /\ zoomctrl \in 0 .. 2 /\ sectrkctrl \in 0 .. 2
    /\ irisctrl \in {0, 3} /\ focusctrl \in {0, 3}
    /\ queue \in Seq(Notices)
    /\ trken \in BOOLEAN /\ meddled \in BOOLEAN
    /\ setSpeed \in [{"zoom", "iris", "focus"} -> -1 .. 1]
    /\ reports \in 0 .. MaxReports

StickInv == StickTypes /\ Looked /\ Chosen /\ ZoomKnown /\ Undisturbed

\* The invariant is what the run checks of the joystick, and more.
LEMMA StickShows == ASSUME StickInv PROVE Stick!TypeOK /\ Stick!ReleasedMeansOff
<1>1. Stick!TypeOK
    BY DEF StickInv, StickTypes, Stick!TypeOK, Notices
<1>2. Stick!ReleasedMeansOff
  <2> SUFFICES ASSUME report = Stick!Rest, todo = "nothing", queue = <<>>, ~meddled
               PROVE  setSpeed = [s \in {"zoom", "iris", "focus"} |-> 0] /\ sectrkctrl # 1
      BY DEF Stick!ReleasedMeansOff
  <2>1. /\ report.pov = Stick!Released /\ report.but = Stick!Released /\ report.y = "mid"
        /\ bak.pov = report.pov /\ bak.but = report.but /\ bak.y = report.y
      BY DEF StickInv, Looked, Stick!Rest
  <2>2. index.pov = 0 /\ index.but = 0
      BY <2>1 DEF StickInv, Looked
  <2>3. zoomctrl = 0 /\ sectrkctrl # 1
      BY <2>2 DEF StickInv, Undisturbed
  <2>4. ~StickOut /\ \A k : ~InQueue(k)
      BY <2>1 DEF StickOut, Stick!StickWaits, InQueue
  <2>5. setSpeed.iris = 0 /\ setSpeed.focus = 0
      BY <2>4 DEF StickInv, Undisturbed
  <2>6. setSpeed.zoom = 0
      BY <2>3, <2>4 DEF StickInv, ZoomKnown, InQueue, ZoomSpeed
  <2> QED  BY <2>3, <2>5, <2>6 DEF StickInv, StickTypes
<1> QED  BY <1>1, <1>2

\* All is released.
LEMMA StickStart == ASSUME Stick!Init PROVE StickInv
<1>1. /\ report = Stick!Rest /\ todo = "pov"
      /\ bak = [pov |-> "up", but |-> Stick!Released, y |-> "low"]
      /\ index = [pov |-> 0, but |-> 0] /\ Iris_Focus = 0
      /\ zoomctrl = 0 /\ sectrkctrl = 0 /\ irisctrl = 0 /\ focusctrl = 0
      /\ queue = <<>> /\ trken \in BOOLEAN
      /\ setSpeed = [s \in {"zoom", "iris", "focus"} |-> 0]
      /\ reports = 0 /\ meddled = FALSE
    BY DEF Stick!Init
<1>2. StickTypes
  <2>1. report \in [pov : Povs, but : Buttons, y : Heights]
      BY <1>1, StickConstants DEF Stick!Rest
  <2>2. bak \in [pov : Povs \cup {"up"}, but : Buttons, y : Heights \cup {"low"}]
      BY <1>1, StickConstants
  <2>3. reports \in 0 .. MaxReports /\ queue \in Seq(Notices)
      BY <1>1, StickConstants
  <2>4. index \in [pov : {0, 3, 4}, but : {0, 6}]
      BY <1>1
  <2>5. setSpeed \in [{"zoom", "iris", "focus"} -> -1 .. 1]
      BY <1>1
  <2>6. trken \in BOOLEAN /\ meddled \in BOOLEAN
      BY <1>1
  <2>7. /\ todo \in {"nothing", "pov", "but", "axis"} /\ Iris_Focus \in 0 .. 2
        /\ zoomctrl \in 0 .. 2 /\ sectrkctrl \in 0 .. 2
        /\ irisctrl \in {0, 3} /\ focusctrl \in {0, 3}
      BY <1>1
  <2> QED  BY <1>1, <2>1, <2>2, <2>3, <2>4, <2>5, <2>6, <2>7 DEF StickTypes
<1>3. Looked /\ Chosen
    BY <1>1 DEF Looked, Chosen
<1>4. ZoomKnown
    BY <1>1 DEF ZoomKnown, ZoomSpeed
<1>5. Undisturbed
    BY <1>1 DEF Undisturbed, Stick!Rest, Stick!Zoomers, Stick!Released
<1> QED  BY <1>2, <1>3, <1>4, <1>5 DEF StickInv

\* A report of the joystick comes in; it meddles if the keys or the stick were in use.
LEMMA NextReportKeeps ==
    ASSUME StickInv, NEW r \in [pov : Povs, but : Buttons, y : Heights], Stick!NextReport(r)
    PROVE  StickInv'
<1>1. /\ todo = "nothing" /\ reports < MaxReports /\ reports' = reports + 1
      /\ report' = r /\ todo' = "pov" /\ meddled' = (meddled \/ Stick!Meddles(r))
      /\ UNCHANGED <<bak, index, Iris_Focus, zoomctrl, sectrkctrl, irisctrl, focusctrl, queue,
                     trken, setSpeed>>
    BY DEF Stick!NextReport, Stick!Counted, Stick!static, Stick!fields
<1>2. bak.pov = report.pov /\ bak.but = report.but /\ bak.y = report.y
    BY <1>1 DEF StickInv, Looked
<1>3. StickTypes'
  <2>1. meddled' \in BOOLEAN
      BY <1>1 DEF StickInv, StickTypes, Stick!Meddles
  <2>2. reports' \in 0 .. MaxReports
      BY <1>1, StickConstants DEF StickInv, StickTypes
  <2> QED  BY <1>1, <2>1, <2>2 DEF StickInv, StickTypes
<1>4. Looked' /\ Chosen' /\ ZoomKnown'
    BY <1>1 DEF StickInv, Looked, Chosen, ZoomKnown
<1>5. Undisturbed'
  <2> SUFFICES ASSUME ~meddled'
               PROVE  Undisturbed'
      BY DEF Undisturbed
  <2>1. ~meddled /\ ~Stick!Meddles(r)
      BY <1>1
  <2>2. /\ r.pov \in Stick!Zoomers /\ r.pov # bak.pov => index.pov = 0
        /\ r.but # bak.but => /\ r.y = "mid" /\ bak.y = "mid" /\ ~Stick!StickWaits
                              /\ r.but = Stick!Released \/ bak.but = Stick!Released
      BY <1>2, <2>1 DEF Stick!Meddles
  <2>3. Stick!StickWaits' <=> Stick!StickWaits
      BY <1>1 DEF Stick!StickWaits
  <2>4. StickOut => StickOut'
      BY <1>1, <1>2, <2>3 DEF StickOut
  <2> QED  BY <1>1, <2>1, <2>2, <2>3, <2>4 DEF StickInv, Undisturbed, StickOut
<1> QED  BY <1>3, <1>4, <1>5 DEF StickInv

\* The names of the keys.
LEMMA StickWords ==
    /\ Stick!Released = "released" /\ Stick!Zoomers = {"js_3", "js_4"}
    /\ Stick!Steers = {"left", "right", "up", "down", "js_1", "js_2"}
BY DEF Stick!Released, Stick!Zoomers, Stick!Steers

\* What waits for the dispatcher bears on the invariant only by two kinds of message.
LEMMA SameWaits ==
    ASSUME queue \in Seq(Notices),
           \/ UNCHANGED queue
           \/ \E m \in Notices \ {"jos"} : Stick!Send(m)
    PROVE  /\ queue' \in Seq(Notices)
           /\ Stick!StickWaits' <=> Stick!StickWaits
           /\ InQueue("zoom") => InQueue("zoom")'
<1>1. CASE UNCHANGED queue
    BY <1>1 DEF Stick!StickWaits, InQueue
<1>2. ASSUME NEW m \in Notices \ {"jos"}, Stick!Send(m)
      PROVE  /\ queue' \in Seq(Notices)
             /\ InQueue("jos")' <=> InQueue("jos")
             /\ InQueue("zoom") => InQueue("zoom")'
  <2>1. queue' \in Seq(Notices) /\ \A k : InQueue(k)' <=> InQueue(k) \/ k = m
      BY <1>2, NoticeSent
  <2> QED  BY <2>1
<1> QED  BY <1>1, <1>2 DEF Stick!StickWaits, InQueue

\* The keys around the stick are looked at.
LEMMA PovKeeps ==
    ASSUME StickInv, Stick!parsingJostickPovData
    PROVE  StickInv'
<1>1. /\ todo = "pov" /\ todo' = "but"
      /\ bak' = [bak EXCEPT !.pov = report.pov]
      /\ UNCHANGED <<report, Iris_Focus, irisctrl, focusctrl, trken, setSpeed, reports, meddled>>
    BY DEF Stick!parsingJostickPovData
<1>2. StickTypes /\ Looked /\ Chosen /\ ZoomKnown /\ Undisturbed
    BY DEF StickInv
<1>3. /\ bak' \in [pov : Povs \cup {"up"}, but : Buttons, y : Heights \cup {"low"}]
      /\ bak'.pov = report.pov /\ bak'.but = bak.but /\ bak'.y = bak.y
      /\ report.pov \in Povs
      /\ \/ report.pov = Stick!Released \/ report.pov \in Stick!Steers
         \/ report.pov = "js_3" \/ report.pov = "js_4"
    BY <1>1, <1>2, StickConstants, StickWords DEF StickTypes
\* What the four ways of the step come to.
<1>4. /\ sectrkctrl' = sectrkctrl
      /\ index' \in [pov : {0, 3, 4}, but : {0, 6}] /\ index'.but = index.but
      /\ zoomctrl' \in 0 .. 2
      /\ UNCHANGED queue \/ \E m \in Notices \ {"jos"} : Stick!Send(m)
      /\ UNCHANGED zoomctrl \/ Stick!Send("zoom")
      /\ report.pov = Stick!Released => index'.pov = 0
      /\ \/ UNCHANGED <<zoomctrl, index>>
         \/ /\ report.pov # bak.pov /\ report.pov = "js_3" /\ index'.pov = 3
            /\ zoomctrl' = Stick!Toggle(zoomctrl, 2)
         \/ /\ report.pov # bak.pov /\ report.pov = "js_4" /\ index'.pov = 4
            /\ zoomctrl' = Stick!Toggle(zoomctrl, 1)
         \/ /\ report.pov # bak.pov /\ report.pov = Stick!Released /\ index'.pov = 0
            /\ zoomctrl' = IF index.pov = 3 THEN Stick!Toggle(zoomctrl, 2)
                           ELSE IF index.pov = 4 THEN Stick!Toggle(zoomctrl, 1) ELSE zoomctrl
  <2>0. index \in [pov : {0, 3, 4}, but : {0, 6}] /\ zoomctrl \in 0 .. 2
        /\ Stick!Toggle(zoomctrl, 2) \in 0 .. 2 /\ Stick!Toggle(zoomctrl, 1) \in 0 .. 2
      BY <1>2 DEF StickTypes, Stick!Toggle
  <2>1. CASE report.pov = bak.pov
    <3>1. UNCHANGED <<index, zoomctrl, sectrkctrl, queue>>
        BY <2>1 DEF Stick!parsingJostickPovData
    <3> QED  BY <1>2, <2>0, <2>1, <3>1 DEF Looked
  <2>2. CASE report.pov # bak.pov /\ report.pov \in Stick!Steers
    <3>1. Stick!Send("other") /\ UNCHANGED <<index, zoomctrl, sectrkctrl>>
        BY <2>2, StickWords DEF Stick!parsingJostickPovData, Stick!PovPressed
    <3> QED  BY <2>0, <2>2, <3>1, StickWords DEF Notices
  <2>3. CASE report.pov # bak.pov /\ report.pov = "js_3"
    <3>1. /\ zoomctrl' = Stick!Toggle(zoomctrl, 2) /\ Stick!Send("zoom")
          /\ index' = [index EXCEPT !.pov = 3] /\ UNCHANGED sectrkctrl
        BY <2>3, StickWords DEF Stick!parsingJostickPovData, Stick!PovPressed
    <3> QED  BY <2>0, <2>3, <3>1, StickWords DEF Notices
  <2>4. CASE report.pov # bak.pov /\ report.pov = "js_4"
    <3>1. /\ zoomctrl' = Stick!Toggle(zoomctrl, 1) /\ Stick!Send("zoom")
          /\ index' = [index EXCEPT !.pov = 4] /\ UNCHANGED sectrkctrl
        BY <2>4, StickWords DEF Stick!parsingJostickPovData, Stick!PovPressed
    <3> QED  BY <2>0, <2>4, <3>1, StickWords DEF Notices
  <2>5. CASE report.pov # bak.pov /\ report.pov = Stick!Released
    <3>1. Stick!buttonStopHandle(index.pov) /\ index' = [index EXCEPT !.pov = 0]
        BY <2>5, StickWords DEF Stick!parsingJostickPovData, Stick!PovPressed
    <3>2. CASE index.pov = 3
        BY <2>0, <2>5, <3>1, <3>2, StickWords DEF Notices, Stick!buttonStopHandle
    <3>3. CASE index.pov = 4
        BY <2>0, <2>5, <3>1, <3>3, StickWords DEF Notices, Stick!buttonStopHandle
    <3>4. CASE index.pov = 0
        BY <2>0, <2>5, <3>1, <3>4, StickWords DEF Notices, Stick!buttonStopHandle
    <3> QED  BY <2>0, <3>2, <3>3, <3>4
  <2> QED  BY <1>3, <2>1, <2>2, <2>3, <2>4, <2>5
<1>5. /\ queue' \in Seq(Notices) /\ (Stick!StickWaits' <=> Stick!StickWaits)
      /\ InQueue("zoom") => InQueue("zoom")'
    BY <1>2, <1>4, SameWaits DEF StickTypes
<1>6. StickTypes'
    BY <1>1, <1>2, <1>3, <1>4, <1>5 DEF StickTypes
<1>7. Looked' /\ Chosen'
    BY <1>1, <1>2, <1>3, <1>4 DEF Looked, Chosen
<1>8. ZoomKnown'
  <2>1. CASE Stick!Send("zoom")
    <3>1. \A k : InQueue(k)' <=> InQueue(k) \/ k = "zoom"
        BY <1>2, <2>1, NoticeSent DEF StickTypes, Notices
    <3> QED  BY <3>1 DEF ZoomKnown, InQueue
  <2>2. CASE UNCHANGED zoomctrl
      BY <1>1, <1>2, <1>5, <2>2 DEF ZoomKnown, InQueue, ZoomSpeed
  <2> QED  BY <1>4, <2>1, <2>2
<1>9. Undisturbed'
  <2> SUFFICES ASSUME ~meddled'
               PROVE  Undisturbed'
      BY DEF Undisturbed
  <2>1. StickOut' <=> StickOut
      BY <1>1, <1>3, <1>5 DEF StickOut
  <2>2. /\ zoomctrl = IF index.pov = 3 THEN 2 ELSE IF index.pov = 4 THEN 1 ELSE 0
        /\ report.pov \in Stick!Zoomers /\ report.pov # bak.pov => index.pov = 0
      BY <1>1, <1>2 DEF Undisturbed
  <2>3. zoomctrl' = IF index'.pov = 3 THEN 2 ELSE IF index'.pov = 4 THEN 1 ELSE 0
      BY <1>2, <1>4, <2>2, StickWords DEF Stick!Toggle, StickTypes
  <2> QED  BY <1>1, <1>2, <1>3, <1>4, <2>1, <2>3 DEF Undisturbed
<1> QED  BY <1>6, <1>7, <1>8, <1>9 DEF StickInv

\* The buttons are looked at.
LEMMA ButtonKeeps ==
    ASSUME StickInv, Stick!parsingJostickButtonData
    PROVE  StickInv'
<1>1. /\ todo = "but" /\ todo' = "axis"
      /\ bak' = [bak EXCEPT !.but = report.but]
      /\ UNCHANGED <<report, trken, setSpeed, reports, meddled>>
    BY DEF Stick!parsingJostickButtonData
<1>2. StickTypes /\ Looked /\ Chosen /\ ZoomKnown /\ Undisturbed
    BY DEF StickInv
<1>3. /\ bak' \in [pov : Povs \cup {"up"}, but : Buttons, y : Heights \cup {"low"}]
      /\ bak'.but = report.but /\ bak'.pov = bak.pov /\ bak'.y = bak.y
      /\ report.but \in {Stick!Released, "js_5", "js_6", "js_7", "js_9", "js_11"}
    BY <1>1, <1>2, StickConstants DEF StickTypes
<1>4. /\ zoomctrl' = zoomctrl
      /\ index' \in [pov : {0, 3, 4}, but : {0, 6}] /\ index'.pov = index.pov
      /\ UNCHANGED queue \/ \E m \in Notices \ {"jos"} : Stick!Send(m)
      /\ report.but = Stick!Released => index'.but = 0
      /\ \/ UNCHANGED <<sectrkctrl, Iris_Focus, irisctrl, focusctrl, index>>
         \/ /\ report.but # bak.but /\ report.but = "js_6" /\ index'.but = 6
            /\ sectrkctrl' = (sectrkctrl % 2) + 1
            /\ UNCHANGED <<Iris_Focus, irisctrl, focusctrl>>
         \/ /\ report.but # bak.but /\ report.but = "js_11"
            /\ Iris_Focus' = (Iris_Focus + 1) % 3
            /\ irisctrl' = IF Iris_Focus' = 1 THEN 3 ELSE 0
            /\ focusctrl' = IF Iris_Focus' = 2 THEN 3 ELSE 0
            /\ UNCHANGED <<sectrkctrl, index>>
         \/ /\ report.but # bak.but /\ report.but = Stick!Released /\ index'.but = 0
            /\ sectrkctrl' = IF index.but = 6 THEN (sectrkctrl % 2) + 1 ELSE sectrkctrl
            /\ UNCHANGED <<Iris_Focus, irisctrl, focusctrl>>
  <2>0. index \in [pov : {0, 3, 4}, but : {0, 6}]
      BY <1>2 DEF StickTypes
  <2>1. CASE report.but = bak.but
    <3>1. UNCHANGED <<index, zoomctrl, sectrkctrl, irisctrl, focusctrl, Iris_Focus, queue>>
        BY <2>1 DEF Stick!parsingJostickButtonData, Stick!fields
    <3> QED  BY <1>2, <2>0, <2>1, <3>1 DEF Looked
  <2>2. CASE report.but # bak.but /\ report.but = "js_6"
    <3>1. /\ sectrkctrl' = (sectrkctrl % 2) + 1 /\ Stick!Send("search")
          /\ index' = [index EXCEPT !.but = 6]
          /\ UNCHANGED <<zoomctrl, irisctrl, focusctrl, Iris_Focus>>
        BY <2>2 DEF Stick!parsingJostickButtonData, Stick!ButtonPressed
    <3> QED  BY <2>0, <2>2, <3>1, StickWords DEF Notices
  <2>3. CASE report.but # bak.but /\ report.but = "js_11"
    <3>1. /\ Iris_Focus' = (Iris_Focus + 1) % 3
          /\ irisctrl' = IF Iris_Focus' = 1 THEN 3 ELSE 0
          /\ focusctrl' = IF Iris_Focus' = 2 THEN 3 ELSE 0
          /\ Stick!Send("irisFocus")
          /\ UNCHANGED <<zoomctrl, sectrkctrl, index>>
        BY <2>3 DEF Stick!parsingJostickButtonData, Stick!ButtonPressed
    <3> QED  BY <2>0, <2>3, <3>1, StickWords DEF Notices
  <2>4. CASE report.but # bak.but /\ report.but \in {"js_5", "js_7", "js_9"}
    <3>1. UNCHANGED <<index, zoomctrl, sectrkctrl, irisctrl, focusctrl, Iris_Focus>>
          /\ (UNCHANGED queue \/ Stick!Send("other"))
        BY <2>4 DEF Stick!parsingJostickButtonData, Stick!ButtonPressed, Stick!fields
    <3> QED  BY <2>0, <2>4, <3>1, StickWords DEF Notices
  <2>5. CASE report.but # bak.but /\ report.but = Stick!Released
    <3>1. /\ Stick!buttonStopHandle(index.but)
          /\ index' = [index EXCEPT !.but = 0]
          /\ UNCHANGED <<irisctrl, focusctrl, Iris_Focus>>
        BY <2>5, StickWords DEF Stick!parsingJostickButtonData, Stick!ButtonPressed
    <3>2. CASE index.but = 6
        BY <2>0, <2>5, <3>1, <3>2, StickWords DEF Notices, Stick!buttonStopHandle
    <3>3. CASE index.but = 0
        BY <2>0, <2>5, <3>1, <3>3, StickWords DEF Notices, Stick!buttonStopHandle
    <3> QED  BY <2>0, <3>2, <3>3
  <2> QED  BY <1>3, <2>1, <2>2, <2>3, <2>4, <2>5
<1>5. /\ queue' \in Seq(Notices) /\ (Stick!StickWaits' <=> Stick!StickWaits)
      /\ InQueue("zoom") => InQueue("zoom")'
    BY <1>2, <1>4, SameWaits DEF StickTypes
<1>6. /\ sectrkctrl' \in 0 .. 2 /\ Iris_Focus' \in 0 .. 2
      /\ irisctrl' \in {0, 3} /\ focusctrl' \in {0, 3}
    BY <1>2, <1>4 DEF StickTypes
<1>7. StickTypes'
    BY <1>1, <1>2, <1>3, <1>4, <1>5, <1>6 DEF StickTypes
<1>8. Looked' /\ Chosen'
    BY <1>1, <1>2, <1>3, <1>4 DEF Looked, Chosen
<1>9. ZoomKnown'
    BY <1>1, <1>2, <1>4, <1>5 DEF ZoomKnown, InQueue, ZoomSpeed
<1>10. Undisturbed'
  <2> SUFFICES ASSUME ~meddled'
               PROVE  Undisturbed'
      BY DEF Undisturbed
  <2>1. StickOut' <=> StickOut
      BY <1>1, <1>3, <1>5 DEF StickOut
  <2>2. /\ index.but = 6 <=> sectrkctrl = 1
        /\ report.but # bak.but =>
              /\ report.but = Stick!Released \/ bak.but = Stick!Released
              /\ ~StickOut
        /\ bak.but = Stick!Released => index.but = 0
        /\ setSpeed.iris # 0 => StickOut /\ irisctrl = 3 /\ sectrkctrl # 1
        /\ setSpeed.focus # 0 => StickOut /\ focusctrl = 3 /\ sectrkctrl # 1
      BY <1>1, <1>2 DEF Undisturbed, Looked
  <2>3. index'.but = 6 <=> sectrkctrl' = 1
    <3>1. sectrkctrl \in 0 .. 2 /\ index.but \in {0, 6}
        BY <1>2 DEF StickTypes
    <3>2. sectrkctrl # 1 => (sectrkctrl % 2) + 1 = 1
        BY <3>1
    <3>3. sectrkctrl = 1 => (sectrkctrl % 2) + 1 = 2
        BY <3>1
    <3> QED  BY <1>4, <2>2, <3>1, <3>2, <3>3, StickWords
  <2>4. /\ setSpeed'.iris # 0 => StickOut' /\ irisctrl' = 3 /\ sectrkctrl' # 1
        /\ setSpeed'.focus # 0 => StickOut' /\ focusctrl' = 3 /\ sectrkctrl' # 1
      BY <1>1, <1>4, <2>1, <2>2
  <2> QED  BY <1>1, <1>2, <1>3, <1>4, <2>1, <2>3, <2>4 DEF Undisturbed
<1> QED  BY <1>7, <1>8, <1>9, <1>10 DEF StickInv

\* The stick is looked at.
LEMMA AxisKeeps ==
    ASSUME StickInv, Stick!parsingJostickAxisData
    PROVE  StickInv'
<1>1. /\ todo = "axis" /\ todo' = "nothing"
      /\ IF report.y # bak.y THEN Stick!Send("jos") ELSE UNCHANGED queue
      /\ bak' = [bak EXCEPT !.y = report.y]
      /\ UNCHANGED <<report, index, Iris_Focus, zoomctrl, sectrkctrl, irisctrl, focusctrl,
                     trken, setSpeed, reports, meddled>>
    BY DEF Stick!parsingJostickAxisData, Stick!fields
<1>2. StickTypes /\ Looked /\ Chosen /\ ZoomKnown /\ Undisturbed
    BY DEF StickInv
<1>3. /\ bak' \in [pov : Povs \cup {"up"}, but : Buttons, y : Heights \cup {"low"}]
      /\ bak'.y = report.y /\ bak'.pov = bak.pov /\ bak'.but = bak.but
      /\ bak.but = report.but /\ bak.pov = report.pov
    BY <1>1, <1>2 DEF StickTypes, Looked
<1>4. /\ queue' \in Seq(Notices)
      /\ InQueue("zoom") => InQueue("zoom")'
      /\ StickOut => StickOut'
  <2>1. CASE report.y = bak.y
      BY <1>1, <1>2, <1>3, <2>1 DEF StickTypes, InQueue, StickOut, Stick!StickWaits
  <2>2. CASE report.y # bak.y
    <3>1. queue' \in Seq(Notices) /\ \A k : InQueue(k)' <=> InQueue(k) \/ k = "jos"
        BY <1>1, <1>2, <2>2, NoticeSent DEF StickTypes, Notices
    <3> QED  BY <3>1 DEF StickOut, Stick!StickWaits, InQueue
  <2> QED  BY <2>1, <2>2
<1>5. StickTypes'
    BY <1>1, <1>2, <1>3, <1>4 DEF StickTypes
<1>6. Looked' /\ Chosen'
    BY <1>1, <1>2, <1>3 DEF Looked, Chosen
<1>7. ZoomKnown'
    BY <1>1, <1>2, <1>4 DEF ZoomKnown, InQueue, ZoomSpeed
<1>8. Undisturbed'
    BY <1>1, <1>2, <1>3, <1>4 DEF Undisturbed
<1> QED  BY <1>5, <1>6, <1>7, <1>8 DEF StickInv

\* A link zooms, which meddles with the joystick.
LEMMA LinkZoomKeeps ==
    ASSUME StickInv, NEW v \in LinkZooms, Stick!LinkZoom(v)
    PROVE  StickInv'
<1>1. /\ reports < MaxReports /\ reports' = reports + 1
      /\ zoomctrl' = v /\ Stick!Send("zoom") /\ meddled' = TRUE
      /\ UNCHANGED <<report, todo, bak, index, Iris_Focus, sectrkctrl, irisctrl, focusctrl,
                     trken, setSpeed>>
    BY DEF Stick!LinkZoom, Stick!Counted, Stick!static
<1>2. StickTypes /\ Looked /\ Chosen
    BY DEF StickInv
<1>3. queue' \in Seq(Notices) /\ \A k : InQueue(k)' <=> InQueue(k) \/ k = "zoom"
    BY <1>1, <1>2, NoticeSent DEF StickTypes, Notices
<1>4. reports' \in 0 .. MaxReports /\ zoomctrl' \in 0 .. 2
    BY <1>1, <1>2, StickConstants DEF StickTypes
<1>5. StickTypes'
    BY <1>1, <1>2, <1>3, <1>4 DEF StickTypes
<1>6. Looked' /\ Chosen'
    BY <1>1, <1>2 DEF Looked, Chosen
<1>7. ZoomKnown'
    BY <1>3 DEF ZoomKnown, InQueue
<1>8. Undisturbed'
    BY <1>1 DEF Undisturbed
<1> QED  BY <1>5, <1>6, <1>7, <1>8 DEF StickInv

\* The image process begins or ends a search, which meddles too.
LEMMA ImageTracksKeeps ==
    ASSUME StickInv, Stick!ImageTracks
    PROVE  StickInv'
<1>1. /\ reports < MaxReports /\ reports' = reports + 1 /\ trken' = ~trken
      /\ UNCHANGED <<report, todo, bak, index, Iris_Focus, zoomctrl, sectrkctrl, irisctrl,
                     focusctrl, queue, setSpeed, meddled>>
    BY DEF Stick!ImageTracks, Stick!Counted, Stick!static, Stick!fields
<1>2. StickTypes /\ Looked /\ Chosen /\ ZoomKnown /\ Undisturbed
    BY DEF StickInv
<1>3. reports' \in 0 .. MaxReports
    BY <1>1, <1>2, StickConstants DEF StickTypes
<1>4. trken' \in BOOLEAN
    BY <1>1
<1>5. StickTypes'
    BY <1>1, <1>2, <1>3, <1>4 DEF StickTypes
<1>6. Looked' /\ Chosen' /\ ZoomKnown'
    BY <1>1, <1>2 DEF Looked, Chosen, ZoomKnown, ZoomSpeed
<1>7. Undisturbed'
    BY <1>1, <1>2 DEF Undisturbed, StickOut, Stick!StickWaits
<1> QED  BY <1>5, <1>6, <1>7 DEF StickInv

\* What every handler leaves alone, and what it has done to the queue.
LEMMA Handled ==
    ASSUME StickInv, NEW note, Stick!Handle(note)
    PROVE  /\ UNCHANGED <<report, todo, bak, index, Iris_Focus, zoomctrl, irisctrl, focusctrl,
                          trken, reports>>
           /\ queue' \in Seq(Notices) /\ InQueue(note)
           /\ note # "jos" => (StickOut' <=> StickOut)
           /\ StickOut' => StickOut
           /\ report.y # "mid" => StickOut'
           /\ note # "zoom" /\ InQueue("zoom") => InQueue("zoom")'
           /\ Looked' /\ Chosen'
<1>1. /\ queue # <<>> /\ Head(queue) = note /\ queue' = Tail(queue)
      /\ UNCHANGED <<report, todo, bak, index, Iris_Focus, zoomctrl, irisctrl, focusctrl,
                     trken, reports>>
    BY DEF Stick!Handle, Stick!static
<1>2. queue \in Seq(Notices) /\ Looked /\ Chosen
    BY DEF StickInv, StickTypes
<1>3. /\ queue' \in Seq(Notices)
      /\ \A k : InQueue(k)' => InQueue(k)
      /\ \A k : InQueue(k) => InQueue(k)' \/ k = note
      /\ InQueue(note)
    BY <1>1, <1>2, NoticeTaken
<1>4. /\ InQueue("jos")' => InQueue("jos")
      /\ InQueue("jos") => InQueue("jos")' \/ note = "jos"
    BY <1>3
<1>5. /\ note # "jos" => (StickOut' <=> StickOut)
      /\ StickOut' => StickOut
      /\ report.y # "mid" => StickOut'
    BY <1>1, <1>4 DEF StickOut, Stick!StickWaits, InQueue
<1>6. Looked' /\ Chosen'
    BY <1>1, <1>2 DEF Looked, Chosen
<1> QED  BY <1>1, <1>3, <1>5, <1>6

\* The zoom is handled.
LEMMA ZoomHandled ==
    ASSUME StickInv, Stick!HandleZoom
    PROVE  StickInv'
<1>1. /\ UNCHANGED <<sectrkctrl, meddled>> /\ Stick!Handle("zoom")
      /\ setSpeed' = [setSpeed EXCEPT !.zoom = CASE zoomctrl = 1 -> -1
                                                 [] zoomctrl = 2 -> 1
                                                 [] OTHER -> 0]
    BY DEF Stick!HandleZoom
<1>2. /\ UNCHANGED <<report, todo, bak, index, Iris_Focus, zoomctrl, irisctrl, focusctrl,
                          trken, reports>>
      /\ queue' \in Seq(Notices) /\ (StickOut' <=> StickOut) /\ Looked' /\ Chosen'
    BY <1>1, Handled
<1>3. StickTypes /\ Undisturbed
    BY DEF StickInv
<1>4. /\ setSpeed'.zoom = ZoomSpeed(zoomctrl)
      /\ setSpeed'.iris = setSpeed.iris /\ setSpeed'.focus = setSpeed.focus
      /\ setSpeed' \in [{"zoom", "iris", "focus"} -> -1 .. 1]
    BY <1>1, <1>3 DEF StickTypes, ZoomSpeed
<1>5. StickTypes'
    BY <1>1, <1>2, <1>3, <1>4 DEF StickTypes
<1>6. ZoomKnown'
    BY <1>2, <1>4 DEF ZoomKnown, ZoomSpeed
<1>7. Undisturbed'
    BY <1>1, <1>2, <1>3, <1>4 DEF Undisturbed
<1> QED  BY <1>2, <1>5, <1>6, <1>7 DEF StickInv

\* The search ended by the dispatcher.
LEMMA ClearedIs ==
    ASSUME StickInv, Stick!Cleared
    PROVE  /\ sectrkctrl' \in 0 .. 2 /\ meddled' \in BOOLEAN
           /\ sectrkctrl' = sectrkctrl \/ sectrkctrl' = 0
           /\ ~meddled' => ~meddled /\ sectrkctrl' = sectrkctrl
<1>1. StickTypes
    BY DEF StickInv
<1>2. sectrkctrl' = sectrkctrl \/ sectrkctrl' = 0
    BY DEF Stick!Cleared
<1>3. meddled' = (meddled \/ sectrkctrl # sectrkctrl')
    BY DEF Stick!Cleared
<1>4. meddled' \in BOOLEAN
    BY <1>3
<1>5. sectrkctrl' \in 0 .. 2
    BY <1>1, <1>2 DEF StickTypes
<1>6. ASSUME ~meddled'
      PROVE  ~meddled /\ sectrkctrl' = sectrkctrl
    BY <1>3, <1>6
<1> QED  BY <1>2, <1>4, <1>5, <1>6

\* The search is handled.
LEMMA SearchHandled ==
    ASSUME StickInv, Stick!HandleSearch
    PROVE  StickInv'
<1>1. Stick!Handle("search") /\ Stick!Cleared /\ UNCHANGED setSpeed
    BY DEF Stick!HandleSearch
<1>2. /\ UNCHANGED <<report, todo, bak, index, Iris_Focus, zoomctrl, irisctrl, focusctrl,
                          trken, reports>>
      /\ queue' \in Seq(Notices) /\ (StickOut' <=> StickOut) /\ Looked' /\ Chosen'
      /\ InQueue("zoom") => InQueue("zoom")'
    BY <1>1, Handled
<1>3. StickTypes /\ Undisturbed /\ ZoomKnown
    BY DEF StickInv
<1>4. /\ sectrkctrl' \in 0 .. 2 /\ meddled' \in BOOLEAN
      /\ ~meddled' => ~meddled /\ sectrkctrl' = sectrkctrl
    BY <1>1, ClearedIs
<1>5. StickTypes'
    BY <1>1, <1>2, <1>3, <1>4 DEF StickTypes
<1>6. ZoomKnown'
    BY <1>1, <1>2, <1>3 DEF ZoomKnown, ZoomSpeed, InQueue
<1>7. Undisturbed'
    BY <1>1, <1>2, <1>3, <1>4 DEF Undisturbed
<1> QED  BY <1>2, <1>5, <1>6, <1>7 DEF StickInv

\* The choice of iris or focus is handled.
LEMMA IrisFocusHandled ==
    ASSUME StickInv, Stick!HandleIrisFocus
    PROVE  StickInv'
<1>1. /\ Stick!Handle("irisFocus") /\ UNCHANGED <<sectrkctrl, meddled>>
      /\ setSpeed' = IF irisctrl = 0 /\ focusctrl = 0
                     THEN [setSpeed EXCEPT !.iris = 0, !.focus = 0] ELSE setSpeed
    BY DEF Stick!HandleIrisFocus
<1>2. /\ UNCHANGED <<report, todo, bak, index, Iris_Focus, zoomctrl, irisctrl, focusctrl,
                          trken, reports>>
      /\ queue' \in Seq(Notices) /\ (StickOut' <=> StickOut) /\ Looked' /\ Chosen'
      /\ InQueue("zoom") => InQueue("zoom")'
    BY <1>1, Handled
<1>3. StickTypes /\ Undisturbed /\ ZoomKnown
    BY DEF StickInv
<1>4. /\ setSpeed' \in [{"zoom", "iris", "focus"} -> -1 .. 1]
      /\ setSpeed'.zoom = setSpeed.zoom
      /\ setSpeed'.iris # 0 => setSpeed.iris # 0
      /\ setSpeed'.focus # 0 => setSpeed.focus # 0
  <2>1. setSpeed \in [{"zoom", "iris", "focus"} -> -1 .. 1]
      BY <1>3 DEF StickTypes
  <2>2. CASE setSpeed' = setSpeed
      BY <2>1, <2>2
  <2>3. CASE setSpeed' = [setSpeed EXCEPT !.iris = 0, !.focus = 0]
    <3> DEFINE h == [setSpeed EXCEPT !.iris = 0]
    <3>0. h \in [{"zoom", "iris", "focus"} -> -1 .. 1]
        BY <2>1
    <3>a. setSpeed' = [h EXCEPT !.focus = 0]
        BY <2>1, <2>3
    <3> HIDE DEF h
    <3>1. setSpeed' \in [{"zoom", "iris", "focus"} -> -1 .. 1]
        BY <3>0, <3>a
    <3>2. setSpeed'.zoom = setSpeed.zoom
        BY <2>1, <2>3
    <3>3. setSpeed'.iris = 0 /\ setSpeed'.focus = 0
        BY <2>1, <2>3
    <3> QED  BY <3>1, <3>2, <3>3
  <2> QED  BY <1>1, <2>2, <2>3
<1>5. StickTypes'
    BY <1>1, <1>2, <1>3, <1>4 DEF StickTypes
<1>6. ZoomKnown'
    BY <1>1, <1>2, <1>3, <1>4 DEF ZoomKnown, ZoomSpeed, InQueue
<1>7. Undisturbed'
    BY <1>1, <1>2, <1>3, <1>4 DEF Undisturbed
<1> QED  BY <1>2, <1>5, <1>6, <1>7 DEF StickInv

\* The stick's message: at most one of iris and focus moves, and with the stick in
\* the middle it stands afterwards.
LEMMA JosPosHandled ==
    ASSUME StickInv, Stick!HandleJosPos
    PROVE  StickInv'
<1>1. Stick!Handle("jos")
    BY DEF Stick!HandleJosPos
<1>2. /\ UNCHANGED <<report, todo, bak, index, Iris_Focus, zoomctrl, irisctrl, focusctrl,
                          trken, reports>>
      /\ queue' \in Seq(Notices) /\ (StickOut' => StickOut) /\ Looked' /\ Chosen'
      /\ report.y # "mid" => StickOut'
      /\ InQueue("zoom") => InQueue("zoom")'
    BY <1>1, Handled
<1>3. StickTypes /\ Undisturbed /\ ZoomKnown /\ Chosen
    BY DEF StickInv
<1>4. /\ sectrkctrl' \in 0 .. 2 /\ meddled' \in BOOLEAN
      /\ ~meddled' => ~meddled /\ sectrkctrl' = sectrkctrl
  <2>1. CASE sectrkctrl = 1
      BY <2>1, ClearedIs DEF Stick!HandleJosPos
  <2>2. CASE sectrkctrl # 1
      BY <1>3, <2>2 DEF Stick!HandleJosPos, StickTypes
  <2> QED  BY <2>1, <2>2
<1>5. /\ setSpeed' \in [{"zoom", "iris", "focus"} -> -1 .. 1]
      /\ setSpeed'.zoom = setSpeed.zoom
      /\ ~meddled' /\ setSpeed'.iris # 0 => report.y # "mid" /\ irisctrl = 3 /\ sectrkctrl # 1
      /\ ~meddled' /\ setSpeed'.focus # 0 => report.y # "mid" /\ focusctrl = 3 /\ sectrkctrl # 1
  <2>0. /\ setSpeed \in [{"zoom", "iris", "focus"} -> -1 .. 1]
        /\ ~meddled /\ setSpeed.iris # 0 => irisctrl = 3 /\ sectrkctrl # 1
        /\ ~meddled /\ setSpeed.focus # 0 => focusctrl = 3 /\ sectrkctrl # 1
        /\ ~(irisctrl = 3 /\ focusctrl = 3)
      BY <1>3 DEF StickTypes, Undisturbed, Chosen
  <2>1. CASE sectrkctrl = 1
    <3>1. UNCHANGED setSpeed
        BY <2>1 DEF Stick!HandleJosPos
    <3> QED  BY <1>4, <2>0, <2>1, <3>1
  <2>2. CASE sectrkctrl # 1
    <3>1. /\ Stick!Dir \in -1 .. 1
          /\ Stick!Dir # 0 => report.y # "mid"
          /\ setSpeed' = IF irisctrl = 3 THEN [setSpeed EXCEPT !.iris = Stick!Dir]
                         ELSE IF focusctrl = 3 THEN [setSpeed EXCEPT !.focus = Stick!Dir]
                         ELSE setSpeed
        BY <2>2 DEF Stick!HandleJosPos, Stick!Dir
    <3>2. CASE irisctrl = 3
      <4>1. setSpeed' = [setSpeed EXCEPT !.iris = Stick!Dir]
          BY <3>1, <3>2
      <4>0. Stick!Dir \in -1 .. 1 /\ setSpeed \in [{"zoom", "iris", "focus"} -> -1 .. 1]
          BY <2>0, <3>1
      <4>2. setSpeed' \in [{"zoom", "iris", "focus"} -> -1 .. 1]
          BY <4>0, <4>1
      <4>3. setSpeed'.zoom = setSpeed.zoom
          BY <4>0, <4>1
      <4>4. setSpeed'.iris = Stick!Dir /\ setSpeed'.focus = setSpeed.focus
          BY <4>0, <4>1
      <4> QED  BY <1>4, <2>0, <2>2, <3>1, <4>2, <4>3, <4>4, <3>2
    <3>3. CASE irisctrl # 3 /\ focusctrl = 3
      <4>1. setSpeed' = [setSpeed EXCEPT !.focus = Stick!Dir]
          BY <3>1, <3>3
      <4>0. Stick!Dir \in -1 .. 1 /\ setSpeed \in [{"zoom", "iris", "focus"} -> -1 .. 1]
          BY <2>0, <3>1
      <4>2. setSpeed' \in [{"zoom", "iris", "focus"} -> -1 .. 1]
          BY <4>0, <4>1
      <4>3. setSpeed'.zoom = setSpeed.zoom
          BY <4>0, <4>1
      <4>4. setSpeed'.focus = Stick!Dir /\ setSpeed'.iris = setSpeed.iris
          BY <4>0, <4>1
      <4> QED  BY <1>4, <2>0, <2>2, <3>1, <4>2, <4>3, <4>4, <3>3
    <3>4. CASE irisctrl # 3 /\ focusctrl # 3
        BY <1>4, <2>0, <2>2, <3>1, <3>4
    <3> QED  BY <3>2, <3>3, <3>4
  <2> QED  BY <2>1, <2>2
<1>6. StickTypes'
    BY <1>2, <1>3, <1>4, <1>5 DEF StickTypes
<1>7. ZoomKnown'
    BY <1>2, <1>3, <1>5 DEF ZoomKnown, ZoomSpeed, InQueue
<1>8. Undisturbed'
    BY <1>2, <1>3, <1>4, <1>5 DEF Undisturbed
<1> QED  BY <1>2, <1>6, <1>7, <1>8 DEF StickInv

\* Any other message is handled.
LEMMA OtherHandled ==
    ASSUME StickInv, Stick!HandleOther
    PROVE  StickInv'
<1>1. Stick!Handle("other") /\ UNCHANGED <<sectrkctrl, setSpeed, meddled>>
    BY DEF Stick!HandleOther
<1>2. /\ UNCHANGED <<report, todo, bak, index, Iris_Focus, zoomctrl, irisctrl, focusctrl,
                          trken, reports>>
      /\ queue' \in Seq(Notices) /\ (StickOut' <=> StickOut) /\ Looked' /\ Chosen'
      /\ InQueue("zoom") => InQueue("zoom")'
    BY <1>1, Handled
<1>3. StickTypes /\ Undisturbed /\ ZoomKnown
    BY DEF StickInv
<1>4. StickTypes'
    BY <1>1, <1>2, <1>3 DEF StickTypes
<1>5. ZoomKnown'
    BY <1>1, <1>2, <1>3 DEF ZoomKnown, ZoomSpeed, InQueue
<1>6. Undisturbed'
    BY <1>1, <1>2, <1>3 DEF Undisturbed
<1> QED  BY <1>2, <1>4, <1>5, <1>6 DEF StickInv

\* Every step keeps the invariant.
LEMMA StickKeeps ==
    ASSUME StickInv, [Stick!Next]_(Stick!vars)
    PROVE  StickInv'
<1>1. CASE UNCHANGED Stick!vars
  <2>1. UNCHANGED <<report, todo, bak, index, Iris_Focus, zoomctrl, sectrkctrl, irisctrl,
                    focusctrl, queue, trken, setSpeed, reports, meddled>>
      BY <1>1 DEF Stick!vars, Stick!static, Stick!fields
  <2>2. StickTypes' /\ Looked' /\ Chosen' /\ ZoomKnown'
      BY <2>1 DEF StickInv, StickTypes, Looked, Chosen, ZoomKnown, ZoomSpeed
  <2>3. Undisturbed'
      BY <2>1 DEF StickInv, Undisturbed, StickOut, Stick!StickWaits
  <2> QED  BY <2>2, <2>3 DEF StickInv
<1>2. CASE \E r \in [pov : Povs, but : Buttons, y : Heights] : Stick!NextReport(r)
    BY <1>2, NextReportKeeps
<1>3. CASE \E v \in LinkZooms : Stick!LinkZoom(v)
    BY <1>3, LinkZoomKeeps
<1> QED  BY <1>1, <1>2, <1>3, PovKeeps, ButtonKeeps, AxisKeeps, ImageTracksKeeps, ZoomHandled,
            SearchHandled, IrisFocusHandled, JosPosHandled, OtherHandled DEF Stick!Next

(***************************************************************************)
(* The settings: who works with one has it, is told or is yet to be told.  *)
(***************************************************************************)

\* The operators of the standard modules are the same in every part.
LEMMA SameCounts ==
    ASSUME NEW S
    PROVE  /\ Table!Cardinality(S) = Cardinality(S)
           /\ Table!IsFiniteSet(S) <=> IsFiniteSet(S)
BY DEF Cardinality, Table!Cardinality, IsFiniteSet, Table!IsFiniteSet

\* What the assumption gives.
LEMMA TableConstants ==
    /\ IsFiniteSet(Watched) /\ Watched \subseteq 0 .. 2047
    /\ \A a \in Watched : Shipped[a] \in Table!Values(a) /\ Factory[a] \in Table!Values(a)
    /\ Positions \subseteq Nat /\ Octet \in Nat \ {0} /\ MaxCommands \in Nat /\ MaxStarts \in Nat
<1>1. Table!SettingsAssumption
    BY CommandsAssumption DEF CommandsAssumption
<1>2. Table!IsFiniteSet(Watched)
    BY <1>1 DEF Table!SettingsAssumption
<1>3. /\ Watched \subseteq 0 .. 2047
      /\ \A a \in Watched : Shipped[a] \in Table!Values(a) /\ Factory[a] \in Table!Values(a)
      /\ Positions \subseteq Nat /\ Octet \in Nat \ {0} /\ MaxCommands \in Nat /\ MaxStarts \in Nat
    BY <1>1 DEF Table!SettingsAssumption
<1> QED  BY <1>2, <1>3, SameCounts

\* The places in memory that the code treats apart do not meet.
LEMMA PlacesApart ==
    /\ \A a \in Table!Status : a \in Watched /\ ~Table!IsIp(a) /\ a \notin Table!Position
                               /\ a \notin Table!Tuning
    /\ \A a \in Table!Position : a \in Watched /\ ~Table!IsIp(a) /\ a \notin Table!Tuning
    /\ \A a \in Table!Tuning : a \in Watched /\ ~Table!IsText(a)
<1>1. /\ Table!Block.RTS = 2 /\ Table!Block.PREPOS = 54 /\ Table!Block.JOS = 0
      /\ Table!Block.PID = 100 /\ Table!Block.PTZ = 1 /\ Table!Block.OUTPUT = 50
      /\ Table!Block.OSD = 6 /\ Table!Block.OSD2 = 29
    BY DEF Table!Block
<1>2. \A a \in Table!Status : a \in Watched /\ \E f \in 0 .. 15 : a = 32 + f
    BY <1>1 DEF Table!Status, Table!Fields, Table!Address
<1>3. \A a \in Table!Position : a \in Watched /\ \E f \in 0 .. 2 : a = 864 + f
    BY <1>1 DEF Table!Position, Table!Fields, Table!Address
<1>4. \A a \in Table!Tuning : a \in Watched /\ \E f \in 0 .. 15 : a = f \/ a = 1600 + f
    BY <1>1 DEF Table!Tuning, Table!Fields, Table!Address
<1>5. \A a : Table!IsIp(a) => a = 22 \/ a = 808
    BY <1>1 DEF Table!IsIp, Table!Address
<1>6. \A a : Table!IsText(a) => \E id \in 0 .. 15 : a = 16 * (6 + id) + 4 \/ a = 16 * (29 + id) + 4
    BY <1>1 DEF Table!IsText, Table!Address
<1> QED  BY <1>2, <1>3, <1>4, <1>5, <1>6

\* A place that was never set holds 0, which every kind of place may hold.
LEMMA ZeroHeld == ASSUME NEW a PROVE 0 \in Table!Values(a) /\ Table!Values(a) \subseteq Nat
<1>1. Octet * Octet * Octet * Octet \in Nat \ {0}
  <2>1. Octet \in Nat \ {0}
      BY TableConstants
  <2>2. \A x, y \in Nat \ {0} : x * y \in Nat \ {0}
      OBVIOUS
  <2> QED  BY <2>1, <2>2
<1> QED  BY <1>1 DEF Table!Values

\* The order in which the addresses are written has each of them.
Below(a) == {b \in Watched : b < a}

\* The order has each watched address, and no more places than there are of them.
LEMMA OrderCovers ==
    /\ Cardinality(Watched) \in Nat
    /\ Len(Table!Order) = Cardinality(Watched)
    /\ \A a \in Watched : \E i \in 1 .. Len(Table!Order) : Table!Order[i] = a
<1> DEFINE size == Cardinality(Watched)
<1>1. size \in Nat /\ Watched \subseteq Nat
    BY TableConstants, FS_CardinalityType
<1>2. Len(Table!Order) = size
  <2> HIDE DEF size
  <2>1. Table!Order = [i \in 1 .. size |-> CHOOSE a \in Watched : Cardinality(Below(a)) = i - 1]
      BY DEF Table!Order, Below, size, Cardinality, Table!Cardinality
  <2> DEFINE place(i) == CHOOSE a \in Watched : Cardinality(Below(a)) = i - 1
             S == {place(i) : i \in 1 .. size}
  <2>2. Table!Order = [i \in 1 .. size |-> place(i)]
      BY <2>1
  <2>3. Table!Order \in [1 .. size -> S]
      BY <2>2
  <2> HIDE DEF S, place
  <2>4. Table!Order \in Seq(S)
      BY <1>1, <2>3, SeqDef
  <2>5. /\ DOMAIN Table!Order = 1 .. size /\ DOMAIN Table!Order = 1 .. Len(Table!Order)
        /\ Len(Table!Order) \in Nat
      BY <2>3, <2>4, LenProperties
  <2> QED  BY <1>1, <2>5
<1>3. ASSUME NEW a \in Watched
      PROVE  \E i \in 1 .. size : Table!Order[i] = a
  <2>1. /\ Below(a) \in SUBSET (Watched \ {a}) /\ IsFiniteSet(Watched \ {a})
        /\ Cardinality(Watched \ {a}) = size - 1
      BY <1>1, TableConstants, FS_RemoveElement DEF Below
  <2>2. IsFiniteSet(Below(a)) /\ Cardinality(Below(a)) <= size - 1 /\ Cardinality(Below(a)) \in Nat
      BY <2>1, FS_Subset, FS_CardinalityType
  <2> DEFINE i == Cardinality(Below(a)) + 1
             x == CHOOSE b \in Watched : Cardinality(Below(b)) = i - 1
  <2>3. i \in 1 .. size
      BY <1>1, <2>2
  <2>4. x \in Watched /\ Cardinality(Below(x)) = Cardinality(Below(a))
      BY <2>2
  <2>5. Table!Order[i] = x
    <3>1. Table!Order = [j \in 1 .. size |-> CHOOSE b \in Watched : Cardinality(Below(b)) = j - 1]
        BY DEF Table!Order, Below, Cardinality, Table!Cardinality
    <3> QED  BY <2>3, <3>1
  <2> HIDE DEF x
  <2>6. ~(x < a)
    <3> SUFFICES ASSUME x < a PROVE FALSE
        OBVIOUS
    <3>0. x \in Nat /\ a \in Nat /\ \A b \in Below(x) : b \in Watched /\ b \in Nat /\ b < x
        BY <1>1, <2>4 DEF Below
    <3>1. Below(x) \in SUBSET Below(a) /\ x \in Below(a) /\ x \notin Below(x)
      <4>1. ~(x < x) /\ \A b \in Nat : b < x => b < a
          BY <3>0
      <4>2. \A b \in Below(x) : b \in Watched /\ b < a
          BY <3>0, <4>1
      <4> QED  BY <2>4, <4>1, <4>2 DEF Below
    <3> QED  BY <2>2, <2>4, <3>1, FS_Subset
  <2>7. ~(a < x)
    <3> SUFFICES ASSUME a < x PROVE FALSE
        OBVIOUS
    <3>0. a \in Nat /\ x \in Nat /\ \A b \in Below(a) : b \in Watched /\ b \in Nat /\ b < a
        BY <1>1, <2>4 DEF Below
    <3>1. Below(a) \in SUBSET Below(x) /\ a \in Below(x) /\ a \notin Below(a)
      <4>1. ~(a < a) /\ \A b \in Nat : b < a => b < x
          BY <3>0
      <4>2. \A b \in Below(a) : b \in Watched /\ b < x
          BY <3>0, <4>1
      <4> QED  BY <2>4, <4>1, <4>2 DEF Below
    <3>2. IsFiniteSet(Below(x))
      <4>1. Below(x) \in SUBSET Watched
          BY DEF Below
      <4> QED  BY <4>1, TableConstants, FS_Subset
    <3> QED  BY <2>4, <3>1, <3>2, FS_Subset
  <2> QED  BY <1>1, <2>3, <2>4, <2>5, <2>6, <2>7
<1> QED  BY <1>1, <1>2, <1>3

\* What was written is what is read.
LEMMA Divided ==
    ASSUME NEW x \in Nat, NEW m \in Nat \ {0}
    PROVE  /\ x \div m \in Nat /\ x % m \in 0 .. m - 1
           /\ (x \div m) * m + (x % m) = x
           /\ \A y \in Nat : x < m * y => x \div m < y
<1>1. x \div m \in Nat /\ x % m \in 0 .. m - 1 /\ x = m * (x \div m) + (x % m)
  <2>1. x \div m \in Nat
      OBVIOUS
  <2>2. x % m \in 0 .. m - 1
      OBVIOUS
  <2>3. x = m * (x \div m) + (x % m)
      OBVIOUS
  <2> QED  BY <2>1, <2>2, <2>3
<1>2. ASSUME NEW y \in Nat, x < m * y
      PROVE  x \div m < y
  <2>1. ASSUME NEW q \in Nat, q >= y, NEW r \in Nat, x = m * q + r
        PROVE  FALSE
    <3>1. m * q >= m * y
      <4>1. PICK d \in Nat : q = y + d
          BY <2>1
      <4>2. m * q = m * y + m * d /\ m * d \in Nat /\ m * y \in Nat
          BY <4>1
      <4> QED  BY <4>2
    <3> QED  BY <1>2, <2>1, <3>1
  <2> QED  BY <1>1, <2>1
<1> QED  BY <1>1, <1>2

\* An address is what it was after intip2string and stringip2int.
LEMMA OctetsReturn ==
    ASSUME NEW ip \in 0 .. Octet * Octet * Octet * Octet - 1
    PROVE  Table!stringip2int(Table!intip2string(ip)) = ip
<1> DEFINE s1 == ip \div Octet
           s2 == s1 \div Octet
           s3 == s2 \div Octet
<1>1. Octet \in Nat \ {0} /\ Octet * Octet \in Nat /\ Octet * Octet * Octet \in Nat
    BY TableConstants
<1>2. ip \in Nat /\ ip < Octet * (Octet * Octet * Octet)
  <2>1. Octet * Octet * Octet * Octet = Octet * (Octet * Octet * Octet)
      BY <1>1
  <2> QED  BY <1>1, <2>1
<1>3. s1 \in Nat /\ s1 < Octet * (Octet * Octet) /\ s1 * Octet + (ip % Octet) = ip
  <2>1. Octet * Octet * Octet = Octet * (Octet * Octet)
      BY <1>1
  <2> QED  BY <1>1, <1>2, <2>1, Divided
<1> HIDE DEF s1
<1>4. s2 \in Nat /\ s2 < Octet * Octet /\ s2 * Octet + (s1 % Octet) = s1
    BY <1>1, <1>3, Divided
<1> HIDE DEF s2
<1>5. s3 \in Nat /\ s3 < Octet /\ s3 * Octet + (s2 % Octet) = s2
    BY <1>1, <1>4, Divided
<1> HIDE DEF s3
<1>6. Table!intip2string(ip) = <<s3 % Octet, s2 % Octet, s1 % Octet, ip % Octet>>
    BY DEF Table!intip2string, s1, s2, s3
<1>7. s3 % Octet = s3
    BY <1>1, <1>5
<1>8. \A x \in Nat : x % Octet \in Nat /\ (x % Octet) % Octet = x % Octet
    BY <1>1
<1>9. Table!stringip2int(<<s3 % Octet, s2 % Octet, s1 % Octet, ip % Octet>>)
      = ((s3 * Octet + (s2 % Octet)) * Octet + (s1 % Octet)) * Octet + (ip % Octet)
    BY <1>2, <1>3, <1>4, <1>5, <1>7, <1>8 DEF Table!stringip2int
<1> QED  BY <1>3, <1>4, <1>5, <1>6, <1>9

\* A value is read from the file as it was written.
LEMMA ReadsWritten ==
    ASSUME NEW a \in Watched, NEW v \in Table!Values(a)
    PROVE  /\ Table!Read(a, Table!Written(a, v)) = v
           /\ Table!Written(a, v) # Table!Nothing
<1>1. Table!Written(a, v).form = Table!Form(a) /\ Table!Nothing.form = "nothing"
      /\ Table!Written(a, v).data = IF Table!IsIp(a) THEN Table!intip2string(v) ELSE v
    BY DEF Table!Written, Table!Nothing
<1>2. Table!Form(a) # "nothing"
    BY DEF Table!Form
<1>3. Table!Written(a, v) # Table!Nothing
    BY <1>1, <1>2
<1>4. CASE Table!IsIp(a)
  <2>1. Table!stringip2int(Table!intip2string(v)) = v
      BY <1>4, OctetsReturn DEF Table!Values
  <2> QED  BY <1>1, <1>3, <1>4, <2>1 DEF Table!Read
<1>5. CASE ~Table!IsIp(a)
    BY <1>1, <1>3, <1>5 DEF Table!Read
<1> QED  BY <1>3, <1>4, <1>5

HowMany == Cardinality(Watched)

\* What stands for an address in the file, and what the table may hold.
Nodes == {Table!Nothing} \cup {Table!Written(a, v) : a \in Watched, v \in Nat}
NodeHolds(a, node, S) == \E v \in S : node = Table!Written(a, v)
Savings(a) == SUBSET Table!Values(a)

TableTypes ==
    /\ table \in [Watched -> Nat] /\ \A a \in Watched : table[a] \in Table!Values(a)
    /\ status \in 0 .. 1

CopyTypes ==
    /\ image \in [Watched -> Int] /\ platform \in [Table!Tuning -> Int]
    /\ ipc \in Seq(Table!Messages)

FileTypes ==
    /\ profile \in [file : {"short", "whole"}, nodes : [Watched -> Nodes]]
    /\ \A a \in Watched : \/ profile.nodes[a] = Table!Nothing
                          \/ NodeHolds(a, profile.nodes[a], Table!Values(a))
    /\ during \in [Watched -> SUBSET Nat]
    /\ \A a \in Watched : during[a] \in Savings(a)

RunTypes ==
    /\ phase \in {"down", "loaded", "up"}
    /\ doing \in SettingCommands \cup {Table!NoCommand}
    /\ saver \in [Table!Savers -> Table!Idle .. HowMany]
    /\ commands \in 0 .. MaxCommands /\ starts \in 0 .. MaxStarts
    /\ marks \subseteq {"cut", "garbled", "platform", "image", "status"}

\* Who is at work: the dispatcher saves for a command, and nobody does anything
\* while the program does not run.
Runs ==
    /\ saver["dispatcher"] # Table!Idle => doing.do = "save"
    /\ phase # "up" => doing = Table!NoCommand /\ \A s \in Table!Savers : saver[s] = Table!Idle

\* Of a file that one save writes: what is written is a value that the table has had
\* since the save began, and what is not is still to come.
SavesWrite ==
    {"cut", "garbled"} \cap marks = {} /\ profile.file = "whole" =>
        /\ \A s, t \in Table!Savers : saver[s] # Table!Idle /\ saver[t] # Table!Idle => s = t
        /\ \A a \in Watched : \/ NodeHolds(a, profile.nodes[a], during[a])
                              \/ \E s \in Table!Savers, i \in 1 .. HowMany :
                                    /\ saver[s] # Table!Idle /\ saver[s] < i
                                    /\ Table!Order[i] = a
        /\ Table!Saving => \A a \in Watched : table[a] \in during[a]
        /\ phase = "loaded" => \A a \in Watched \ Table!Status : table[a] \in during[a]

\* What the image process is told for a command.
ToTell(c) == CASE c.do \in {"set", "text"} -> {c.address}
               [] c.do = "default" -> Table!Resettable(c.block)
               [] OTHER -> {}

ToRead(a) == \E i \in DOMAIN ipc : a \in Table!Asked(ipc[i])

ImageKnows == "image" \notin marks =>
    \A a \in Watched \ (Table!Status \cup Table!Position) :
        image[a] = table[a] \/ ToRead(a) \/ a \in ToTell(doing)

Tuned == phase = "up" /\ "platform" \notin marks =>
    \A a \in Table!Tuning : platform[a] = table[a]

Reported == "status" \notin marks => \A a \in Table!Status : table[a] = status

TableInv == /\ TableTypes /\ CopyTypes /\ FileTypes /\ RunTypes
            /\ Runs /\ SavesWrite /\ ImageKnows /\ Tuned /\ Reported

\* The invariant is what the run checks of the settings, and more.
LEMMA TableShows == ASSUME TableInv
    PROVE  /\ Table!TypeOK /\ Table!SavedSettingsReturn
           /\ Table!ImageHasSettings /\ Table!PlatformHasTuning /\ Table!StatusIsImages
<1>1. Table!TypeOK
  <2>1. \A a \in Watched : profile.nodes[a] = Table!Nothing
                          \/ profile.nodes[a].form \in {"text", "dots", "float", "int"}
    <3>1. \A a, v : Table!Written(a, v).form \in {"text", "dots", "float", "int"}
        BY DEF Table!Written, Table!Form
    <3> QED  BY <3>1 DEF TableInv, FileTypes, NodeHolds
  <2>2. table \in [Watched -> Int] /\ status \in 0 .. 1
      BY DEF TableInv, TableTypes
  <2>3. \A a \in Watched : during[a] \subseteq Int
      BY DEF TableInv, FileTypes
  <2>4. saver \in [Table!Savers -> Table!Idle .. Len(Table!Order)]
      BY OrderCovers DEF TableInv, RunTypes, HowMany
  <2>5. /\ profile.file \in {"short", "whole"} /\ ipc \in Seq(Table!Messages)
        /\ image \in [Watched -> Int] /\ platform \in [Table!Tuning -> Int]
        /\ phase \in {"down", "loaded", "up"}
        /\ doing \in SettingCommands \cup {Table!NoCommand}
        /\ commands \in 0 .. MaxCommands /\ starts \in 0 .. MaxStarts
        /\ marks \subseteq {"cut", "garbled", "platform", "image", "status"}
      BY DEF TableInv, FileTypes, CopyTypes, RunTypes
  <2> QED  BY <2>1, <2>2, <2>3, <2>4, <2>5 DEF Table!TypeOK
<1>2. Table!SavedSettingsReturn
    BY DEF TableInv, SavesWrite, Table!SavedSettingsReturn
<1>3. Table!ImageHasSettings
    BY DEF TableInv, ImageKnows, ToRead, ToTell, Table!ImageHasSettings, Table!NoCommand
<1>4. Table!PlatformHasTuning /\ Table!StatusIsImages
    BY DEF TableInv, Tuned, Reported, Table!PlatformHasTuning, Table!StatusIsImages
<1> QED  BY <1>1, <1>2, <1>3, <1>4

\* At first the file is the one that is shipped, and the table is empty.
LEMMA TableStart == ASSUME Table!Init PROVE TableInv
<1>1. /\ table = [a \in Watched |-> 0]
      /\ profile = [file |-> "whole", nodes |-> Table!WrittenTable(Shipped)]
      /\ ipc = <<>> /\ image = table /\ status = 0
      /\ platform = [a \in Table!Tuning |-> 0] /\ phase = "down" /\ doing = Table!NoCommand
      /\ saver = [s \in Table!Savers |-> Table!Idle] /\ commands = 0 /\ starts = 0
      /\ during = [a \in Watched |-> {Shipped[a]}] /\ marks = {}
    BY DEF Table!Init
<1>2. TableTypes /\ CopyTypes
  <2>1. table \in [Watched -> Nat] /\ image \in [Watched -> Int] /\ status \in 0 .. 1
      BY <1>1
  <2>2. \A a \in Watched : table[a] \in Table!Values(a)
      BY <1>1, ZeroHeld
  <2>3. platform \in [Table!Tuning -> Int] /\ ipc \in Seq(Table!Messages)
      BY <1>1
  <2> QED  BY <2>1, <2>2, <2>3 DEF TableTypes, CopyTypes
<1>3. \A a \in Watched : profile.nodes[a] = Table!Written(a, Shipped[a])
                         /\ Shipped[a] \in Table!Values(a) /\ Shipped[a] \in Nat
    BY <1>1, TableConstants, ZeroHeld DEF Table!WrittenTable
<1>4. FileTypes
  <2>1. profile.nodes \in [Watched -> Nodes]
    <3>1. \A a \in Watched : Table!Written(a, Shipped[a]) \in Nodes
        BY <1>3 DEF Nodes
    <3> QED  BY <1>1, <3>1 DEF Table!WrittenTable
  <2>2. profile \in [file : {"short", "whole"}, nodes : [Watched -> Nodes]]
      BY <1>1, <2>1
  <2>3. during \in [Watched -> SUBSET Nat] /\ \A a \in Watched : during[a] \in Savings(a)
      BY <1>1, <1>3 DEF Savings
  <2> QED  BY <1>3, <2>2, <2>3 DEF FileTypes, NodeHolds
<1>5. RunTypes /\ Runs
  <2>1. HowMany \in Nat /\ Table!Idle \in Table!Idle .. HowMany
      BY OrderCovers DEF HowMany, Table!Idle
  <2>2. MaxCommands \in Nat /\ MaxStarts \in Nat
      BY TableConstants
  <2>3. saver \in [Table!Savers -> Table!Idle .. HowMany]
      BY <1>1, <2>1
  <2> QED  BY <1>1, <2>2, <2>3 DEF RunTypes, Runs, Table!Savers
<1>6. SavesWrite
  <2>1. ~Table!Saving
      BY <1>1 DEF Table!Saving
  <2> QED  BY <1>1, <1>3, <2>1 DEF SavesWrite, NodeHolds
<1>7. ImageKnows /\ Tuned /\ Reported
  <2>1. \A a \in Watched : table[a] = 0 /\ image[a] = table[a]
      BY <1>1
  <2>2. \A a \in Table!Status : a \in Watched
      BY PlacesApart
  <2> QED  BY <1>1, <2>1, <2>2 DEF ImageKnows, Tuned, Reported
<1> QED  BY <1>2, <1>4, <1>5, <1>6, <1>7 DEF TableInv

\* Every message goes out twice, after those that are under way.
LEMMA Tells ==
    ASSUME NEW m \in Seq(Table!Messages), ipc \in Seq(Table!Messages), Table!Tell(m)
    PROVE  /\ ipc' \in Seq(Table!Messages)
           /\ \A a : ToRead(a) => ToRead(a)'
           /\ \A i \in 1 .. Len(m) : \A a \in Table!Asked(m[i]) : ToRead(a)'
<1> DEFINE t == Table!Twice(m)
<1>1. Len(m) \in Nat /\ m \in [1 .. Len(m) -> Table!Messages]
    BY LenProperties
<1>2. t = [i \in 1 .. 2 * Len(m) |-> m[(i + 1) \div 2]]
    BY DEF Table!Twice
<1>3. \A i \in 1 .. 2 * Len(m) : (i + 1) \div 2 \in 1 .. Len(m)
    BY <1>1
<1>4. t \in Seq(Table!Messages) /\ Len(t) = 2 * Len(m) /\ DOMAIN t = 1 .. 2 * Len(m)
  <2>1. t \in [1 .. 2 * Len(m) -> Table!Messages] /\ 2 * Len(m) \in Nat
      BY <1>1, <1>2, <1>3
  <2> HIDE DEF t
  <2>2. t \in Seq(Table!Messages)
      BY <2>1, SeqDef
  <2>3. DOMAIN t = 1 .. 2 * Len(m) /\ DOMAIN t = 1 .. Len(t) /\ Len(t) \in Nat
      BY <2>1, <2>2, LenProperties
  <2> QED  BY <2>1, <2>2, <2>3
<1>5. \A i \in 1 .. Len(m) : 2 * i \in 1 .. 2 * Len(m) /\ t[2 * i] = m[i]
  <2>1. \A i \in 1 .. Len(m) : 2 * i \in 1 .. 2 * Len(m) /\ (2 * i + 1) \div 2 = i
      BY <1>1
  <2> QED  BY <1>2, <2>1
<1>6. ipc' = ipc \o t
    BY DEF Table!Tell
<1> HIDE DEF t
<1>7. /\ ipc' \in Seq(Table!Messages) /\ Len(ipc) \in Nat
      /\ DOMAIN ipc = 1 .. Len(ipc) /\ DOMAIN ipc' = 1 .. Len(ipc) + 2 * Len(m)
      /\ \A i \in 1 .. Len(ipc) : ipc'[i] = ipc[i]
      /\ \A i \in 1 .. 2 * Len(m) : ipc'[Len(ipc) + i] = t[i]
  <2>1. Len(ipc) \in Nat /\ DOMAIN ipc = 1 .. Len(ipc) /\ Len(t) \in Nat /\ 2 * Len(m) \in Nat
      BY <1>1, <1>4, LenProperties
  <2>2. ipc' \in Seq(Table!Messages) /\ Len(ipc') = Len(ipc) + Len(t)
        /\ \A i \in 1 .. Len(ipc) + Len(t) :
               ipc'[i] = IF i <= Len(ipc) THEN ipc[i] ELSE t[i - Len(ipc)]
      BY <1>4, <1>6, ConcatProperties
  <2>3. DOMAIN ipc' = 1 .. Len(ipc')
      BY <2>2, LenProperties
  <2>4. \A i \in 1 .. Len(ipc) : ipc'[i] = ipc[i]
      BY <2>1, <2>2
  <2>5. ASSUME NEW i \in 1 .. 2 * Len(m)
        PROVE  ipc'[Len(ipc) + i] = t[i]
    <3>1. Len(ipc) + i \in 1 .. Len(ipc) + Len(t) /\ ~(Len(ipc) + i <= Len(ipc))
          /\ (Len(ipc) + i) - Len(ipc) = i
        BY <1>4, <2>1
    <3> QED  BY <2>2, <3>1
  <2> QED  BY <1>4, <2>1, <2>2, <2>3, <2>4, <2>5
<1>8. \A a : ToRead(a) => ToRead(a)'
    BY <1>1, <1>7 DEF ToRead
<1>9. ASSUME NEW i \in 1 .. Len(m), NEW a \in Table!Asked(m[i])
      PROVE  ToRead(a)'
  <2>1. Len(ipc) + 2 * i \in DOMAIN ipc' /\ ipc'[Len(ipc) + 2 * i] = m[i]
      BY <1>1, <1>5, <1>7
  <2> QED  BY <2>1 DEF ToRead
<1> QED  BY <1>7, <1>8, <1>9

\* The table changes to values it may hold.
LEMMA Stores ==
    ASSUME TableTypes, FileTypes, NEW v \in [Watched -> Nat], Table!Store(v),
           \A a \in Watched : v[a] \in Table!Values(a)
    PROVE  /\ table' = v
           /\ during' \in [Watched -> SUBSET Nat]
           /\ \A a \in Watched : during'[a] \in Savings(a) /\ during[a] \subseteq during'[a]
           /\ Table!Saving => \A a \in Watched : v[a] \in during'[a]
           /\ ~Table!Saving => during' = during
<1>1. table' = v /\ during' = IF Table!Saving THEN [a \in Watched |-> during[a] \cup {v[a]}]
                              ELSE during
    BY DEF Table!Store
<1>2. during \in [Watched -> SUBSET Nat] /\ \A a \in Watched : during[a] \in Savings(a)
    BY DEF FileTypes
<1> QED  BY <1>1, <1>2 DEF Savings

\* What a command stores: who works with it has it, is told of it or is yet to be.
LEMMA StoresKeep ==
    ASSUME TableInv, NEW v \in [Watched -> Nat], Table!Store(v),
           \A a \in Watched : v[a] \in Table!Values(a),
           UNCHANGED <<profile, saver>>,
           {"cut", "garbled"} \cap marks \subseteq marks',
           phase' = "loaded" => /\ phase = "loaded"
                                /\ \A a \in Watched \ Table!Status : v[a] = table[a]
    PROVE  FileTypes' /\ SavesWrite'
<1>1. TableTypes /\ FileTypes /\ SavesWrite
    BY DEF TableInv
<1>2. /\ table' = v
      /\ during' \in [Watched -> SUBSET Nat]
      /\ \A a \in Watched : during'[a] \in Savings(a) /\ during[a] \subseteq during'[a]
      /\ Table!Saving => \A a \in Watched : v[a] \in during'[a]
      /\ ~Table!Saving => during' = during
    BY <1>1, Stores
<1>3. FileTypes'
    BY <1>1, <1>2 DEF FileTypes, Savings, NodeHolds
<1>4. Table!Saving' <=> Table!Saving
    BY DEF Table!Saving
<1>5. ASSUME {"cut", "garbled"} \cap marks' = {}, profile.file = "whole"
      PROVE  /\ \A s, t \in Table!Savers : saver[s] # Table!Idle /\ saver[t] # Table!Idle => s = t
             /\ \A a \in Watched : \/ NodeHolds(a, profile.nodes[a], during[a])
                                   \/ \E s \in Table!Savers, i \in 1 .. HowMany :
                                         /\ saver[s] # Table!Idle /\ saver[s] < i
                                         /\ Table!Order[i] = a
             /\ phase = "loaded" => \A a \in Watched \ Table!Status : table[a] \in during[a]
    BY <1>1, <1>5 DEF SavesWrite
<1>6. \A a \in Watched : NodeHolds(a, profile.nodes[a], during[a])
                         => NodeHolds(a, profile.nodes[a], during'[a])
    BY <1>2 DEF NodeHolds
<1>7. SavesWrite'
    BY <1>2, <1>4, <1>5, <1>6 DEF SavesWrite
<1> QED  BY <1>3, <1>7

\* Commands are of four kinds, each with what it needs.
LEMMA CommandsAre ==
    ASSUME NEW c \in SettingCommands
    PROVE  \/ /\ c.do \in {"set", "text"}
              /\ c.address \in Watched \ Table!Status /\ c.address \in 0 .. 2048
              /\ c.value \in Nat /\ c.value \in Table!Values(c.address)
              /\ c.do = "text" => Table!IsText(c.address)
           \/ c.do = "default" /\ c.block \in {-1} \cup 0 .. 127
           \/ c.do = "save"
<1>1. Table!SettingsAssumption
    BY CommandsAssumption DEF CommandsAssumption
<1>2. Watched \subseteq 0 .. 2048
    BY TableConstants
<1>3. /\ \/ /\ c \in [do : {"set", "text"}, address : Watched \ Table!Status, value : Nat]
            /\ c.value \in Table!Values(c.address)
            /\ c.do = "text" => Table!IsText(c.address)
         \/ c \in [do : {"default"}, block : {-1} \cup 0 .. 127]
         \/ c \in [do : {"save"}]
    BY <1>1 DEF Table!SettingsAssumption
<1>4. CASE /\ c \in [do : {"set", "text"}, address : Watched \ Table!Status, value : Nat]
           /\ c.value \in Table!Values(c.address)
           /\ c.do = "text" => Table!IsText(c.address)
  <2>1. c.do \in {"set", "text"} /\ c.address \in Watched \ Table!Status
      /\ c.value \in Nat
      BY <1>4
  <2>2. c.value \in Table!Values(c.address) /\ (c.do = "text" => Table!IsText(c.address))
      BY <1>4
  <2> DEFINE a == c.address
  <2>3. a \in Watched \ Table!Status
      BY <2>1
  <2> HIDE DEF a
  <2>31. a \in 0 .. 2048
      BY <1>2, <2>3
  <2>4. c.do \in {"set", "text"} /\ c.address \in Watched \ Table!Status
        /\ c.address \in 0 .. 2048
      BY <2>1, <2>31 DEF a
  <2>5. c.value \in Nat /\ c.value \in Table!Values(c.address)
        /\ (c.do = "text" => Table!IsText(c.address))
      BY <2>1, <2>2
  <2> QED  BY ONLY <2>4, <2>5
<1>5. CASE c \in [do : {"default"}, block : {-1} \cup 0 .. 127]
  <2>1. c.do = "default" /\ c.block \in {-1} \cup 0 .. 127
      BY <1>5
  <2> QED  BY <2>1
<1>6. CASE c \in [do : {"save"}]
  <2>1. c.do = "save"
      BY <1>6
  <2> QED  BY <2>1
<1> QED  BY <1>3, <1>4, <1>5, <1>6

\* One address gets a value that it may hold.
LEMMA OneStored ==
    ASSUME TableTypes, NEW a \in Watched, NEW v \in Nat, v \in Table!Values(a)
    PROVE  /\ [table EXCEPT ![a] = v] \in [Watched -> Nat]
           /\ \A b \in Watched : [table EXCEPT ![a] = v][b] \in Table!Values(b)
           /\ \A b \in Watched \ {a} : [table EXCEPT ![a] = v][b] = table[b]
BY DEF TableTypes

\* One setting is set.
LEMMA SetConfigKeeps ==
    ASSUME TableInv, NEW c \in SettingCommands, Table!SetConfig(c)
    PROVE  TableInv'
<1>1. /\ phase = "up" /\ doing = Table!NoCommand /\ commands < MaxCommands
      /\ commands' = commands + 1 /\ c.do = "set"
      /\ UNCHANGED <<profile, ipc, image, status, phase, saver, starts, marks>>
    BY DEF Table!SetConfig, Table!Begin
<1>2. /\ c.address \in Watched \ Table!Status
      /\ c.value \in Nat /\ c.value \in Table!Values(c.address)
    BY <1>1, CommandsAre
<1>3. commands' \in 0 .. MaxCommands
    BY <1>1, TableConstants DEF TableInv, RunTypes
<1>4. CASE UNCHANGED <<table, during, platform, doing>>
  <2>1. TableTypes' /\ CopyTypes' /\ FileTypes' /\ RunTypes'
      BY <1>1, <1>3, <1>4 DEF TableInv, TableTypes, CopyTypes, FileTypes, RunTypes, NodeHolds
  <2>2. Runs' /\ SavesWrite' /\ ImageKnows' /\ Tuned' /\ Reported'
      BY <1>1, <1>4 DEF TableInv, Runs, SavesWrite, ImageKnows, Tuned, Reported, NodeHolds, ToRead, ToTell,
            Table!Saving
  <2> QED  BY <2>1, <2>2 DEF TableInv
<1>5. CASE /\ Table!Store([table EXCEPT ![c.address] = c.value])
           /\ platform' = Table!Updated(Table!BlockOf(c.address), table')
           /\ doing' = c
  <2> DEFINE v == [table EXCEPT ![c.address] = c.value]
  <2>1. v \in [Watched -> Nat] /\ \A a \in Watched : v[a] \in Table!Values(a)
        /\ \A b \in Watched \ {c.address} : v[b] = table[b]
      BY <1>2, OneStored DEF TableInv
  <2> HIDE DEF v
  <2>2. Table!Store(v)
      BY <1>5 DEF v
  <2>3. FileTypes' /\ SavesWrite'
      BY <1>1, <2>1, <2>2, StoresKeep
  <2>4. table' = v
      BY <2>2 DEF Table!Store
  <2>5. TableTypes' /\ RunTypes' /\ Runs'
      BY <1>1, <1>3, <1>5, <2>1, <2>4 DEF TableInv, TableTypes, RunTypes, Runs, Table!NoCommand
  <2>6. \A a \in Table!Tuning : a \in Watched
      BY PlacesApart
  <2>7. platform' = [a \in Table!Tuning |-> IF Table!BlockOf(a) = Table!BlockOf(c.address)
                                            THEN v[a] ELSE platform[a]]
      BY <1>5, <2>4 DEF Table!Updated
  <2>8. CopyTypes' /\ Tuned'
    <3>1. \A a \in Table!Tuning : platform[a] = v[a] \/ a = c.address \/ platform[a] # table[a]
        BY <2>1, <2>6
    <3>2. image \in [Watched -> Int] /\ platform \in [Table!Tuning -> Int]
          /\ ipc \in Seq(Table!Messages)
        BY DEF TableInv, CopyTypes
    <3>3. \A a \in Table!Tuning : v[a] \in Int
        BY <2>1, <2>6
    <3>4. platform' \in [Table!Tuning -> Int]
        BY <2>7, <3>2, <3>3
    <3>5. CopyTypes'
        BY <1>1, <3>2, <3>4 DEF CopyTypes
    <3>6. ASSUME "platform" \notin marks', NEW a \in Table!Tuning
          PROVE  platform'[a] = table'[a]
      <4>1. platform[a] = table[a]
          BY <1>1, <3>6 DEF TableInv, Tuned
      <4>2. a = c.address => Table!BlockOf(a) = Table!BlockOf(c.address)
          OBVIOUS
      <4>3. platform'[a] = IF Table!BlockOf(a) = Table!BlockOf(c.address)
                           THEN v[a] ELSE platform[a]
          BY <2>7, <3>6
      <4>4. a # c.address => v[a] = table[a]
          BY <2>1, <2>6, <3>6
      <4> QED  BY <2>4, <4>1, <4>2, <4>3, <4>4
    <3> QED  BY <3>5, <3>6 DEF Tuned
  <2>9. ImageKnows'
    <3>1. c.address \in ToTell(c)
        BY <1>1 DEF ToTell
    <3>2. \A a : ToRead(a)' <=> ToRead(a)
        BY <1>1 DEF ToRead
    <3>3. \A a : a \notin ToTell(Table!NoCommand)
        BY DEF ToTell, Table!NoCommand
    <3> QED  BY <1>1, <1>5, <2>1, <2>4, <3>1, <3>2, <3>3 DEF TableInv, ImageKnows
  <2>10. Reported'
      BY <1>1, <1>2, <2>1, <2>4, PlacesApart DEF TableInv, Reported
  <2> QED  BY <2>3, <2>5, <2>8, <2>9, <2>10 DEF TableInv
<1> QED  BY <1>4, <1>5 DEF Table!SetConfig

\* A text is set.
LEMMA SetOsdKeeps ==
    ASSUME TableInv, NEW c \in SettingCommands, Table!SetOsd(c)
    PROVE  TableInv'
<1>1. /\ phase = "up" /\ doing = Table!NoCommand /\ commands < MaxCommands
      /\ commands' = commands + 1 /\ c.do = "text" /\ doing' = c
      /\ UNCHANGED <<profile, ipc, image, status, platform, phase, saver, starts, marks>>
    BY DEF Table!SetOsd, Table!Begin
<1>2. /\ c.address \in Watched \ Table!Status
      /\ c.value \in Nat /\ c.value \in Table!Values(c.address)
      /\ Table!IsText(c.address)
    BY <1>1, CommandsAre
<1>3. commands' \in 0 .. MaxCommands
    BY <1>1, TableConstants DEF TableInv, RunTypes
<1> DEFINE v == [table EXCEPT ![c.address] = c.value]
<1>4. v \in [Watched -> Nat] /\ \A a \in Watched : v[a] \in Table!Values(a)
      /\ \A b \in Watched \ {c.address} : v[b] = table[b]
    BY <1>2, OneStored DEF TableInv
<1> HIDE DEF v
<1>5. Table!Store(v)
    BY DEF v, Table!SetOsd
<1>6. FileTypes' /\ SavesWrite'
    BY <1>1, <1>4, <1>5, StoresKeep
<1>7. table' = v
    BY <1>5 DEF Table!Store
<1>8. TableTypes' /\ RunTypes' /\ Runs' /\ CopyTypes'
    BY <1>1, <1>3, <1>4, <1>7
    DEF TableInv, TableTypes, RunTypes, Runs, CopyTypes, Table!NoCommand
<1>9. Tuned' /\ Reported'
    BY <1>1, <1>2, <1>4, <1>7, PlacesApart DEF TableInv, Tuned, Reported
<1>10. ImageKnows'
  <2>1. c.address \in ToTell(c)
      BY <1>1 DEF ToTell
  <2>2. \A a : ToRead(a)' <=> ToRead(a)
      BY <1>1 DEF ToRead
  <2>3. \A a : a \notin ToTell(Table!NoCommand)
      BY DEF ToTell, Table!NoCommand
  <2> QED  BY <1>1, <1>4, <1>7, <2>1, <2>2, <2>3 DEF TableInv, ImageKnows
<1> QED  BY <1>6, <1>8, <1>9, <1>10 DEF TableInv

\* A block, or all of them, get the values of the factory.
LEMMA DefaultConfigKeeps ==
    ASSUME TableInv, NEW c \in SettingCommands, Table!DefaultConfig(c)
    PROVE  TableInv'
<1> DEFINE v == [a \in Watched |-> IF a \in Table!Resettable(c.block) THEN Factory[a] ELSE table[a]]
<1>1. /\ phase = "up" /\ doing = Table!NoCommand /\ commands < MaxCommands
      /\ commands' = commands + 1 /\ c.do = "default" /\ doing' = c
      /\ UNCHANGED <<profile, ipc, image, status, phase, saver, starts>>
      /\ platform' = IF c.block = Table!Everything THEN platform ELSE Table!Updated(c.block, table')
      /\ marks' = marks \cup (IF c.block = Table!Everything THEN {"platform"} ELSE {})
      /\ Table!Store(v)
    BY DEF Table!DefaultConfig, Table!Begin
<1>2. commands' \in 0 .. MaxCommands
    BY <1>1, TableConstants DEF TableInv, RunTypes
<1>3. v \in [Watched -> Nat] /\ \A a \in Watched : v[a] \in Table!Values(a)
    BY TableConstants, ZeroHeld DEF TableInv, TableTypes
<1>4. /\ \A a \in Watched : a \notin Table!Resettable(c.block) => v[a] = table[a]
      /\ \A a \in Table!Status : a \in Watched /\ v[a] = table[a]
    BY PlacesApart DEF Table!Resettable
<1> HIDE DEF v
<1>5. FileTypes' /\ SavesWrite'
    BY <1>1, <1>3, StoresKeep
<1>6. table' = v
    BY <1>1 DEF Table!Store
<1>7. TableTypes' /\ RunTypes' /\ Runs'
    BY <1>1, <1>2, <1>3, <1>6 DEF TableInv, TableTypes, RunTypes, Runs, Table!NoCommand
<1>8. CopyTypes' /\ Tuned'
  <2>1. CASE c.block = Table!Everything
      BY <1>1, <2>1 DEF TableInv, CopyTypes, Tuned
  <2>2. CASE c.block # Table!Everything
    <3>1. platform' = [a \in Table!Tuning |-> IF Table!BlockOf(a) = c.block
                                              THEN v[a] ELSE platform[a]]
        BY <1>1, <1>6, <2>2 DEF Table!Updated
    <3>2. \A a \in Table!Tuning : a \in Watched
                                  /\ (Table!BlockOf(a) # c.block => v[a] = table[a])
        BY <1>4, <2>2, PlacesApart DEF Table!Resettable, Table!InBlock
    <3>3. image \in [Watched -> Int] /\ platform \in [Table!Tuning -> Int]
          /\ ipc \in Seq(Table!Messages)
        BY DEF TableInv, CopyTypes
    <3>4. \A a \in Table!Tuning : v[a] \in Int
        BY <1>3, <3>2
    <3>5. platform' \in [Table!Tuning -> Int]
        BY <3>1, <3>3, <3>4
    <3>6. CopyTypes'
        BY <1>1, <3>3, <3>5 DEF CopyTypes
    <3>7. ASSUME "platform" \notin marks', NEW a \in Table!Tuning
          PROVE  platform'[a] = table'[a]
      <4>1. platform[a] = table[a]
          BY <1>1, <3>7 DEF TableInv, Tuned
      <4>2. platform'[a] = IF Table!BlockOf(a) = c.block THEN v[a] ELSE platform[a]
          BY <3>1, <3>7
      <4> QED  BY <1>6, <3>2, <3>7, <4>1, <4>2
    <3> QED  BY <3>6, <3>7 DEF Tuned
  <2> QED  BY <2>1, <2>2
<1>9. ImageKnows'
  <2>1. ToTell(c) = Table!Resettable(c.block)
      BY <1>1 DEF ToTell
  <2>2. \A a : ToRead(a)' <=> ToRead(a)
      BY <1>1 DEF ToRead
  <2>3. \A a : a \notin ToTell(Table!NoCommand)
      BY DEF ToTell, Table!NoCommand
  <2> QED  BY <1>1, <1>4, <1>6, <2>1, <2>2, <2>3 DEF TableInv, ImageKnows
<1>10. Reported'
    BY <1>1, <1>4, <1>6 DEF TableInv, Reported
<1> QED  BY <1>5, <1>7, <1>8, <1>9, <1>10 DEF TableInv

\* The sequence of a finite set has each of its elements.
LEMMA Listed ==
    ASSUME NEW S, IsFiniteSet(S)
    PROVE  /\ Table!Cardinality(S) \in Nat
           /\ Table!SetToSeq(S) \in [1 .. Table!Cardinality(S) -> S]
           /\ \A x \in S : \E i \in 1 .. Table!Cardinality(S) : Table!SetToSeq(S)[i] = x
<1> DEFINE n == Cardinality(S)
           f == CHOOSE g \in [1 .. n -> S] : \A a, b \in DOMAIN g : g[a] = g[b] => a = b
<1>1. n \in Nat /\ ExistsBijection(1 .. n, S) /\ Table!Cardinality(S) = n
    BY FS_CardinalityType, SameCounts
<1>2. Table!SetToSeq(S) = f
    BY <1>1 DEF Table!SetToSeq, Table!IsInjective
<1> HIDE DEF n
<1>3. f \in [1 .. n -> S] /\ \A a, b \in DOMAIN f : f[a] = f[b] => a = b
  <2>1. PICK g : g \in Bijection(1 .. n, S)
      BY <1>1 DEF ExistsBijection
  <2>2. g \in [1 .. n -> S] /\ \A a, b \in DOMAIN g : g[a] = g[b] => a = b
      BY <2>1 DEF Bijection, Injection, IsInjective
  <2> QED  BY <2>2
<1> HIDE DEF f
<1>4. f \in Injection(1 .. n, S)
    BY <1>3 DEF Injection, IsInjective
<1>5. Cardinality(1 .. n) = n
    BY <1>1, FS_Interval
<1>6. f \in Surjection(1 .. n, S)
    BY <1>4, <1>5, FS_Injection DEF n
<1> QED  BY <1>1, <1>2, <1>3, <1>6 DEF Surjection

\* Everything a command changes for the image process, it is told of.
Telling(c) == [i \in 1 .. Table!Cardinality(Table!Texts(c)) |->
                   [cmd |-> "usrosd", prm |-> Table!SetToSeq(Table!Texts(c))[i]]]
              \o <<Table!Told(c)>>

\* What a command tells the image process covers what it changed.
LEMMA TellsAll ==
    ASSUME NEW c \in SettingCommands, c.do \in {"set", "text", "default"}
    PROVE  /\ Telling(c) \in Seq(Table!Messages)
           /\ Table!Untold(c) = {} =>
                 \A a \in ToTell(c) :
                    \E i \in 1 .. Len(Telling(c)) : a \in Table!Asked(Telling(c)[i])
<1> DEFINE T == Table!Texts(c)
           n == Table!Cardinality(T)
           m == Telling(c)
           g == Table!SetToSeq(T)
           l == [i \in 1 .. n |-> [cmd |-> "usrosd", prm |-> g[i]]]
<1>0. m = l \o <<Table!Told(c)>>
    BY DEF Telling
<1> HIDE DEF m
<1>1. T \subseteq Watched /\ IsFiniteSet(T) /\ Watched \subseteq 0 .. 2048
  <2>1. T \in SUBSET Watched
      BY DEF Table!Texts, Table!Resettable, Table!InBlock
  <2> QED  BY <2>1, TableConstants, FS_Subset
<1>2. /\ n \in Nat /\ g \in [1 .. n -> T]
      /\ \A x \in T : \E i \in 1 .. n : g[i] = x
    BY <1>1, Listed
<1> HIDE DEF T, n, g
<1>3. /\ l \in Seq(Table!Messages) /\ Len(l) = n
      /\ \A i \in 1 .. n : l[i] = [cmd |-> "usrosd", prm |-> g[i]]
  <2>1. \A i \in 1 .. n : l[i] = [cmd |-> "usrosd", prm |-> g[i]]
      OBVIOUS
  <2>2. \A i \in 1 .. n : g[i] \in 0 .. 2048
    <3>1. \A x \in T : x \in 0 .. 2048
        BY <1>1
    <3>2. \A i \in 1 .. n : g[i] \in T
        BY <1>2
    <3> QED  BY <3>1, <3>2
  <2>3. l \in [1 .. n -> Table!Messages]
    <3>1. \A i \in 1 .. n : [cmd |-> "usrosd", prm |-> g[i]] \in Table!Messages
        BY <2>2 DEF Table!Messages
    <3> QED  BY <3>1
  <2> HIDE DEF l
  <2>4. l \in Seq(Table!Messages)
      BY <1>2, <2>3, SeqDef
  <2>5. DOMAIN l = 1 .. n /\ DOMAIN l = 1 .. Len(l) /\ Len(l) \in Nat
      BY <2>3, <2>4, LenProperties
  <2> QED  BY <1>2, <2>1, <2>4, <2>5
<1>4. Table!Told(c) \in Table!Messages
  <2>1. c.do \in {"set", "text"} => c.address \in 0 .. 2048
      BY CommandsAre
  <2> QED  BY <2>1 DEF Table!Told, Table!Messages
<1> HIDE DEF l
<1>5. /\ m \in Seq(Table!Messages) /\ Len(m) = n + 1
      /\ \A i \in 1 .. n : m[i] = l[i]
      /\ m[n + 1] = Table!Told(c)
    BY <1>0, <1>2, <1>3, <1>4, AppendProperties
<1>6. ASSUME NEW a \in T
      PROVE  \E i \in 1 .. Len(m) : a \in Table!Asked(m[i])
  <2>1. PICK i \in 1 .. n : g[i] = a
      BY <1>2
  <2>2. m[i] = [cmd |-> "usrosd", prm |-> a]
      BY <1>3, <1>5, <2>1
  <2>3. a \in Table!Asked(m[i])
      BY <2>2 DEF Table!Asked
  <2>4. i \in 1 .. Len(m)
      BY <1>2, <1>5, <2>1
  <2> QED  BY <2>3, <2>4
<1>7. ASSUME Table!Untold(c) = {}, NEW a \in ToTell(c), a \notin T
      PROVE  a \in Table!Asked(Table!Told(c))
  <2>1. CASE c.do \in {"set", "text"}
    <3>1. a = c.address
        BY <1>7, <2>1 DEF ToTell
    <3>2. Table!Told(c).prm = c.address /\ Table!Told(c).cmd \in {"single", "usrosd"}
      <4>1. CASE c.do = "set"
        <5>1. Table!Told(c) = [cmd |-> "single", prm |-> c.address]
            BY <4>1 DEF Table!Told
        <5> QED  BY <5>1
      <4>2. CASE c.do = "text"
        <5>1. Table!Told(c) = [cmd |-> "usrosd", prm |-> c.address]
            BY <4>2 DEF Table!Told
        <5> QED  BY <5>1
      <4> QED  BY <2>1, <4>1, <4>2
    <3> QED  BY <3>1, <3>2 DEF Table!Asked
  <2>2. CASE c.do = "default"
    <3>1. a \in Table!Resettable(c.block)
        BY <1>7, <2>2 DEF ToTell
    <3>2. CASE c.block = Table!Everything
        BY <3>1, <3>2, <2>2 DEF Table!Asked, Table!Told, Table!Resettable
    <3>3. CASE c.block # Table!Everything
      <4>1. c.block = 0
          BY <1>7, <2>2, <3>1, <3>3 DEF Table!Untold, T
      <4>2. Table!Told(c).cmd = "block" /\ Table!Told(c).prm = 0
          BY <2>2, <3>3 DEF Table!Told
      <4> QED  BY <3>1, <3>3, <4>1, <4>2 DEF Table!Asked, Table!Resettable
    <3> QED  BY <3>2, <3>3
  <2> QED  BY <2>1, <2>2
<1>8. n + 1 \in 1 .. Len(m)
    BY <1>2, <1>5
<1> QED  BY <1>5, <1>6, <1>7, <1>8 DEF m

\* The image process is told of a command.
LEMMA TellImageKeeps ==
    ASSUME TableInv, Table!TellImage
    PROVE  TableInv'
<1> DEFINE m == Telling(doing)
<1>1. /\ doing.do \in {"set", "text", "default"} /\ Table!Tell(m)
      /\ marks' = marks \cup (IF Table!Untold(doing) # {} THEN {"image"} ELSE {})
      /\ doing' = Table!NoCommand
      /\ UNCHANGED <<table, profile, image, status, platform, phase, saver, commands,
                     starts, during>>
    BY DEF Table!TellImage, Table!counts, Telling
<1>2. doing \in SettingCommands
    BY <1>1 DEF TableInv, RunTypes, Table!NoCommand
<1>3. /\ m \in Seq(Table!Messages)
      /\ Table!Untold(doing) = {} =>
            \A a \in ToTell(doing) : \E i \in 1 .. Len(m) : a \in Table!Asked(m[i])
    BY <1>1, <1>2, TellsAll
<1> HIDE DEF m
<1>4. /\ ipc' \in Seq(Table!Messages)
      /\ \A a : ToRead(a) => ToRead(a)'
      /\ \A i \in 1 .. Len(m) : \A a \in Table!Asked(m[i]) : ToRead(a)'
  <2>1. ipc \in Seq(Table!Messages)
      BY DEF TableInv, CopyTypes
  <2> QED  BY <1>1, <1>3, <2>1, Tells
<1>5. TableTypes' /\ CopyTypes'
    BY <1>1, <1>4 DEF TableInv, TableTypes, CopyTypes
<1>6. FileTypes' /\ RunTypes' /\ Runs'
    BY <1>1 DEF TableInv, FileTypes, RunTypes, Runs, NodeHolds, Table!NoCommand
<1>7. SavesWrite'
    BY <1>1 DEF TableInv, SavesWrite, NodeHolds, Table!Saving
<1>8. Tuned' /\ Reported'
    BY <1>1 DEF TableInv, Tuned, Reported
<1>9. ImageKnows'
  <2> SUFFICES ASSUME "image" \notin marks',
                      NEW a \in Watched \ (Table!Status \cup Table!Position)
               PROVE  image'[a] = table'[a] \/ ToRead(a)'
      BY DEF ImageKnows
  <2>1. Table!Untold(doing) = {} /\ "image" \notin marks
      BY <1>1
  <2>2. image[a] = table[a] \/ ToRead(a) \/ a \in ToTell(doing)
      BY <2>1 DEF TableInv, ImageKnows
  <2> QED  BY <1>1, <1>3, <1>4, <2>1, <2>2
<1> QED  BY <1>5, <1>6, <1>7, <1>8, <1>9 DEF TableInv

\* A save begins: alone, it vouches for its file; beside another, for nothing.
LEMMA Opens ==
    ASSUME TableInv, NEW s \in Table!Savers, saver[s] = Table!Idle, Table!Open(s),
           table' \in [Watched -> Nat], \A a \in Watched : table'[a] \in Table!Values(a),
           phase = "up", phase' = "up"
    PROVE  /\ FileTypes' /\ SavesWrite'
           /\ saver' \in [Table!Savers -> Table!Idle .. HowMany]
           /\ saver' # saver => saver' = [saver EXCEPT ![s] = 0]
           /\ marks' \subseteq {"cut", "garbled", "platform", "image", "status"}
           /\ \A x \in {"platform", "image", "status"} : x \in marks' <=> x \in marks
<1>1. /\ profile \in [file : {"short", "whole"}, nodes : [Watched -> Nodes]]
      /\ during \in [Watched -> SUBSET Nat] /\ \A a \in Watched : during[a] \in Savings(a)
      /\ saver \in [Table!Savers -> Table!Idle .. HowMany]
      /\ marks \subseteq {"cut", "garbled", "platform", "image", "status"}
    BY DEF TableInv, FileTypes, RunTypes
<1>2. HowMany \in Nat /\ Table!Idle = -1 /\ 0 \in Table!Idle .. HowMany /\ 0 # Table!Idle
    BY OrderCovers DEF HowMany, Table!Idle
<1>3. CASE profile.file = "short"
  <2>1. UNCHANGED <<profile, saver, during, marks>>
      BY <1>3 DEF Table!Open, Table!history
  <2>2. FileTypes'
      BY <2>1 DEF TableInv, FileTypes, NodeHolds
  <2>3. SavesWrite'
      BY <1>3, <2>1 DEF SavesWrite
  <2> QED  BY <1>1, <2>1, <2>2, <2>3
<1>4. CASE profile.file # "short"
  <2>1. /\ profile' = [file |-> "whole", nodes |-> [a \in Watched |-> Table!Nothing]]
        /\ saver' = [saver EXCEPT ![s] = 0]
        /\ during' = [a \in Watched |-> {table'[a]} \cup IF Table!Saving THEN during[a] ELSE {}]
        /\ marks' = (marks \ {"cut", "garbled"}) \cup (IF Table!Saving THEN {"garbled"} ELSE {})
      BY <1>4 DEF Table!Open
  <2>2. FileTypes'
    <3>1. profile' \in [file : {"short", "whole"}, nodes : [Watched -> Nodes]]
        BY <2>1 DEF Nodes
    <3>2. \A a \in Watched : profile'.nodes[a] = Table!Nothing
        BY <2>1
    <3>3. \A a \in Watched : during'[a] \in Savings(a) /\ during'[a] \in SUBSET Nat
        BY <1>1, <2>1 DEF Savings
    <3>4. during' \in [Watched -> SUBSET Nat]
        BY <2>1, <3>3
    <3> QED  BY <3>1, <3>2, <3>3, <3>4 DEF FileTypes, Savings
  <2>3. /\ saver' \in [Table!Savers -> Table!Idle .. HowMany] /\ saver'[s] = 0
        /\ \A t \in Table!Savers \ {s} : saver'[t] = saver[t]
      BY <1>1, <1>2, <2>1
  <2>4. marks' \subseteq {"cut", "garbled", "platform", "image", "status"}
        /\ \A x \in {"platform", "image", "status"} : x \in marks' <=> x \in marks
      BY <1>1, <2>1
  <2>5. SavesWrite'
    <3> SUFFICES ASSUME {"cut", "garbled"} \cap marks' = {}
                 PROVE  /\ \A p, q \in Table!Savers :
                              saver'[p] # Table!Idle /\ saver'[q] # Table!Idle => p = q
                        /\ \A a \in Watched : \E p \in Table!Savers, i \in 1 .. HowMany :
                              saver'[p] # Table!Idle /\ saver'[p] < i /\ Table!Order[i] = a
                        /\ \A a \in Watched : table'[a] \in during'[a]
        BY DEF SavesWrite
    <3>1. ~Table!Saving
        BY <2>1
    <3>2. \A t \in Table!Savers : saver[t] = Table!Idle
        BY <3>1 DEF Table!Saving
    <3>3. \A p, q \in Table!Savers : saver'[p] # Table!Idle /\ saver'[q] # Table!Idle => p = q
        BY <2>3, <3>2
    <3>4. \A a \in Watched : table'[a] \in during'[a]
        BY <2>1
    <3>5. ASSUME NEW a \in Watched
          PROVE  \E p \in Table!Savers, i \in 1 .. HowMany :
                    saver'[p] # Table!Idle /\ saver'[p] < i /\ Table!Order[i] = a
      <4>1. PICK i \in 1 .. HowMany : Table!Order[i] = a
          BY OrderCovers DEF HowMany
      <4>2. saver'[s] # Table!Idle /\ saver'[s] < i
          BY <1>2, <2>3, <4>1
      <4> QED  BY <4>1, <4>2
    <3> QED  BY <3>3, <3>4, <3>5
  <2> QED  BY <2>1, <2>2, <2>3, <2>4, <2>5
<1> QED  BY <1>3, <1>4

\* A save begins.
LEMMA SaveConfigKeeps ==
    ASSUME TableInv, NEW c \in SettingCommands, Table!SaveConfig(c)
    PROVE  TableInv'
<1>1. /\ phase = "up" /\ doing = Table!NoCommand /\ commands < MaxCommands
      /\ commands' = commands + 1 /\ c.do = "save" /\ table' = table
      /\ Table!Open("dispatcher")
      /\ doing' = IF saver' = saver THEN Table!NoCommand ELSE c
      /\ UNCHANGED <<ipc, image, status, platform, phase, starts>>
    BY DEF Table!SaveConfig, Table!Begin
<1>2. commands' \in 0 .. MaxCommands
    BY <1>1, TableConstants DEF TableInv, RunTypes
<1>3. saver["dispatcher"] = Table!Idle /\ "dispatcher" \in Table!Savers
    BY <1>1 DEF TableInv, Runs, Table!NoCommand, Table!Savers
<1>4. /\ FileTypes' /\ SavesWrite'
      /\ saver' \in [Table!Savers -> Table!Idle .. HowMany]
      /\ saver' # saver => saver' = [saver EXCEPT !["dispatcher"] = 0]
      /\ marks' \subseteq {"cut", "garbled", "platform", "image", "status"}
      /\ \A x \in {"platform", "image", "status"} : x \in marks' <=> x \in marks
    BY <1>1, <1>3, Opens DEF TableInv, TableTypes
<1>5. TableTypes' /\ CopyTypes' /\ RunTypes'
    BY <1>1, <1>2, <1>4 DEF TableInv, TableTypes, CopyTypes, RunTypes
<1>6. Runs'
    BY <1>1, <1>3, <1>4 DEF Runs
<1>7. Tuned' /\ Reported'
    BY <1>1, <1>4 DEF TableInv, Tuned, Reported
<1>8. ImageKnows'
  <2>1. \A a : ToRead(a)' <=> ToRead(a)
      BY <1>1 DEF ToRead
  <2>2. \A a : a \notin ToTell(Table!NoCommand)
      BY DEF ToTell, Table!NoCommand
  <2> QED  BY <1>1, <1>4, <2>1, <2>2 DEF TableInv, ImageKnows
<1> QED  BY <1>4, <1>5, <1>6, <1>7, <1>8 DEF TableInv

\* The position of the unit is stored, and a save of its own begins.
LEMMA StorePositionKeeps ==
    ASSUME TableInv, Table!StorePosition
    PROVE  TableInv'
<1>1. /\ phase = "up" /\ saver["prepos"] = Table!Idle /\ commands < MaxCommands
      /\ commands' = commands + 1 /\ Table!Open("prepos")
      /\ UNCHANGED <<ipc, image, status, platform, phase, doing, starts>>
    BY DEF Table!StorePosition
<1>2. commands' \in 0 .. MaxCommands
    BY <1>1, TableConstants DEF TableInv, RunTypes
<1>3. /\ table' \in [Watched -> Nat]
      /\ \A a \in Watched : a \notin Table!Position => table'[a] = table[a]
      /\ \A a \in Watched : table'[a] \in Table!Values(a)
  <2>1. table \in [Watched -> Nat] /\ \A a \in Watched : table[a] \in Table!Values(a)
      BY DEF TableInv, TableTypes
  <2>2. CASE UNCHANGED table
      BY <2>1, <2>2
  <2>3. ASSUME NEW p \in Positions,
               table' = [a \in Watched |-> IF a \in Table!Position THEN p ELSE table[a]]
        PROVE  /\ table' \in [Watched -> Nat]
               /\ \A a \in Watched : a \notin Table!Position => table'[a] = table[a]
               /\ \A a \in Watched : table'[a] \in Table!Values(a)
    <3>1. p \in Nat
        BY TableConstants
    <3>2. \A a \in Table!Position : p \in Table!Values(a)
        BY <3>1, PlacesApart DEF Table!Values
    <3> QED  BY <2>1, <2>3, <3>1, <3>2
  <2> QED  BY <2>2, <2>3 DEF Table!StorePosition
<1>4. /\ FileTypes' /\ SavesWrite'
      /\ saver' \in [Table!Savers -> Table!Idle .. HowMany]
      /\ saver' # saver => saver' = [saver EXCEPT !["prepos"] = 0]
      /\ marks' \subseteq {"cut", "garbled", "platform", "image", "status"}
      /\ \A x \in {"platform", "image", "status"} : x \in marks' <=> x \in marks
    BY <1>1, <1>3, Opens DEF Table!Savers
<1>5. TableTypes' /\ CopyTypes' /\ RunTypes'
    BY <1>1, <1>2, <1>3, <1>4 DEF TableInv, TableTypes, CopyTypes, RunTypes
<1>6. Runs'
  <2>1. saver'["dispatcher"] = saver["dispatcher"]
      BY <1>4 DEF TableInv, RunTypes, Table!Savers
  <2> QED  BY <1>1, <2>1 DEF TableInv, Runs
<1>7. Tuned' /\ Reported'
    BY <1>1, <1>3, <1>4, PlacesApart DEF TableInv, Tuned, Reported
<1>8. ImageKnows'
  <2>1. \A a : ToRead(a)' <=> ToRead(a)
      BY <1>1 DEF ToRead
  <2> QED  BY <1>1, <1>3, <1>4, <2>1 DEF TableInv, ImageKnows
<1> QED  BY <1>4, <1>5, <1>6, <1>7, <1>8 DEF TableInv

\* One more address is written, or the save is over.
LEMMA WriteKeeps ==
    ASSUME TableInv, NEW s \in Table!Savers, Table!Write(s)
    PROVE  TableInv'
<1>1. saver[s] # Table!Idle /\ UNCHANGED <<table, ipc, image, status, platform, phase, commands,
                                           starts, during, marks>>
    BY DEF Table!Write, Table!counts, Table!history
<1>2. /\ HowMany \in Nat /\ Len(Table!Order) = HowMany /\ Table!Idle = -1
      /\ \A a \in Watched : \E i \in 1 .. HowMany : Table!Order[i] = a
    BY OrderCovers DEF HowMany, Table!Idle
<1>3. /\ saver \in [Table!Savers -> Table!Idle .. HowMany] /\ saver[s] \in 0 .. HowMany
      /\ profile \in [file : {"short", "whole"}, nodes : [Watched -> Nodes]]
      /\ doing \in SettingCommands \cup {Table!NoCommand}
      /\ phase = "up"
    BY <1>1, <1>2 DEF TableInv, RunTypes, FileTypes, Runs
<1>4. TableTypes' /\ CopyTypes' /\ Tuned' /\ Reported'
    BY <1>1 DEF TableInv, TableTypes, CopyTypes, Tuned, Reported
<1>5. \A a : ToRead(a)' <=> ToRead(a)
    BY <1>1 DEF ToRead
<1>6. Table!Saving
    BY <1>1 DEF Table!Saving
<1>7. CASE Table!Done(s)
  <2>1. /\ saver[s] = HowMany
        /\ saver' = [saver EXCEPT ![s] = Table!Idle]
        /\ doing' = IF s = "dispatcher" THEN Table!NoCommand ELSE doing
        /\ profile' = profile
      BY <1>2, <1>7 DEF Table!Write, Table!Done
  <2>2. /\ saver' \in [Table!Savers -> Table!Idle .. HowMany] /\ saver'[s] = Table!Idle
        /\ \A t \in Table!Savers \ {s} : saver'[t] = saver[t]
      BY <1>2, <1>3, <2>1
  <2>3. FileTypes' /\ RunTypes'
      BY <1>1, <1>3, <2>1, <2>2 DEF TableInv, FileTypes, RunTypes, NodeHolds
  <2>4. Runs'
      BY <1>1, <1>3, <2>1, <2>2 DEF TableInv, Runs, Table!NoCommand, Table!Savers
  <2>5. ImageKnows'
    <3>1. \A a : a \in ToTell(doing) => s # "dispatcher"
        BY <1>1 DEF TableInv, Runs, ToTell
    <3> QED  BY <1>1, <1>5, <2>1, <3>1 DEF TableInv, ImageKnows
  <2>6. SavesWrite'
    <3> SUFFICES ASSUME {"cut", "garbled"} \cap marks = {}, profile.file = "whole"
                 PROVE  /\ \A t \in Table!Savers : saver'[t] = Table!Idle
                        /\ \A a \in Watched : NodeHolds(a, profile.nodes[a], during[a])
      <4>1. \A a \in Watched : NodeHolds(a, profile.nodes[a], during[a])'
                               <=> NodeHolds(a, profile.nodes[a], during[a])
          BY <1>1, <2>1 DEF NodeHolds
      <4> QED  BY <1>1, <1>3, <2>1, <4>1 DEF SavesWrite, Table!Saving
    <3>1. \A t \in Table!Savers : saver[t] # Table!Idle => t = s
        BY <1>1 DEF TableInv, SavesWrite
    <3>2. ASSUME NEW a \in Watched, ~NodeHolds(a, profile.nodes[a], during[a])
          PROVE  FALSE
      <4>1. PICK t \in Table!Savers, i \in 1 .. HowMany :
                    saver[t] # Table!Idle /\ saver[t] < i /\ Table!Order[i] = a
          BY <3>2 DEF TableInv, SavesWrite
      <4> QED  BY <1>2, <2>1, <3>1, <4>1
    <3> QED  BY <2>2, <3>1, <3>2
  <2> QED  BY <1>4, <2>3, <2>4, <2>5, <2>6 DEF TableInv
<1>8. CASE ~Table!Done(s)
  <2> DEFINE b == Table!Order[saver[s] + 1]
  <2>1. /\ saver[s] # HowMany
        /\ profile' = [profile EXCEPT !.nodes[b] = Table!Written(b, table[b])]
        /\ saver' = [saver EXCEPT ![s] = saver[s] + 1]
        /\ doing' = doing
      BY <1>2, <1>8 DEF Table!Write, Table!Done
  <2> HIDE DEF b
  <2>2. /\ saver' \in [Table!Savers -> Table!Idle .. HowMany] /\ saver'[s] = saver[s] + 1
        /\ saver'[s] # Table!Idle
        /\ \A t \in Table!Savers \ {s} : saver'[t] = saver[t]
      BY <1>2, <1>3, <2>1
  <2>3. /\ profile'.file = profile.file
        /\ profile'.nodes = [profile.nodes EXCEPT ![b] = Table!Written(b, table[b])]
        /\ profile' \in [file : {"short", "whole"}, nodes : [Watched -> Nodes]]
    <3>1. /\ profile'.file = profile.file
          /\ profile'.nodes = [profile.nodes EXCEPT ![b] = Table!Written(b, table[b])]
        BY <1>3, <2>1
    <3>2. b \in Watched => Table!Written(b, table[b]) \in Nodes
        BY DEF TableInv, TableTypes, Nodes
    <3>3. profile'.nodes \in [Watched -> Nodes]
        BY <1>3, <3>1, <3>2
    <3>4. profile' = [file |-> profile.file, nodes |-> profile'.nodes]
        BY <1>3, <2>1, <3>1
    <3> QED  BY <1>3, <3>1, <3>3, <3>4
  <2>4. \A a \in Watched : /\ a = b => profile'.nodes[a] = Table!Written(a, table[a])
                           /\ a # b => profile'.nodes[a] = profile.nodes[a]
      BY <1>3, <2>3
  <2>5. FileTypes'
    <3>1. \A a \in Watched : \/ profile'.nodes[a] = Table!Nothing
                             \/ NodeHolds(a, profile'.nodes[a], Table!Values(a))
        BY <2>4 DEF TableInv, FileTypes, TableTypes, NodeHolds
    <3>2. during' \in [Watched -> SUBSET Nat] /\ \A a \in Watched : during'[a] \in Savings(a)
        BY <1>1 DEF TableInv, FileTypes
    <3> QED  BY <2>3, <3>1, <3>2 DEF FileTypes, NodeHolds
  <2>6. RunTypes' /\ Runs'
      BY <1>1, <1>3, <2>1, <2>2 DEF TableInv, RunTypes, Runs
  <2>7. ImageKnows'
      BY <1>1, <1>5, <2>1 DEF TableInv, ImageKnows
  <2>8. SavesWrite'
    <3> SUFFICES ASSUME {"cut", "garbled"} \cap marks = {}, profile.file = "whole"
                 PROVE  /\ \A p, q \in Table!Savers :
                              saver'[p] # Table!Idle /\ saver'[q] # Table!Idle => p = q
                        /\ \A a \in Watched :
                              \/ NodeHolds(a, profile'.nodes[a], during[a])
                              \/ \E p \in Table!Savers, i \in 1 .. HowMany :
                                    saver'[p] # Table!Idle /\ saver'[p] < i /\ Table!Order[i] = a
                        /\ \A a \in Watched : table[a] \in during[a]
      <4>1. \A a \in Watched : NodeHolds(a, profile.nodes[a], during[a])'
                               <=> NodeHolds(a, profile'.nodes[a], during[a])
          BY <1>1 DEF NodeHolds
      <4> QED  BY <1>1, <1>3, <2>3, <4>1 DEF SavesWrite
    <3>1. /\ \A t \in Table!Savers : saver[t] # Table!Idle => t = s
          /\ \A a \in Watched : table[a] \in during[a]
          /\ \A a \in Watched :
                \/ NodeHolds(a, profile.nodes[a], during[a])
                \/ \E t \in Table!Savers, i \in 1 .. HowMany :
                      saver[t] # Table!Idle /\ saver[t] < i /\ Table!Order[i] = a
        BY <1>1, <1>6 DEF TableInv, SavesWrite
    <3>2. \A t \in Table!Savers : saver'[t] # Table!Idle => t = s
        BY <2>2, <3>1
    <3>3. ASSUME NEW a \in Watched, ~NodeHolds(a, profile'.nodes[a], during[a])
          PROVE  \E p \in Table!Savers, i \in 1 .. HowMany :
                    saver'[p] # Table!Idle /\ saver'[p] < i /\ Table!Order[i] = a
      <4>1. a # b
        <5>1. a = b => profile'.nodes[a] = Table!Written(a, table[a])
            BY <2>4
        <5> QED  BY <3>1, <3>3, <5>1 DEF NodeHolds
      <4>2. ~NodeHolds(a, profile.nodes[a], during[a])
          BY <2>4, <3>3, <4>1
      <4>3. PICK i \in 1 .. HowMany : saver[s] < i /\ Table!Order[i] = a
          BY <3>1, <4>2
      <4>4. i # saver[s] + 1
          BY <4>1, <4>3 DEF b
      <4>5. saver'[s] < i
          BY <1>2, <1>3, <2>2, <4>3, <4>4
      <4> QED  BY <2>2, <4>3, <4>5
    <3> QED  BY <3>1, <3>2, <3>3
  <2> QED  BY <1>4, <2>5, <2>6, <2>7, <2>8 DEF TableInv
<1> QED  BY <1>7, <1>8

\* The program starts with what its profile holds.
LEMMA Loads ==
    ASSUME TableInv, NEW n \in Nat
    PROVE  /\ Table!Loaded(n) \in [Watched -> Nat]
           /\ \A a \in Watched : Table!Loaded(n)[a] \in Table!Values(a)
           /\ n = HowMany => \A a \in Watched :
                 NodeHolds(a, profile.nodes[a], during[a]) => Table!Loaded(n)[a] \in during[a]
<1>1. \A a \in Watched : /\ \/ profile.nodes[a] = Table!Nothing
                            \/ NodeHolds(a, profile.nodes[a], Table!Values(a))
                         /\ during[a] \subseteq Table!Values(a)
    BY DEF TableInv, FileTypes, Savings
<1>2. Table!Loaded(n) = [a \in Watched |-> IF a \notin {Table!Order[i] : i \in 1 .. n} THEN 0
                                           ELSE Table!Read(a, profile.nodes[a])]
    BY DEF Table!Loaded
<1>3. ASSUME NEW a \in Watched
      PROVE  Table!Read(a, profile.nodes[a]) \in Table!Values(a)
  <2>1. CASE profile.nodes[a] = Table!Nothing
      BY <2>1, ZeroHeld DEF Table!Read
  <2>2. CASE NodeHolds(a, profile.nodes[a], Table!Values(a))
      BY <2>2, ReadsWritten DEF NodeHolds
  <2> QED  BY <1>1, <2>1, <2>2
<1>4. \A a \in Watched : Table!Loaded(n)[a] \in Table!Values(a)
    BY <1>2, <1>3, ZeroHeld
<1>5. Table!Loaded(n) \in [Watched -> Nat]
  <2>1. \A a \in Watched : Table!Loaded(n)[a] \in Nat
      BY <1>4, ZeroHeld
  <2> QED  BY <1>2, <2>1
<1>6. ASSUME n = HowMany, NEW a \in Watched, NodeHolds(a, profile.nodes[a], during[a])
      PROVE  Table!Loaded(n)[a] \in during[a]
  <2>1. a \in {Table!Order[i] : i \in 1 .. n}
      BY <1>6, OrderCovers DEF HowMany
  <2>2. PICK v \in during[a] : profile.nodes[a] = Table!Written(a, v)
      BY <1>6 DEF NodeHolds
  <2>3. Table!Read(a, profile.nodes[a]) = v
      BY <1>1, <2>2, ReadsWritten
  <2> QED  BY <1>2, <2>1, <2>2, <2>3
<1> QED  BY <1>4, <1>5, <1>6

\* The table is read from the file.
LEMMA StartKeeps ==
    ASSUME TableInv, Table!Start
    PROVE  TableInv'
<1>1. /\ phase = "down" /\ starts < MaxStarts /\ starts' = starts + 1 /\ phase' = "loaded"
      /\ UNCHANGED <<profile, image, status, platform, doing, saver, commands, during>>
    BY DEF Table!Start
<1>2. starts' \in 0 .. MaxStarts
    BY <1>1, TableConstants DEF TableInv, RunTypes
<1>3. doing = Table!NoCommand /\ ~Table!Saving
    BY <1>1 DEF TableInv, Runs, Table!Saving
<1>4. /\ FileTypes' /\ Runs' /\ Tuned'
      /\ ~Table!Saving'
      /\ \A a \in Watched : NodeHolds(a, profile.nodes[a], during[a])'
                            <=> NodeHolds(a, profile.nodes[a], during[a])
    BY <1>1, <1>3 DEF TableInv, FileTypes, Runs, Tuned, NodeHolds, Table!Saving
<1>5. CASE profile.file = "short"
  <2>1. UNCHANGED <<table, ipc, marks>>
      BY <1>5 DEF Table!Start
  <2>2. TableTypes' /\ CopyTypes' /\ RunTypes'
      BY <1>1, <1>2, <2>1 DEF TableInv, TableTypes, CopyTypes, RunTypes
  <2>3. SavesWrite' /\ Reported'
      BY <1>1, <1>5, <2>1 DEF TableInv, SavesWrite, Reported
  <2>4. ImageKnows'
    <3>1. \A a : ToRead(a)' <=> ToRead(a)
        BY <2>1 DEF ToRead
    <3> QED  BY <1>1, <2>1, <3>1 DEF TableInv, ImageKnows
  <2> QED  BY <1>4, <2>2, <2>3, <2>4 DEF TableInv
<1>6. CASE profile.file # "short"
  <2> DEFINE m == <<[cmd |-> "config", prm |-> 0]>>
  <2>1. Table!Tell(m) /\ marks' = (marks \ {"image"}) \cup {"status"}
      BY <1>6 DEF Table!Start
  <2>2. PICK n \in Table!Readable : table' = Table!Loaded(n)
      BY <1>6 DEF Table!Start
  <2>3. HowMany \in Nat /\ n \in Nat /\ ("garbled" \notin marks => n = HowMany)
      BY OrderCovers DEF Table!Readable, HowMany
  <2>4. /\ table' \in [Watched -> Nat] /\ \A a \in Watched : table'[a] \in Table!Values(a)
        /\ n = HowMany => \A a \in Watched :
              NodeHolds(a, profile.nodes[a], during[a]) => table'[a] \in during[a]
      BY <2>2, <2>3, Loads
  <2>5. /\ m \in Seq(Table!Messages) /\ Len(m) = 1
        /\ Table!Asked(m[1]) = Watched
      BY DEF Table!Messages, Table!Asked
  <2> HIDE DEF m
  <2>6. /\ ipc' \in Seq(Table!Messages)
        /\ \A a \in Watched : ToRead(a)'
    <3>1. ipc \in Seq(Table!Messages)
        BY DEF TableInv, CopyTypes
    <3>2. ipc' \in Seq(Table!Messages)
          /\ \A i \in 1 .. Len(m) : \A a \in Table!Asked(m[i]) : ToRead(a)'
        BY <2>1, <2>5, <3>1, Tells
    <3>3. 1 \in 1 .. Len(m)
        BY <2>5
    <3> QED  BY <2>5, <3>2, <3>3
  <2>7. TableTypes' /\ CopyTypes' /\ RunTypes'
      BY <1>1, <1>2, <2>1, <2>4, <2>6 DEF TableInv, TableTypes, CopyTypes, RunTypes
  <2>8. ImageKnows' /\ Reported'
      BY <2>1, <2>6 DEF ImageKnows, Reported
  <2>9. SavesWrite'
    <3> SUFFICES ASSUME {"cut", "garbled"} \cap marks' = {}, profile.file = "whole"
                 PROVE  \A a \in Watched : /\ NodeHolds(a, profile.nodes[a], during[a])
                                           /\ table'[a] \in during[a]
        BY <1>1, <1>3, <1>4 DEF SavesWrite, Table!Saving
    <3>1. {"cut", "garbled"} \cap marks = {} /\ n = HowMany
        BY <2>1, <2>3
    <3>2. ASSUME NEW a \in Watched
          PROVE  NodeHolds(a, profile.nodes[a], during[a])
        BY <1>3, <3>1 DEF TableInv, SavesWrite, Table!Saving
    <3> QED  BY <2>4, <3>1, <3>2
  <2> QED  BY <1>4, <2>7, <2>8, <2>9 DEF TableInv
<1> QED  BY <1>5, <1>6

\* The platform takes its settings from the table.
LEMMA StateInitKeeps ==
    ASSUME TableInv, Table!StateInit
    PROVE  TableInv'
<1>1. /\ phase = "loaded" /\ phase' = "up" /\ platform' = [a \in Table!Tuning |-> table[a]]
      /\ marks' = marks \ {"platform"}
      /\ UNCHANGED <<table, profile, ipc, image, status, doing, saver, commands, starts, during>>
    BY DEF Table!StateInit, Table!counts
<1>2. \A a \in Table!Tuning : a \in Watched
    BY PlacesApart
<1>3. platform' \in [Table!Tuning -> Int]
    BY <1>1, <1>2 DEF TableInv, TableTypes
<1>4. TableTypes' /\ CopyTypes' /\ FileTypes' /\ RunTypes' /\ Runs'
    BY <1>1, <1>3 DEF TableInv, TableTypes, CopyTypes, FileTypes, RunTypes, Runs, NodeHolds
<1>5. Tuned' /\ Reported'
    BY <1>1 DEF TableInv, Tuned, Reported
<1>6. ImageKnows'
  <2>1. \A a : ToRead(a)' <=> ToRead(a)
      BY <1>1 DEF ToRead
  <2> QED  BY <1>1, <2>1 DEF TableInv, ImageKnows
<1>7. SavesWrite'
    BY <1>1 DEF TableInv, SavesWrite, NodeHolds, Table!Saving
<1> QED  BY <1>4, <1>5, <1>6, <1>7 DEF TableInv

\* The program ends, in the middle of a save perhaps.
LEMMA TableCrashKeeps ==
    ASSUME TableInv, Table!Crash
    PROVE  TableInv'
<1>1. /\ phase = "up" /\ phase' = "down" /\ doing' = Table!NoCommand
      /\ saver' = [s \in Table!Savers |-> Table!Idle]
      /\ marks' = marks \cup (IF Table!Saving THEN {"cut"} ELSE {})
                        \cup (IF doing.do \in {"none", "save"} THEN {} ELSE {"image"})
      /\ UNCHANGED <<table, ipc, image, status, platform, commands, starts, during>>
    BY DEF Table!Crash, Table!counts
<1>2. profile' = profile \/ (Table!Saving /\ profile' = [profile EXCEPT !.file = "short"])
    BY DEF Table!Crash
<1>3. profile \in [file : {"short", "whole"}, nodes : [Watched -> Nodes]]
    BY DEF TableInv, FileTypes
<1>4. profile'.nodes = profile.nodes
      /\ profile' \in [file : {"short", "whole"}, nodes : [Watched -> Nodes]]
    BY <1>2, <1>3
<1>5. TableTypes' /\ CopyTypes' /\ FileTypes'
    BY <1>1, <1>4 DEF TableInv, TableTypes, CopyTypes, FileTypes, NodeHolds
<1>6. RunTypes' /\ Runs'
  <2>1. HowMany \in Nat /\ Table!Idle = -1 /\ Table!Idle \in Table!Idle .. HowMany
      BY OrderCovers DEF HowMany, Table!Idle
  <2>2. saver' \in [Table!Savers -> Table!Idle .. HowMany]
      BY <1>1, <2>1
  <2>3. marks' \subseteq {"cut", "garbled", "platform", "image", "status"}
      BY <1>1 DEF TableInv, RunTypes
  <2> QED  BY <1>1, <2>2, <2>3 DEF TableInv, RunTypes, Runs, Table!Savers
<1>7. Tuned' /\ Reported'
    BY <1>1 DEF TableInv, Tuned, Reported
<1>8. ImageKnows'
  <2>1. \A a : ToRead(a)' <=> ToRead(a)
      BY <1>1 DEF ToRead
  <2>2. "image" \notin marks' => "image" \notin marks /\ \A a : a \notin ToTell(doing)
      BY <1>1 DEF ToTell
  <2> QED  BY <1>1, <2>1, <2>2 DEF TableInv, ImageKnows
<1>9. SavesWrite'
  <2> SUFFICES ASSUME {"cut", "garbled"} \cap marks' = {}, profile'.file = "whole"
               PROVE  \A a \in Watched : NodeHolds(a, profile.nodes[a], during[a])
    <3>1. \A s \in Table!Savers : saver'[s] = Table!Idle
        BY <1>1
    <3>2. ~Table!Saving'
        BY <3>1 DEF Table!Saving
    <3>3. \A a \in Watched : NodeHolds(a, profile.nodes[a], during[a])'
                            <=> NodeHolds(a, profile.nodes[a], during[a])
        BY <1>1, <1>4 DEF NodeHolds
    <3> QED  BY <1>1, <3>1, <3>2, <3>3 DEF SavesWrite
  <2>1. ~Table!Saving /\ {"cut", "garbled"} \cap marks = {} /\ profile.file = "whole"
      BY <1>1, <1>2
  <2> QED  BY <2>1 DEF TableInv, SavesWrite, Table!Saving
<1> QED  BY <1>5, <1>6, <1>7, <1>8, <1>9 DEF TableInv

\* The image process reads what it was told of.
LEMMA ImageReadsKeeps ==
    ASSUME TableInv, Table!ImageReads
    PROVE  TableInv'
<1>1. /\ ipc # <<>> /\ ipc' = Tail(ipc)
      /\ image' = [a \in Watched |-> IF a \in Table!Asked(Head(ipc)) THEN table[a] ELSE image[a]]
      /\ UNCHANGED <<table, profile, status, platform, phase, doing, saver, commands, starts,
                     during, marks>>
    BY DEF Table!ImageReads, Table!running, Table!counts, Table!history
<1>2. /\ ipc' \in Seq(Table!Messages) /\ Len(ipc) \in Nat \ {0} /\ Len(ipc') = Len(ipc) - 1
      /\ DOMAIN ipc = 1 .. Len(ipc) /\ DOMAIN ipc' = 1 .. Len(ipc')
      /\ Head(ipc) = ipc[1] /\ \A i \in 1 .. Len(ipc') : ipc'[i] = ipc[i + 1]
  <2>1. ipc \in Seq(Table!Messages)
      BY DEF TableInv, CopyTypes
  <2>2. ipc' \in Seq(Table!Messages) /\ Len(ipc') = Len(ipc) - 1
        /\ \A i \in 1 .. Len(ipc') : ipc'[i] = ipc[i + 1]
      BY <1>1, <2>1, HeadTailProperties
  <2>3. Head(ipc) = ipc[1]
      BY <1>1, <2>1, HeadTailProperties
  <2> QED  BY <1>1, <2>1, <2>2, <2>3, LenProperties, EmptySeq
<1>3. TableTypes' /\ CopyTypes'
  <2>1. image' \in [Watched -> Int]
      BY <1>1 DEF TableInv, TableTypes, CopyTypes
  <2> QED  BY <1>1, <1>2, <2>1 DEF TableInv, TableTypes, CopyTypes
<1>4. FileTypes' /\ RunTypes' /\ Runs'
    BY <1>1 DEF TableInv, FileTypes, RunTypes, Runs, NodeHolds
<1>5. SavesWrite'
    BY <1>1 DEF TableInv, SavesWrite, NodeHolds, Table!Saving
<1>6. Tuned' /\ Reported'
    BY <1>1 DEF TableInv, Tuned, Reported
<1>7. ImageKnows'
  <2> SUFFICES ASSUME "image" \notin marks,
                      NEW a \in Watched \ (Table!Status \cup Table!Position)
               PROVE  image'[a] = table[a] \/ ToRead(a)' \/ a \in ToTell(doing)
      BY <1>1 DEF ImageKnows
  <2>1. image[a] = table[a] \/ ToRead(a) \/ a \in ToTell(doing)
      BY DEF TableInv, ImageKnows
  <2>2. CASE a \in Table!Asked(Head(ipc))
      BY <1>1, <2>2
  <2>3. CASE a \notin Table!Asked(Head(ipc)) /\ ToRead(a)
    <3>1. PICK i \in 1 .. Len(ipc) : a \in Table!Asked(ipc[i])
        BY <1>2, <2>3 DEF ToRead
    <3>2. i # 1
        BY <1>2, <2>3, <3>1
    <3>3. i - 1 \in 1 .. Len(ipc') /\ ipc'[i - 1] = ipc[i]
        BY <1>2, <3>2
    <3> QED  BY <1>2, <3>1, <3>3 DEF ToRead
  <2>4. CASE a \notin Table!Asked(Head(ipc)) /\ image[a] = table[a]
      BY <1>1, <2>4
  <2> QED  BY <2>1, <2>2, <2>3, <2>4
<1> QED  BY <1>3, <1>4, <1>5, <1>6, <1>7 DEF TableInv

\* The image process reports its status.
LEMMA ImageStatusKeeps ==
    ASSUME TableInv, Table!ImageStatus
    PROVE  TableInv'
<1> DEFINE v == [a \in Watched |-> IF a \in Table!Status THEN status' ELSE table[a]]
<1>1. /\ status' = 1 - status /\ Table!Store(v) /\ marks' = marks \ {"status"}
      /\ UNCHANGED <<profile, ipc, image, platform, phase, doing, saver, commands, starts>>
    BY DEF Table!ImageStatus, Table!running, Table!counts
<1>2. status' \in 0 .. 1
    BY <1>1 DEF TableInv, TableTypes
<1>3. /\ v \in [Watched -> Nat]
      /\ \A a \in Watched : v[a] \in Table!Values(a)
      /\ \A a \in Watched \ Table!Status : v[a] = table[a]
      /\ \A a \in Table!Status : v[a] = status'
  <2>1. \A a \in Table!Status : a \in Watched /\ status' \in Table!Values(a)
      BY <1>2, PlacesApart DEF Table!Values
  <2> QED  BY <1>2, <2>1 DEF TableInv, TableTypes
<1> HIDE DEF v
<1>4. table' = v
    BY <1>1 DEF Table!Store
<1>5. FileTypes' /\ SavesWrite'
    BY <1>1, <1>3, StoresKeep
<1>6. TableTypes' /\ CopyTypes' /\ RunTypes' /\ Runs'
    BY <1>1, <1>2, <1>3, <1>4 DEF TableInv, TableTypes, CopyTypes, RunTypes, Runs
<1>7. Tuned' /\ Reported'
    BY <1>1, <1>3, <1>4, PlacesApart DEF TableInv, Tuned, Reported
<1>8. ImageKnows'
  <2>1. \A a : ToRead(a)' <=> ToRead(a)
      BY <1>1 DEF ToRead
  <2> QED  BY <1>1, <1>3, <1>4, <2>1 DEF TableInv, ImageKnows
<1> QED  BY <1>5, <1>6, <1>7, <1>8 DEF TableInv

\* Nothing changes.
LEMMA TableStays ==
    ASSUME TableInv, UNCHANGED Table!vars
    PROVE  TableInv'
<1>1. UNCHANGED <<table, profile, ipc, image, status, platform, phase, doing, saver, commands,
                  starts, during, marks>>
    BY DEF Table!vars, Table!running, Table!counts, Table!history
<1>2. TableTypes' /\ CopyTypes' /\ FileTypes' /\ RunTypes' /\ Runs'
    BY <1>1 DEF TableInv, TableTypes, CopyTypes, FileTypes, RunTypes, Runs, NodeHolds
<1>3. SavesWrite' /\ Tuned' /\ Reported'
    BY <1>1 DEF TableInv, SavesWrite, Tuned, Reported, NodeHolds, Table!Saving
<1>4. ImageKnows'
    BY <1>1 DEF TableInv, ImageKnows, ToRead
<1> QED  BY <1>2, <1>3, <1>4 DEF TableInv

\* Every step keeps the invariant.
LEMMA TableKeeps ==
    ASSUME TableInv, [Table!Next]_Table!vars
    PROVE  TableInv'
<1>1. CASE Table!Start \/ Table!StateInit \/ Table!Crash
    BY <1>1, StartKeeps, StateInitKeeps, TableCrashKeeps
<1>2. ASSUME NEW c \in SettingCommands,
             Table!SetConfig(c) \/ Table!SetOsd(c) \/ Table!DefaultConfig(c) \/ Table!SaveConfig(c)
      PROVE  TableInv'
    BY <1>2, SetConfigKeeps, SetOsdKeeps, DefaultConfigKeeps, SaveConfigKeeps
<1>3. CASE Table!TellImage \/ Table!StorePosition
    BY <1>3, TellImageKeeps, StorePositionKeeps
<1>4. ASSUME NEW s \in Table!Savers, Table!Write(s)
      PROVE  TableInv'
    BY <1>4, WriteKeeps
<1>5. CASE Table!ImageReads \/ Table!ImageStatus
    BY <1>5, ImageReadsKeeps, ImageStatusKeeps
<1>6. CASE UNCHANGED Table!vars
    BY <1>6, TableStays
<1> QED  BY <1>1, <1>2, <1>3, <1>4, <1>5, <1>6 DEF Table!Next

(***************************************************************************)
(* The parts side by side.                                                 *)
(***************************************************************************)
FramesPart   == part = "frames" => FramesInv
LinePart     == part = "803" => LineInv
ModePart     == part = "mode" => ModeInv
StickPart    == part = "joystick" => StickInv
RequestsPart == part = "requests" => RInv
SettingsPart == part = "settings" => TableInv

\* The frames of the links among the parts.
LEMMA FramesPartStarts == InitPart => FramesPart
BY FramesStart DEF InitPart, FramesPart

\* Each step is a step of theirs, or leaves them alone.
LEMMA FramesPartKeeps == FramesPart /\ [NextOfPart]_allVars => FramesPart'
<1> SUFFICES ASSUME FramesPart, [NextOfPart]_allVars
             PROVE  FramesPart'
    OBVIOUS
<1>1. UNCHANGED part
    BY DEF NextOfPart, allVars
<1>2. part = "frames" => [Frames!Next]_(Frames!vars)
    BY DEF NextOfPart, allVars,
           Frames!vars, bytesVars, linksVars, doneVars
<1> QED  BY <1>1, <1>2, FramesKeep DEF FramesPart

\* The serial line among the parts.
LEMMA LinePartStarts == InitPart => LinePart
BY LineStart DEF InitPart, LinePart

\* Each step is a step of theirs, or leaves them alone.
LEMMA LinePartKeeps == LinePart /\ [NextOfPart]_allVars => LinePart'
<1> SUFFICES ASSUME LinePart, [NextOfPart]_allVars
             PROVE  LinePart'
    OBVIOUS
<1>1. UNCHANGED part
    BY DEF NextOfPart, allVars
<1>2. part = "803" => [Line803!Next]_(Line803!vars)
    BY DEF NextOfPart, allVars,
           Line803!vars, Line803!input, bytesVars, lineVars, runVars
<1> QED  BY <1>1, <1>2, LineKeeps DEF LinePart

\* The modes among the parts.
LEMMA ModePartStarts == InitPart => ModePart
BY ModeStart DEF InitPart, ModePart

\* Each step is a step of theirs, or leaves them alone.
LEMMA ModePartKeeps == ModePart /\ [NextOfPart]_allVars => ModePart'
<1> SUFFICES ASSUME ModePart, [NextOfPart]_allVars
             PROVE  ModePart'
    OBVIOUS
<1>1. UNCHANGED part
    BY DEF NextOfPart, allVars
<1>2. part = "mode" => [Mode!Next]_(Mode!vars)
    BY DEF NextOfPart, allVars,
           Mode!vars, modeVars, messagesVars, handlingVars
<1> QED  BY <1>1, <1>2, ModeKeeps DEF ModePart

\* The joystick among the parts.
LEMMA StickPartStarts == InitPart => StickPart
BY StickStart DEF InitPart, StickPart

\* Each step is a step of theirs, or leaves them alone.
LEMMA StickPartKeeps == StickPart /\ [NextOfPart]_allVars => StickPart'
<1> SUFFICES ASSUME StickPart, [NextOfPart]_allVars
             PROVE  StickPart'
    OBVIOUS
<1>1. UNCHANGED part
    BY DEF NextOfPart, allVars
<1>2. part = "joystick" => [Stick!Next]_(Stick!vars)
    BY DEF NextOfPart, allVars,
           Stick!vars, Stick!static, Stick!fields, stickVars, messagesVars
<1> QED  BY <1>1, <1>2, StickKeeps DEF StickPart

\* The settings among the parts.
LEMMA SettingsPartStarts == InitPart => SettingsPart
BY TableStart DEF InitPart, SettingsPart

\* Each step is a step of theirs, or leaves them alone.
LEMMA SettingsPartKeeps == SettingsPart /\ [NextOfPart]_allVars => SettingsPart'
<1> SUFFICES ASSUME SettingsPart, [NextOfPart]_allVars
             PROVE  SettingsPart'
    OBVIOUS
<1>1. UNCHANGED part
    BY DEF NextOfPart, allVars
<1>2. part = "settings" => [Table!Next]_(Table!vars)
    BY DEF NextOfPart, allVars,
           Table!vars, Table!running, Table!counts, Table!history, tableVars, runVars, doneVars
<1> QED  BY <1>1, <1>2, TableKeeps DEF SettingsPart

\* The requests among the parts.
LEMMA RequestsPartStarts == InitPart => RequestsPart
BY CommandsAssumption, InvHolds DEF InitPart, RequestsPart, CommandsAssumption

\* Each step is a step of theirs, or leaves them alone.
LEMMA RequestsPartKeeps == RequestsPart /\ [NextOfPart]_allVars => RequestsPart'
<1> SUFFICES ASSUME RequestsPart, [NextOfPart]_allVars
             PROVE  RequestsPart'
    OBVIOUS
<1>1. UNCHANGED part
    BY DEF NextOfPart, allVars
<1>2. part = "requests" => [Next]_vars
    BY DEF NextOfPart, allVars, askVars, messagesVars, handlingVars, vars, params, hist
<1> QED  BY <1>1, <1>2, CommandsAssumption, InvKept DEF RequestsPart, CommandsAssumption

\* The commands of a link are its good frames, in their order and each once, with any
\* noise between them, as long as the bytes of no other link come into the middle of
\* one; and between frames the parser hunts for a head (eventParsing.cpp), for any
\* contents and any number of links.
THEOREM FramesGiveCommands == SpecOfParts => []CommandsAreFrames
<1>1. FramesPart => CommandsAreFrames
    BY FramesShow DEF FramesPart, CommandsAreFrames
<1> QED  BY <1>1, FramesPartStarts, FramesPartKeeps, PTL DEF SpecOfParts

\* The image process hears what the good frames of the serial line say, after the time
\* of tracking that it had been told last, which outlives the program in its file; and
\* an error can be read back from its frame (803uart.cpp), for any frames, noise,
\* errors and number of starts.
THEOREM LineHeard == SpecOfParts => []Link803
<1>1. LinePart => Link803
    BY LineShows DEF LinePart, Link803
<1> QED  BY <1>1, LinePartStarts, LinePartKeeps, PTL DEF SpecOfParts

\* When no message is left, the mode is the one that the fields ask for, and the work
\* mode that was reported is the one that is on (EventManager.cpp), for any presses on
\* any links and joysticks and a queue of any length.
THEOREM ModeFollows == SpecOfParts => []FollowsInput
<1>1. ModePart => FollowsInput
    BY ModeShows DEF ModePart, FollowsInput
<1> QED  BY <1>1, ModePartStarts, ModePartKeeps, PTL DEF SpecOfParts

\* With all released and no message left, no zoom, search, iris or focus runs on that
\* the joystick began, unless something meddled between press and release
\* (eventParsing.cpp), for any number of reports.
THEOREM ReleasedIsOff == SpecOfParts => []ReleasedMeansOff
<1>1. StickPart => ReleasedMeansOff
    BY StickShows DEF StickPart, ReleasedMeansOff
<1> QED  BY <1>1, StickPartStarts, StickPartKeeps, PTL DEF SpecOfParts

\* An answer goes to the link that asked, unless a command of another link was under
\* way at the same time (EventManager.cpp).
THEOREM AskerHasAnswer == SpecOfParts => []AnswersReachAsker
<1>1. RequestsPart => AnswersReachAsker
    BY RShows, CommandsAssumption DEF RequestsPart, AnswersReachAsker, CommandsAssumption
<1> QED  BY <1>1, RequestsPartStarts, RequestsPartKeeps, PTL DEF SpecOfParts

\* No setting stays in its vector without a handler to come for it (EventManager.cpp).
THEOREM HandlerHasSetting == SpecOfParts => []SettingsHandled
<1>1. RequestsPart => SettingsHandled
    BY RShows, CommandsAssumption DEF RequestsPart, SettingsHandled, CommandsAssumption
<1> QED  BY <1>1, RequestsPartStarts, RequestsPartKeeps, PTL DEF SpecOfParts

\* After a restart each setting is one that it had while it was saved, unless two
\* savers wrote at once or the end cut a save (SaveConfig, ReadConfigFile), for any
\* addresses and values, and any number of saves and starts.
THEOREM SavedReturns == SpecOfParts => []SettingsReturn
<1>1. SettingsPart => SettingsReturn
    BY TableShows DEF SettingsPart, SettingsReturn
<1> QED  BY <1>1, SettingsPartStarts, SettingsPartKeeps, PTL DEF SpecOfParts

\* The image process and the platform have the settings of the table as soon as nothing
\* is to be told any more, and the table has the status of the image process (SetConfig,
\* updateparams, ipcProc.cpp), for any addresses and values.
THEOREM UsersHaveSettings == SpecOfParts => []SettingsReachUsers
<1>1. SettingsPart => SettingsReachUsers
    BY TableShows DEF SettingsPart, SettingsReachUsers
<1> QED  BY <1>1, SettingsPartStarts, SettingsPartKeeps, PTL DEF SpecOfParts

(***************************************************************************)
(* All parts.                                                              *)
(***************************************************************************)
PartNames == {"frames", "803", "mode", "joystick", "requests", "settings"}

PartsInv == /\ part \in PartNames
            /\ FramesPart /\ LinePart /\ ModePart /\ StickPart /\ RequestsPart /\ SettingsPart

\* Each part shows its types, and the others are not looked at.
LEMMA PartsShow == PartsInv => TypesOK
<1> SUFFICES ASSUME PartsInv
             PROVE  TypesOK
    OBVIOUS
<1>1. part = "frames" => Frames!TypeOK
    BY FramesShow DEF PartsInv, FramesPart
<1>2. part = "803" => Line803!TypeOK
    BY LineShows DEF PartsInv, LinePart
<1>3. part = "mode" => Mode!TypeOK
    BY ModeShows DEF PartsInv, ModePart
<1>4. part = "joystick" => Stick!TypeOK
    BY StickShows DEF PartsInv, StickPart
<1>5. part = "requests" => TypeOK
    BY RShows, CommandsAssumption DEF PartsInv, RequestsPart, CommandsAssumption
<1>6. part = "settings" => Table!TypeOK
    BY TableShows DEF PartsInv, SettingsPart
<1>7. part \in PartNames
    BY DEF PartsInv
<1> QED  BY <1>1, <1>2, <1>3, <1>4, <1>5, <1>6, <1>7 DEF PartNames, TypesOK

\* Every variable of every part has its type: bytes stay bytes, the buffers of the
\* parsers agree with what they hunt for, places in memory hold what fits them and
\* places in the code are the handlers' (eventParsing.cpp, 803uart.cpp,
\* EventManager.cpp, configtable.cpp), whatever comes in.
THEOREM PartsTyped == SpecOfParts => []TypesOK
<1>1. InitPart => PartsInv
  <2> SUFFICES ASSUME InitPart
               PROVE  PartsInv
      OBVIOUS
  <2>1. part \in PartNames
      BY DEF InitPart, PartNames
  <2> QED  BY <2>1, FramesPartStarts, LinePartStarts, ModePartStarts, StickPartStarts,
              RequestsPartStarts, SettingsPartStarts DEF PartsInv
<1>2. PartsInv /\ [NextOfPart]_allVars => PartsInv'
  <2> SUFFICES ASSUME PartsInv, [NextOfPart]_allVars
               PROVE  PartsInv'
      OBVIOUS
  <2>1. part' \in PartNames
      BY DEF PartsInv, NextOfPart, allVars
  <2> QED  BY <2>1, FramesPartKeeps, LinePartKeeps, ModePartKeeps, StickPartKeeps,
              RequestsPartKeeps, SettingsPartKeeps DEF PartsInv
<1> QED  BY <1>1, <1>2, PartsShow, PTL DEF SpecOfParts
=============================================================================
