--------------------------- MODULE RequestsProofs ---------------------------
(***************************************************************************)
(* Theorems about Requests for any number of links, commands, places in    *)
(* the queue and commands in a behaviour.                                  *)
(***************************************************************************)
EXTENDS Requests, TLAPS

RxPlaces   == {"idle", "store", "push", "send"}
DispPlaces == {"idle", "size", "permit", "handle", "front", "erase", "push", "send"}
WorkPlaces == {"idle", "guard", "enter", "run", "answer", "done"}
AnyId      == Ids \cup {NoId}

Types ==
    /\ comtype \in Links
    /\ field \in [Kinds -> AnyId]
    /\ vector \in [Configs -> Seq(Ids)]
    /\ queue \in Seq(Kinds) /\ Len(queue) <= QueSize
    /\ rx \in [Links -> [at : RxPlaces, kind : Kinds, id : AnyId]]
    /\ dispatcher \in [at : DispPlaces, kind : Kinds, id : AnyId]
    /\ permit \in 0 .. 1
    /\ worker \in [Ids -> [at : WorkPlaces, kind : Kinds, id : AnyId]]
    /\ exist \in [Slow -> BOOLEAN]
    /\ handled \subseteq Ids /\ undefined \in BOOLEAN

HistoryTypes ==
    /\ asked \in Seq([kind : Kinds, link : Links]) /\ Len(asked) <= MaxAsked
    /\ closed \in Nat /\ closed <= Len(asked)
    /\ crossed \subseteq Ids
    /\ answers \subseteq (1 .. Len(asked)) \X Links

\* Only settings are pushed, by receivers, by the loop over a vector and by
\* MSG_Com_TrkOutput; only slow commands have threads.
Places ==
    /\ \A l \in Links : rx[l].at = "push" => rx[l].kind \in Configs
    /\ dispatcher.at \in {"size", "permit", "handle", "front", "erase"}
          => dispatcher.kind \in Configs
    /\ dispatcher.at \in {"push", "send"} => dispatcher.kind = "SetCfg"
    /\ \A i \in Ids : worker[i].at \notin {"idle", "done"} => worker[i].kind \in Slow

\* Commands that have come since all was done with last.
Current == closed + 1 .. Len(asked)

\* Whatever is still to be handled, wherever its number is kept, is one of them.
Recent ==
    /\ \A l \in Links :
          /\ rx[l].at # "idle" => rx[l].id \in Current
          /\ rx[l].at = "send" /\ rx[l].kind \notin Configs => field[rx[l].kind] \in Current
    /\ \A k \in Configs : vector[k] \in Seq(Current)
    /\ \A i \in DOMAIN queue : queue[i] \notin Configs => field[queue[i]] \in Current
    /\ dispatcher.at \in {"permit", "handle", "push"} => dispatcher.id \in Current
    /\ \A i \in Ids :
          /\ worker[i].at \in {"guard", "enter", "run"} => field[worker[i].kind] \in Current
          /\ worker[i].at = "answer" => worker[i].id \in Current

\* They have one link, the one ComParams has, or are crossed.
SameLink == \A i \in Current : i \in crossed \/ asked[i].link = comtype

Answered == \A a \in answers : a[1] \in crossed \/ asked[a[1]].link = a[2]

\* NoSettingLeft, without the case it leaves out.
Settled(k) ==
    \/ vector[k] = <<>>
    \/ \E i \in DOMAIN queue : queue[i] = k
    \/ \E l \in Links : rx[l].at = "send" /\ rx[l].kind = k
    \/ dispatcher.at # "idle" /\ dispatcher.kind = k

RInv == /\ Types /\ HistoryTypes /\ Places /\ Recent /\ SameLink /\ Answered
        /\ \A k \in Configs : Settled(k)

-----------------------------------------------------------------------------
LEMMA PlaceIs ==
    ASSUME NEW A, NEW K, NEW I, NEW w \in [at : A, kind : K, id : I], NEW p
    PROVE  Place(w, p) = [at |-> p, kind |-> w.kind, id |-> w.id]
BY DEF Place

LEMMA BoundIsNat == RequestsAssumption => MaxAsked \in Nat /\ QueSize \in Nat
BY DEF RequestsAssumption

LEMMA Ranges ==
    ASSUME NEW b \in Nat, NEW n \in Nat, NEW m \in Nat, n < m
    PROVE  /\ b + 1 .. n + 1 \subseteq 1 .. m
           /\ b + 1 .. n \subseteq 1 .. n
           /\ b + 1 .. n \subseteq b + 1 .. n + 1
           /\ \A i \in b + 1 .. n + 1 : i = n + 1 \/ i \in b + 1 .. n
OBVIOUS

LEMMA RangeEnd ==
    ASSUME NEW n \in Nat, NEW b \in 0 .. n
    PROVE  n + 1 \in b + 1 .. n + 1
OBVIOUS

LEMMA CurrentIsIds ==
    ASSUME RequestsAssumption, HistoryTypes
    PROVE  Current \subseteq Ids
<1>1. /\ closed \in Nat /\ Len(asked) \in Nat /\ MaxAsked \in Nat
      /\ Len(asked) <= MaxAsked
    BY BoundIsNat DEF HistoryTypes
<1> SUFFICES ASSUME NEW i \in closed + 1 .. Len(asked) PROVE i \in 1 .. MaxAsked
    BY DEF Current, Ids
<1> QED  BY <1>1

LEMMA InvHolds == ASSUME RequestsAssumption, Init PROVE RInv
<1>1. comtype \in Links
    BY DEF Init, RequestsAssumption
<1>2. Idle \in [at : RxPlaces, kind : Kinds, id : AnyId]
      /\ Idle \in [at : DispPlaces, kind : Kinds, id : AnyId]
      /\ Idle \in [at : WorkPlaces, kind : Kinds, id : AnyId]
      /\ Idle.at = "idle"
    BY DEF Idle, RxPlaces, DispPlaces, WorkPlaces, Kinds, Plain, AnyId
<1>3. /\ field \in [Kinds -> AnyId] /\ vector \in [Configs -> Seq(Ids)]
      /\ \A k \in Configs : vector[k] = <<>>
    BY DEF Init, AnyId
<1>4. queue = <<>> /\ queue \in Seq(Kinds) /\ Len(queue) <= QueSize
    BY DEF Init, RequestsAssumption
<1>5. rx \in [Links -> [at : RxPlaces, kind : Kinds, id : AnyId]]
      /\ \A l \in Links : rx[l].at = "idle"
    BY <1>2 DEF Init
<1>6. worker \in [Ids -> [at : WorkPlaces, kind : Kinds, id : AnyId]]
      /\ \A i \in Ids : worker[i].at = "idle"
    BY <1>2 DEF Init
<1>7. Types
    <2>1. exist \in [Slow -> BOOLEAN]
        BY DEF Init
    <2>2. /\ permit = 1 /\ handled \subseteq Ids /\ dispatcher = Idle
        BY DEF Init
    <2>3. undefined \in BOOLEAN
        BY DEF Init
    <2>4. permit \in 0 .. 1
        BY <2>2
    <2> QED  BY <1>1, <1>2, <1>3, <1>4, <1>5, <1>6, <2>1, <2>2, <2>3, <2>4 DEF Types
<1>8. HistoryTypes
    BY DEF Init, HistoryTypes, RequestsAssumption
<1>9. Places
    BY <1>2, <1>5, <1>6 DEF Init, Places
<1>10. Current = {}
    BY DEF Init, Current
<1>11. Recent
    <2>1. dispatcher.at = "idle" /\ DOMAIN queue = {}
        BY <1>2, <1>4 DEF Init
    <2>2. \A k \in Configs : vector[k] \in Seq(Current)
        BY <1>3
    <2> QED  BY <1>5, <1>6, <2>1, <2>2 DEF Recent
<1>12. SameLink /\ Answered
    BY <1>10 DEF Init, SameLink, Answered
<1> QED  BY <1>3, <1>7, <1>8, <1>9, <1>11, <1>12 DEF RInv, Settled

-----------------------------------------------------------------------------
\* A step that receives nothing and answers, if anything, current commands.
LEMMA SameCurrent ==
    ASSUME RInv, UNCHANGED <<comtype, asked, closed, crossed>>,
           answers' \subseteq answers \cup {<<i, comtype>> : i \in Current}
    PROVE  HistoryTypes' /\ SameLink' /\ Answered' /\ Current' = Current
<1>1. HistoryTypes /\ SameLink /\ Answered /\ comtype \in Links
    BY DEF RInv, Types
<1>2. Current' = Current /\ Current \subseteq 1 .. Len(asked)
    BY <1>1 DEF Current, HistoryTypes
<1>3. answers' \subseteq (1 .. Len(asked)) \X Links
    BY <1>1, <1>2 DEF HistoryTypes
<1>4. HistoryTypes'
    BY <1>1, <1>3 DEF HistoryTypes
<1>5. SameLink'
    BY <1>1, <1>2 DEF SameLink
<1>6. Answered'
    <2> SUFFICES ASSUME NEW a \in answers' PROVE a[1] \in crossed \/ asked[a[1]].link = a[2]
        BY DEF Answered
    <2>1. CASE a \in answers
        BY <1>1, <2>1 DEF Answered
    <2>2. CASE \E i \in Current : a = <<i, comtype>>
        BY <1>1, <2>2 DEF SameLink
    <2> QED  BY <2>1, <2>2
<1> QED  BY <1>2, <1>4, <1>5, <1>6

\* What a step of one receiver changes of the others.
LEMMA OneReceiver ==
    ASSUME RInv, NEW l \in Links, NEW r \in [at : RxPlaces, kind : Kinds, id : AnyId],
           rx' = [rx EXCEPT ![l] = r]
    PROVE  /\ rx' \in [Links -> [at : RxPlaces, kind : Kinds, id : AnyId]]
           /\ rx'[l] = r /\ \A m \in Links \ {l} : rx'[m] = rx[m]
BY DEF RInv, Types

LEMMA ReceiveKeeps ==
    ASSUME RequestsAssumption, RInv, ~undefined,
           NEW l \in Links, NEW k \in Commands, Receive(l, k)
    PROVE  RInv'
<1> DEFINE n == Len(asked)
           r == [at |-> "store", kind |-> k, id |-> n + 1]
<1>1. Types /\ HistoryTypes /\ Places /\ Recent /\ SameLink /\ Answered
    BY DEF RInv
<1>2. /\ rx[l].at = "idle" /\ n < MaxAsked /\ n \in Nat /\ k \in Kinds /\ n + 1 \in Ids
      /\ asked \in Seq([kind : Kinds, link : Links]) /\ closed \in 0 .. n
      /\ MaxAsked \in Nat
    BY <1>1 DEF Receive, RequestsAssumption, HistoryTypes, Ids
<1>3. /\ rx' = [rx EXCEPT ![l] = r] /\ comtype' = l
      /\ asked' = Append(asked, [kind |-> k, link |-> l])
      /\ UNCHANGED <<field, vector, queue, dispatcher, permit, worker, exist, handled,
                     answers, undefined>>
    BY DEF Receive
<1>4. r \in [at : RxPlaces, kind : Kinds, id : AnyId]
    BY <1>2 DEF RxPlaces, AnyId
<1> HIDE DEF r
<1>5. /\ rx' \in [Links -> [at : RxPlaces, kind : Kinds, id : AnyId]]
      /\ rx'[l] = r /\ \A m \in Links \ {l} : rx'[m] = rx[m]
    BY <1>3, <1>4, OneReceiver
<1>6. r.at = "store" /\ r.kind = k /\ r.id = n + 1
    BY DEF r
<1>7. /\ asked' \in Seq([kind : Kinds, link : Links]) /\ Len(asked') = n + 1
      /\ asked'[n + 1].link = l
      /\ \A i \in 1 .. n : asked'[i] = asked[i]
    BY <1>2, <1>3
<1> HIDE DEF n
<1>8. closed' \in {closed, n} /\ closed' \in 0 .. n /\ closed' \in Nat
    BY <1>2 DEF Receive, n
<1>18. n \in Nat /\ n < MaxAsked /\ MaxAsked \in Nat /\ closed' \in Nat
    BY <1>2, <1>8
<1>9. Types'
    BY <1>1, <1>3, <1>5 DEF Types
<1>10. Places'
    BY <1>1, <1>3, <1>5, <1>6 DEF Places
<1>11. \A c \in Configs : Settled(c)'
    <2> SUFFICES ASSUME NEW c \in Configs PROVE Settled(c)'
        OBVIOUS
    <2>1. Settled(c)
        BY DEF RInv
    <2>2. \A m \in Links : rx[m].at = "send" => m # l
        BY <1>2
    <2> QED  BY <1>3, <1>5, <2>1, <2>2 DEF Settled
<1>12. /\ crossed \subseteq crossed' /\ crossed' \subseteq Ids
       /\ \A i \in closed' + 1 .. n : asked[i].link = l \/ i \in crossed'
       /\ (n + 1 \in crossed' \/ asked'[n + 1].link = l)
    <2> DEFINE others == {i \in closed' + 1 .. n : asked[i].link # l}
    <2>1. crossed' = IF others = {} THEN crossed ELSE crossed \cup (closed' + 1 .. n + 1)
        BY DEF Receive, n
    <2>2. closed' + 1 .. n + 1 \subseteq Ids
        BY <1>18, Ranges DEF Ids
    <2>3. crossed \subseteq Ids
        BY <1>1 DEF HistoryTypes
    <2>4. \A i \in closed' + 1 .. n : i \in closed' + 1 .. n + 1
        BY <1>18, Ranges
    <2> QED  BY <1>7, <2>1, <2>2, <2>3, <2>4
<1>13. Current' = closed' + 1 .. n + 1 /\ n + 1 \in Current'
    <2>1. Current' = closed' + 1 .. Len(asked')
        BY DEF Current
    <2>2. n + 1 \in closed' + 1 .. n + 1
        BY <1>8, <1>18, RangeEnd
    <2> QED  BY <1>7, <2>1, <2>2
<1>14. HistoryTypes'
    <2>1. \A a \in answers : a \in (1 .. n + 1) \X Links
        BY <1>1, <1>2 DEF HistoryTypes, n
    <2> QED  BY <1>2, <1>3, <1>7, <1>8, <1>12, <2>1 DEF HistoryTypes
<1>15. SameLink'
    <2>1. \A i \in Current' : i = n + 1 \/ i \in closed' + 1 .. n
        BY <1>13, <1>18, Ranges
    <2>2. \A i \in closed' + 1 .. n : i \in 1 .. n
        BY <1>18, Ranges
    <2> QED  BY <1>3, <1>7, <1>12, <2>1, <2>2 DEF SameLink
<1>16. Answered'
    <2>1. \A a \in answers : a[1] \in 1 .. n
        BY <1>1 DEF HistoryTypes, n
    <2> QED  BY <1>1, <1>3, <1>7, <1>12, <2>1 DEF Answered
<1>17. Recent'
    <2>1. CASE Done
        <3>1. queue = <<>> /\ DOMAIN queue = {} /\ dispatcher.at = "idle"
            BY <2>1 DEF Done
        <3>2. \A c \in Configs : vector[c] = <<>>
            BY <2>1, <3>1 DEF RInv, Settled, Done
        <3>3. \A c \in Configs : vector'[c] \in Seq(Current')
            <4>1. \A c \in Configs : vector'[c] = <<>>
                BY <1>3, <3>2
            <4>2. << >> \in Seq(Current')
                OBVIOUS
            <4> QED  BY <4>1, <4>2
        <3>4. \A m \in Links \ {l} : rx'[m].at = "idle"
            BY <1>5, <2>1 DEF Done
        <3>5. \A i \in Ids : worker'[i].at \in {"idle", "done"}
            BY <1>3, <2>1 DEF Done
        <3> QED  BY <1>3, <1>5, <1>6, <1>13, <3>1, <3>3, <3>4, <3>5 DEF Recent
    <2>2. CASE ~Done
        <3>1. closed' = closed
            BY <2>2 DEF Receive
        <3>2. Current \subseteq Current'
            BY <1>2, <1>13, <3>1 DEF Current, n
        <3>3. \A c \in Configs : vector'[c] \in Seq(Current')
            BY <1>1, <1>3, <3>2 DEF Recent
        <3> QED  BY <1>1, <1>3, <1>5, <1>6, <1>13, <3>2, <3>3 DEF Recent
    <2> QED  BY <2>1, <2>2
<1> QED  BY <1>9, <1>10, <1>11, <1>14, <1>15, <1>16, <1>17 DEF RInv

-----------------------------------------------------------------------------
(***************************************************************************)
(* The rest of a receiving thread.                                         *)
(***************************************************************************)
LEMMA StoreFieldKeeps ==
    ASSUME RequestsAssumption, RInv, NEW l \in Links, StoreField(l)
    PROVE  RInv'
<1> DEFINE r(p) == [at |-> p, kind |-> rx[l].kind, id |-> rx[l].id]
<1>1. Types /\ HistoryTypes /\ Places /\ Recent
    BY DEF RInv
<1>2. /\ rx[l] \in [at : RxPlaces, kind : Kinds, id : AnyId] /\ rx[l].at = "store"
      /\ rx[l].id \in Current /\ rx[l].id \in AnyId /\ rx[l].kind \in Kinds
    BY <1>1 DEF StoreField, Types, Recent
<1>3. UNCHANGED <<comtype, vector, queue, dispatcher, permit, worker, exist, asked,
                  handled, answers, closed, crossed>>
    BY DEF StoreField
<1>4. HistoryTypes' /\ SameLink' /\ Answered' /\ Current' = Current
    BY <1>3, SameCurrent
<1>5. undefined' \in BOOLEAN
    BY <1>1 DEF StoreField, Types
<1>6. ASSUME NEW p \in {"push", "send"}, rx' = [rx EXCEPT ![l] = r(p)],
             p = "push" => rx[l].kind \in Configs /\ UNCHANGED field,
             p = "send" => rx[l].kind \notin Configs
                           /\ field' = [field EXCEPT ![rx[l].kind] = rx[l].id]
      PROVE  RInv'
    <2>1. r(p) \in [at : RxPlaces, kind : Kinds, id : AnyId]
        BY <1>2, <1>6 DEF RxPlaces
    <2>2. r(p).at = p /\ r(p).kind = rx[l].kind /\ r(p).id = rx[l].id
        OBVIOUS
    <2> HIDE DEF r
    <2>3. /\ rx' \in [Links -> [at : RxPlaces, kind : Kinds, id : AnyId]]
          /\ rx'[l] = r(p) /\ \A m \in Links \ {l} : rx'[m] = rx[m]
        BY <1>6, <2>1, OneReceiver
    <2>4. field' \in [Kinds -> AnyId]
        BY <1>1, <1>2, <1>6 DEF Types
    <2>5. /\ \A k \in Kinds : field[k] \in Current => field'[k] \in Current
          /\ p = "send" => field'[rx[l].kind] \in Current
        BY <1>1, <1>2, <1>6 DEF Types
    <2>6. Types'
        BY <1>1, <1>3, <1>5, <2>3, <2>4 DEF Types
    <2>7. Places'
        BY <1>1, <1>3, <1>6, <2>2, <2>3 DEF Places
    <2>8. Recent'
        <3>1. \A m \in Links : /\ rx'[m].at # "idle" => rx'[m].id \in Current
                               /\ rx'[m].at = "send" /\ rx'[m].kind \notin Configs
                                     => field'[rx'[m].kind] \in Current
            BY <1>1, <1>2, <2>2, <2>3, <2>5 DEF Recent, Types
        <3>2. \A i \in DOMAIN queue : queue[i] \in Kinds
            BY <1>1 DEF Types
        <3>3. \A i \in Ids : worker[i].kind \in Kinds
            BY <1>1 DEF Types
        <3> QED  BY <1>1, <1>3, <1>4, <2>5, <3>1, <3>2, <3>3 DEF Recent
    <2>9. \A k \in Configs : Settled(k)'
        <3>1. \A m \in Links : rx[m].at = "send" => rx'[m] = rx[m]
            BY <1>2, <2>3
        <3> QED  BY <1>3, <3>1 DEF RInv, Settled
    <2> QED  BY <1>4, <2>6, <2>7, <2>8, <2>9 DEF RInv
<1>7. CASE rx[l].kind \in Configs
    <2>1. rx' = [rx EXCEPT ![l] = r("push")] /\ UNCHANGED field
        BY <1>2, <1>7, PlaceIs DEF StoreField
    <2> QED  BY <1>6, <1>7, <2>1
<1>8. CASE rx[l].kind \notin Configs
    <2>1. /\ rx' = [rx EXCEPT ![l] = r("send")]
          /\ field' = [field EXCEPT ![rx[l].kind] = rx[l].id]
        BY <1>2, <1>8, PlaceIs DEF StoreField
    <2> QED  BY <1>6, <1>8, <2>1
<1> QED  BY <1>7, <1>8

LEMMA PushBackKeeps ==
    ASSUME RequestsAssumption, RInv, NEW l \in Links, PushBack(l)
    PROVE  RInv'
<1> DEFINE r == [at |-> "send", kind |-> rx[l].kind, id |-> rx[l].id]
           k == rx[l].kind
<1>1. Types /\ HistoryTypes /\ Places /\ Recent
    BY DEF RInv
<1>2. /\ rx[l] \in [at : RxPlaces, kind : Kinds, id : AnyId] /\ rx[l].at = "push"
      /\ rx[l].id \in Current /\ rx[l].id \in AnyId /\ k \in Configs /\ k \in Kinds
    BY <1>1 DEF PushBack, Types, Recent, Places
<1>3. UNCHANGED <<params, queue, dispatcher, permit, worker, exist, hist>>
    BY DEF PushBack
<1>4. HistoryTypes' /\ SameLink' /\ Answered' /\ Current' = Current
    BY <1>3, SameCurrent DEF params, hist
<1>5. r \in [at : RxPlaces, kind : Kinds, id : AnyId]
    BY <1>2 DEF RxPlaces
<1>6. rx' = [rx EXCEPT ![l] = r]
    <2>1. Place(rx[l], "send") = r
        BY <1>2, PlaceIs
    <2> HIDE DEF r
    <2> QED  BY <2>1 DEF PushBack
<1>7. r.at = "send" /\ r.kind = k /\ r.id = rx[l].id
    OBVIOUS
<1> HIDE DEF r
<1>8. /\ rx' \in [Links -> [at : RxPlaces, kind : Kinds, id : AnyId]]
      /\ rx'[l] = r /\ \A m \in Links \ {l} : rx'[m] = rx[m]
    BY <1>5, <1>6, OneReceiver
<1>9. /\ vector' = [vector EXCEPT ![k] = Append(vector[k], rx[l].id)]
      /\ vector \in [Configs -> Seq(Ids)]
    BY <1>1 DEF PushBack, Types
<1>10. rx[l].id \in Ids /\ Current \subseteq Ids
    BY <1>1, <1>2, CurrentIsIds
<1>11. vector' \in [Configs -> Seq(Ids)]
    BY <1>2, <1>9, <1>10
<1>12. \A c \in Configs : vector'[c] \in Seq(Current)
    <2>1. vector[k] \in Seq(Current)
        BY <1>1, <1>2 DEF Recent
    <2>2. vector'[k] = Append(vector[k], rx[l].id)
        BY <1>2, <1>9
    <2>3. \A c \in Configs \ {k} : vector'[c] = vector[c]
        BY <1>9
    <2>4. vector'[k] \in Seq(Current)
        BY <1>2, <2>1, <2>2
    <2>5. \A c \in Configs : vector[c] \in Seq(Current)
        BY <1>1 DEF Recent
    <2> HIDE DEF k
    <2> QED  BY <2>3, <2>4, <2>5
<1>13. Types'
    BY <1>1, <1>3, <1>8, <1>11 DEF Types, params, hist
<1>14. Places'
    BY <1>1, <1>3, <1>7, <1>8 DEF Places
<1>15. Recent'
    <2>1. \A m \in Links : /\ rx'[m].at # "idle" => rx'[m].id \in Current
                           /\ rx'[m].at = "send" /\ rx'[m].kind \notin Configs
                                 => field[rx'[m].kind] \in Current
        BY <1>1, <1>2, <1>7, <1>8 DEF Recent
    <2> QED  BY <1>1, <1>3, <1>4, <1>12, <2>1 DEF Recent, params
<1>16. \A c \in Configs : Settled(c)'
    <2> SUFFICES ASSUME NEW c \in Configs PROVE Settled(c)'
        OBVIOUS
    <2>1. CASE c = k
        BY <1>7, <1>8, <2>1 DEF Settled
    <2>2. CASE c # k
        <3>1. Settled(c)
            BY DEF RInv
        <3>2. vector'[c] = vector[c]
            BY <1>9, <2>2
        <3>3. \A m \in Links : rx[m].at = "send" => rx'[m] = rx[m]
            BY <1>2, <1>8
        <3> QED  BY <1>3, <3>1, <3>2, <3>3 DEF Settled
    <2> QED  BY <2>1, <2>2
<1> QED  BY <1>4, <1>13, <1>14, <1>15, <1>16 DEF RInv

\* What one more message in the queue changes.
LEMMA Queued ==
    ASSUME RequestsAssumption, Types, NEW k \in Kinds, Len(queue) < QueSize,
           queue' = Append(queue, k)
    PROVE  /\ queue' \in Seq(Kinds) /\ Len(queue') <= QueSize
           /\ \A i \in DOMAIN queue' : queue'[i] = k
                                       \/ (i \in DOMAIN queue /\ queue'[i] = queue[i])
           /\ \E i \in DOMAIN queue' : queue'[i] = k
           /\ \A i \in DOMAIN queue : i \in DOMAIN queue' /\ queue'[i] = queue[i]
<1>1. queue \in Seq(Kinds) /\ Len(queue) \in Nat /\ QueSize \in Nat
    BY BoundIsNat DEF Types
<1>2. queue' \in Seq(Kinds) /\ Len(queue') = Len(queue) + 1
    BY <1>1
<1>3. \A i \in 1 .. Len(queue) : queue'[i] = queue[i]
    BY <1>1
<1>4. queue'[Len(queue) + 1] = k
    BY <1>1
<1>5. DOMAIN queue = 1 .. Len(queue) /\ DOMAIN queue' = 1 .. Len(queue) + 1
    BY <1>1, <1>2
<1>6. \A i \in 1 .. Len(queue) + 1 : i = Len(queue) + 1 \/ i \in 1 .. Len(queue)
    BY <1>1
<1>7. Len(queue) + 1 \in 1 .. Len(queue) + 1
      /\ 1 .. Len(queue) \subseteq 1 .. Len(queue) + 1
    BY <1>1
<1>8. Len(queue') <= QueSize
    BY <1>1, <1>2
<1>9. \E i \in DOMAIN queue' : queue'[i] = k
    BY <1>4, <1>5, <1>7
<1>10. \A i \in DOMAIN queue' : queue'[i] = k
                                \/ (i \in DOMAIN queue /\ queue'[i] = queue[i])
    <2> SUFFICES ASSUME NEW i \in 1 .. Len(queue) + 1
                 PROVE  queue'[i] = k \/ (i \in 1 .. Len(queue) /\ queue'[i] = queue[i])
        BY <1>5
    <2>1. CASE i = Len(queue) + 1
        BY ONLY <1>4, <2>1
    <2>2. CASE i \in 1 .. Len(queue)
        BY <1>3, <2>2
    <2> QED  BY <1>6, <2>1, <2>2
<1>11. \A i \in DOMAIN queue : i \in DOMAIN queue' /\ queue'[i] = queue[i]
    BY <1>3, <1>5, <1>7
<1> QED  BY <1>2, <1>8, <1>9, <1>10, <1>11

LEMMA SendKeeps ==
    ASSUME RequestsAssumption, RInv, NEW l \in Links, Send(l)
    PROVE  RInv'
<1> DEFINE k == rx[l].kind
<1>1. Types /\ HistoryTypes /\ Places /\ Recent
    BY DEF RInv
<1>2. rx[l].at = "send" /\ k \in Kinds /\ (k \notin Configs => field[k] \in Current)
    BY <1>1 DEF Send, Types, Recent
<1>3. /\ UNCHANGED <<params, vector, dispatcher, permit, worker, exist, hist>>
      /\ Len(queue) < QueSize /\ queue' = Append(queue, k)
      /\ rx' = [rx EXCEPT ![l] = Idle]
    BY DEF Send
<1>4. HistoryTypes' /\ SameLink' /\ Answered' /\ Current' = Current
    BY <1>3, SameCurrent DEF params, hist
<1>5. Idle \in [at : RxPlaces, kind : Kinds, id : AnyId] /\ Idle.at = "idle"
    BY DEF Idle, RxPlaces, Kinds, Plain, AnyId
<1>6. /\ rx' \in [Links -> [at : RxPlaces, kind : Kinds, id : AnyId]]
      /\ rx'[l] = Idle /\ \A m \in Links \ {l} : rx'[m] = rx[m]
    BY <1>3, <1>5, OneReceiver
<1>7. /\ queue' \in Seq(Kinds) /\ Len(queue') <= QueSize
      /\ \A i \in DOMAIN queue' : queue'[i] = k
                                  \/ (i \in DOMAIN queue /\ queue'[i] = queue[i])
      /\ \E i \in DOMAIN queue' : queue'[i] = k
      /\ \A i \in DOMAIN queue : i \in DOMAIN queue' /\ queue'[i] = queue[i]
    BY <1>1, <1>2, <1>3, Queued
<1>8. Types'
    BY <1>1, <1>3, <1>6, <1>7 DEF Types, params, hist
<1>9. Places'
    BY <1>1, <1>3, <1>5, <1>6 DEF Places
<1>10. Recent'
    <2>1. \A i \in DOMAIN queue' : queue'[i] \notin Configs => field[queue'[i]] \in Current
        BY <1>1, <1>2, <1>7 DEF Recent
    <2> QED  BY <1>1, <1>3, <1>4, <1>5, <1>6, <2>1 DEF Recent, params
<1>11. \A c \in Configs : Settled(c)'
    <2> SUFFICES ASSUME NEW c \in Configs PROVE Settled(c)'
        OBVIOUS
    <2>1. Settled(c)
        BY DEF RInv
    <2>2. CASE c = k
        BY <1>7, <2>2 DEF Settled
    <2>3. CASE c # k
        <3>1. \A m \in Links : rx[m].at = "send" /\ rx[m].kind = c => rx'[m] = rx[m]
            BY <1>6, <2>3
        <3> QED  BY <1>3, <1>7, <2>1, <3>1 DEF Settled
    <2> QED  BY <2>2, <2>3
<1> QED  BY <1>4, <1>8, <1>9, <1>10, <1>11 DEF RInv

-----------------------------------------------------------------------------
(***************************************************************************)
(* The dispatcher.                                                         *)
(***************************************************************************)
\* What taking a message leaves.
LEMMA Taken ==
    ASSUME RequestsAssumption, RInv, queue # <<>>, queue' = Tail(queue)
    PROVE  /\ queue' \in Seq(Kinds) /\ Len(queue') <= QueSize
           /\ Head(queue) \in Kinds
           /\ Head(queue) \notin Configs => field[Head(queue)] \in Current
           /\ \A i \in DOMAIN queue' : \E j \in DOMAIN queue : queue'[i] = queue[j]
           /\ \A j \in DOMAIN queue : queue[j] = Head(queue)
                                      \/ \E i \in DOMAIN queue' : queue'[i] = queue[j]
<1>1. queue \in Seq(Kinds) /\ Len(queue) \in Nat /\ Len(queue) # 0
      /\ Len(queue) <= QueSize
    BY DEF RInv, Types
<1>2. queue' \in Seq(Kinds) /\ Len(queue') = Len(queue) - 1
    BY <1>1
<1>3. \A i \in 1 .. Len(queue) - 1 : queue'[i] = queue[i + 1] /\ i + 1 \in 1 .. Len(queue)
    BY <1>1
<1>4. DOMAIN queue = 1 .. Len(queue) /\ DOMAIN queue' = 1 .. Len(queue) - 1
    BY <1>1, <1>2
<1>5. Head(queue) = queue[1] /\ 1 \in DOMAIN queue
    BY <1>1, <1>4
<1>6. Head(queue) \notin Configs => field[Head(queue)] \in Current
    BY <1>5 DEF RInv, Recent
<1>7. \A j \in DOMAIN queue : queue[j] = Head(queue)
                              \/ \E i \in DOMAIN queue' : queue'[i] = queue[j]
    <2> SUFFICES ASSUME NEW j \in DOMAIN queue, j # 1
                 PROVE  \E i \in DOMAIN queue' : queue'[i] = queue[j]
        BY <1>5
    <2>1. j - 1 \in 1 .. Len(queue) - 1 /\ (j - 1) + 1 = j
        BY <1>1, <1>4
    <2>2. queue'[j - 1] = queue[j]
        BY <1>3, <2>1
    <2> QED  BY <1>4, <2>1, <2>2
<1>8. \A i \in DOMAIN queue' : \E j \in DOMAIN queue : queue'[i] = queue[j]
    BY <1>3, <1>4
<1>9. Len(queue') <= QueSize
    BY <1>1, <1>2, BoundIsNat
<1> QED  BY <1>1, <1>2, <1>5, <1>6, <1>7, <1>8, <1>9

\* A message taken: all but what its handler does.
LEMMA DispatchKeeps ==
    ASSUME RequestsAssumption, RInv, NEW k \in Kinds, Dispatch(k),
           dispatcher' \in [at : DispPlaces, kind : Kinds, id : AnyId],
           worker' \in [Ids -> [at : WorkPlaces, kind : Kinds, id : AnyId]],
           handled' \subseteq Ids, undefined' \in BOOLEAN,
           answers' \subseteq answers \cup {<<i, comtype>> : i \in Current},
           dispatcher'.at \in {"idle", "size", "push"},
           dispatcher'.at = "size" => dispatcher'.kind \in Configs,
           dispatcher'.at = "push" => dispatcher'.kind = "SetCfg" /\ dispatcher'.id \in Current,
           k \in Configs => dispatcher'.at # "idle" /\ dispatcher'.kind = k,
           \A i \in Ids : \/ worker'[i] = worker[i]
                          \/ /\ worker'[i].at = "guard" /\ worker'[i].kind = k
                             /\ k \in Slow /\ k \notin Configs
    PROVE  RInv'
<1>1. Types /\ HistoryTypes /\ Places /\ Recent
    BY DEF RInv
<1>2. /\ dispatcher.at = "idle" /\ queue # <<>> /\ Head(queue) = k /\ queue' = Tail(queue)
      /\ UNCHANGED <<comtype, field, vector, rx, permit, exist, asked, closed, crossed>>
    BY DEF Dispatch, params
<1>3. /\ queue' \in Seq(Kinds) /\ Len(queue') <= QueSize
      /\ k \notin Configs => field[k] \in Current
      /\ \A i \in DOMAIN queue' : \E j \in DOMAIN queue : queue'[i] = queue[j]
      /\ \A j \in DOMAIN queue : queue[j] = k
                                 \/ \E i \in DOMAIN queue' : queue'[i] = queue[j]
    BY <1>2, Taken
<1>4. HistoryTypes' /\ SameLink' /\ Answered' /\ Current' = Current
    BY <1>2, SameCurrent
<1>5. Types'
    BY <1>1, <1>2, <1>3 DEF Types
<1>6. Places'
    BY <1>1, <1>2 DEF Places
<1>7. Recent'
    <2>1. \A i \in DOMAIN queue' : queue'[i] \notin Configs => field[queue'[i]] \in Current
        BY <1>1, <1>3 DEF Recent
    <2>2. \A i \in Ids :
              /\ worker'[i].at \in {"guard", "enter", "run"} => field[worker'[i].kind] \in Current
              /\ worker'[i].at = "answer" => worker'[i].id \in Current
        BY <1>1, <1>3 DEF Recent
    <2> QED  BY <1>1, <1>2, <1>4, <2>1, <2>2 DEF Recent
<1>8. \A c \in Configs : Settled(c)'
    <2> SUFFICES ASSUME NEW c \in Configs PROVE Settled(c)'
        OBVIOUS
    <2>1. Settled(c)
        BY DEF RInv
    <2> QED  BY <1>2, <1>3, <2>1 DEF Settled
<1> QED  BY <1>4, <1>5, <1>6, <1>7, <1>8 DEF RInv

LEMMA HandlersKeep ==
    ASSUME RequestsAssumption, RInv,
           \/ DispatchTrk \/ DispatchTrkOutput
           \/ \E k \in Configs : DispatchConfig(k)
           \/ \E k \in Slow : DispatchSlow(k)
    PROVE  RInv'
<1>1. Types /\ HistoryTypes
    BY DEF RInv
<1>2. /\ dispatcher \in [at : DispPlaces, kind : Kinds, id : AnyId]
      /\ worker \in [Ids -> [at : WorkPlaces, kind : Kinds, id : AnyId]]
      /\ handled \subseteq Ids /\ undefined \in BOOLEAN /\ Current \subseteq Ids
    BY <1>1, CurrentIsIds DEF Types
<1>3. ASSUME NEW k \in Kinds, Dispatch(k)
      PROVE  dispatcher.at = "idle" /\ (k \notin Configs => field[k] \in Current)
    BY <1>3, Taken DEF Dispatch
<1>4. CASE DispatchTrk
    <2>1. "Trk" \in Kinds /\ "Trk" \notin Configs
        BY DEF Kinds, Plain, Configs
    <2>2. Dispatch("Trk") /\ UNCHANGED <<dispatcher, worker, undefined>>
          /\ answers' = answers \cup {<<field["Trk"], comtype>>}
          /\ handled' = handled \cup {field["Trk"]}
        BY <1>4 DEF DispatchTrk, Answer
    <2>3. field["Trk"] \in Current /\ dispatcher.at = "idle"
        BY <1>3, <2>1, <2>2
    <2>4. answers' \subseteq answers \cup {<<i, comtype>> : i \in Current}
        BY <2>2, <2>3
    <2>5. handled' \subseteq Ids
        BY <1>2, <2>2, <2>3
    <2> QED  BY <1>2, <2>1, <2>2, <2>3, <2>4, <2>5, DispatchKeeps
<1>5. CASE DispatchTrkOutput
    <2> DEFINE d == [at |-> "push", kind |-> "SetCfg", id |-> field["TrkOutput"]]
    <2>1. "TrkOutput" \in Kinds /\ "TrkOutput" \notin Configs /\ "SetCfg" \in Kinds
        BY DEF Kinds, Plain, Configs
    <2>2. Dispatch("TrkOutput") /\ dispatcher' = d
          /\ UNCHANGED <<worker, handled, answers>>
        BY <1>5 DEF DispatchTrkOutput
    <2>3. undefined' \in BOOLEAN
        BY <1>2, <1>5 DEF DispatchTrkOutput
    <2>4. field["TrkOutput"] \in Current
        BY <1>3, <2>1, <2>2
    <2>5. d \in [at : DispPlaces, kind : Kinds, id : AnyId]
        BY <1>2, <2>1, <2>4 DEF DispPlaces, AnyId
    <2>6. d.at = "push" /\ d.kind = "SetCfg" /\ d.id \in Current
        BY <2>4
    <2> HIDE DEF d
    <2> QED  BY <1>2, <2>1, <2>2, <2>3, <2>5, <2>6, DispatchKeeps
<1>6. ASSUME NEW k \in Configs, DispatchConfig(k) PROVE RInv'
    <2> DEFINE d == [at |-> "size", kind |-> k, id |-> NoId]
    <2>1. k \in Kinds
        BY DEF Kinds
    <2>2. Dispatch(k) /\ dispatcher' = d /\ UNCHANGED <<worker, handled, answers, undefined>>
        BY <1>6 DEF DispatchConfig
    <2>3. d \in [at : DispPlaces, kind : Kinds, id : AnyId]
        BY <2>1 DEF DispPlaces, AnyId
    <2>4. d.at = "size" /\ d.kind = k
        OBVIOUS
    <2> HIDE DEF d
    <2> QED  BY <1>2, <2>1, <2>2, <2>3, <2>4, DispatchKeeps
<1>7. ASSUME NEW k \in Slow, DispatchSlow(k) PROVE RInv'
    <2> DEFINE w == [at |-> "guard", kind |-> k, id |-> NoId]
               free == CHOOSE i \in Ids : worker[i].at = "idle"
    <2>1. k \in Kinds /\ k \notin Configs
        BY DEF Kinds, Slow, Configs
    <2>2. Dispatch(k) /\ worker' = [worker EXCEPT ![free] = w]
          /\ UNCHANGED <<dispatcher, handled, answers, undefined>>
        BY <1>7 DEF DispatchSlow
    <2>3. w \in [at : WorkPlaces, kind : Kinds, id : AnyId] /\ w.at = "guard" /\ w.kind = k
        BY <2>1 DEF WorkPlaces, AnyId
    <2>4. dispatcher.at = "idle"
        BY <1>3, <2>1, <2>2
    <2> HIDE DEF w, free
    <2>5. /\ worker' \in [Ids -> [at : WorkPlaces, kind : Kinds, id : AnyId]]
          /\ \A i \in Ids : worker'[i] = worker[i] \/ worker'[i] = w
        BY <1>2, <2>2, <2>3
    <2> QED  BY <1>2, <2>1, <2>2, <2>3, <2>4, <2>5, DispatchKeeps
<1> QED  BY <1>4, <1>5, <1>6, <1>7
\* A step of a handler: all but what it does to vector and queue.
LEMMA StepKeeps ==
    ASSUME RequestsAssumption, RInv,
           NEW d \in [at : DispPlaces, kind : Kinds, id : AnyId], Step(d),
           UNCHANGED <<asked, closed, crossed>>,
           answers' \subseteq answers \cup {<<i, comtype>> : i \in Current},
           handled' \subseteq Ids, permit' \in 0 .. 1, undefined' \in BOOLEAN,
           queue' \in Seq(Kinds), Len(queue') <= QueSize,
           \A i \in DOMAIN queue' :
               queue'[i] \in Configs \/ \E j \in DOMAIN queue : queue'[i] = queue[j],
           \A j \in DOMAIN queue : \E i \in DOMAIN queue' : queue'[i] = queue[j],
           vector' \in [Configs -> Seq(Current)],
           d.at \in {"size", "permit", "handle", "front", "erase"} => d.kind \in Configs,
           d.at \in {"push", "send"} => d.kind = "SetCfg",
           d.at \in {"permit", "handle", "push"} => d.id \in Current,
           \A c \in Configs : vector'[c] = vector[c] \/ (d.at # "idle" /\ d.kind = c),
           \A c \in Configs : dispatcher.at # "idle" /\ dispatcher.kind = c =>
               \/ d.at # "idle" /\ d.kind = c
               \/ vector'[c] = <<>>
               \/ \E i \in DOMAIN queue' : queue'[i] = c
    PROVE  RInv'
<1>1. Types /\ HistoryTypes /\ Places /\ Recent
    BY DEF RInv
<1>2. dispatcher' = d /\ UNCHANGED <<comtype, field, rx, worker, exist>>
    BY DEF Step, params
<1>3. HistoryTypes' /\ SameLink' /\ Answered' /\ Current' = Current
    BY <1>2, SameCurrent
<1>4. vector' \in [Configs -> Seq(Ids)]
    <2>1. \A c \in Configs : vector'[c] \in Seq(Ids)
        BY <1>1, CurrentIsIds
    <2> QED  BY <2>1
<1>5. Types'
    BY <1>1, <1>2, <1>4 DEF Types
<1>6. Places'
    BY <1>1, <1>2 DEF Places
<1>7. Recent'
    <2>1. \A i \in DOMAIN queue' : queue'[i] \notin Configs => field[queue'[i]] \in Current
        BY <1>1 DEF Recent
    <2>2. \A c \in Configs : vector'[c] \in Seq(Current)
        OBVIOUS
    <2> QED  BY <1>1, <1>2, <1>3, <2>1, <2>2 DEF Recent
<1>8. \A c \in Configs : Settled(c)'
    <2> SUFFICES ASSUME NEW c \in Configs PROVE Settled(c)'
        OBVIOUS
    <2>1. Settled(c)
        BY DEF RInv
    <2>2. CASE d.at # "idle" /\ d.kind = c
        BY <1>2, <2>2 DEF Settled
    <2>3. CASE vector'[c] = vector[c]
        BY <1>2, <2>1, <2>3 DEF Settled
    <2> QED  BY <2>2, <2>3
<1> QED  BY <1>3, <1>5, <1>6, <1>7, <1>8 DEF RInv

\* A step of the loop over a vector that leaves vector and queue as they are.
LEMMA LoopKeeps ==
    ASSUME RequestsAssumption, RInv, NEW p \in DispPlaces \ {"idle", "push", "send"},
           NEW x \in AnyId,
           dispatcher.kind \in Configs,
           Step([at |-> p, kind |-> dispatcher.kind, id |-> x]),
           p \in {"permit", "handle"} => x \in Current,
           UNCHANGED <<vector, queue, asked, closed, crossed>>,
           answers' \subseteq answers \cup {<<i, comtype>> : i \in Current},
           handled' \subseteq Ids, permit' \in 0 .. 1, undefined' \in BOOLEAN
    PROVE  RInv'
<1> DEFINE d == [at |-> p, kind |-> dispatcher.kind, id |-> x]
<1>1. Types /\ Recent
    BY DEF RInv
<1>2. d \in [at : DispPlaces, kind : Kinds, id : AnyId]
    BY DEF Kinds
<1>3. d.at = p /\ d.kind = dispatcher.kind /\ d.id = x
    OBVIOUS
<1>4. Step(d)
    OBVIOUS
<1> HIDE DEF d
<1>5. queue' \in Seq(Kinds) /\ Len(queue') <= QueSize /\ queue' = queue
    BY <1>1 DEF Types
<1>6. vector' \in [Configs -> Seq(Current)] /\ vector' = vector
    <2>1. vector \in [Configs -> Seq(Ids)] /\ \A c \in Configs : vector[c] \in Seq(Current)
        BY <1>1 DEF Types, Recent
    <2> QED  BY <2>1
<1> QED  BY <1>2, <1>3, <1>4, <1>5, <1>6, StepKeeps

LEMMA VectorsKeep ==
    ASSUME RequestsAssumption, RInv,
           Size \/ TakePermit \/ HandleConfig \/ StartErase
    PROVE  RInv'
<1>1. Types /\ HistoryTypes /\ Places /\ Recent
    BY DEF RInv
<1>2. /\ dispatcher \in [at : DispPlaces, kind : Kinds, id : AnyId]
      /\ handled \subseteq Ids /\ undefined \in BOOLEAN /\ Current \subseteq Ids
      /\ permit \in 0 .. 1 /\ permit' \in 0 .. 1
      /\ dispatcher.kind \in Configs /\ dispatcher.id \in AnyId
    BY <1>1, CurrentIsIds DEF Types, Places, Size, TakePermit, HandleConfig, StartErase
<1>3. \A q : Place(dispatcher, q) = [at |-> q, kind |-> dispatcher.kind, id |-> dispatcher.id]
    BY <1>2, PlaceIs
<1>4. CASE Size
    <2>1. UNCHANGED <<vector, queue, permit, asked, handled, answers, closed, crossed>>
        BY <1>4 DEF Size
    <2>2. undefined' \in BOOLEAN
        BY <1>2, <1>4 DEF Size
    <2>3. CASE vector[dispatcher.kind] = <<>>
        <3>1. Step(Idle)
            BY <1>4, <2>3 DEF Size
        <3>2. Idle \in [at : DispPlaces, kind : Kinds, id : AnyId] /\ Idle.at = "idle"
            BY DEF Idle, DispPlaces, Kinds, Plain, AnyId
        <3>3. queue' \in Seq(Kinds) /\ Len(queue') <= QueSize /\ queue' = queue
            BY <1>1, <2>1 DEF Types
        <3>4. vector' \in [Configs -> Seq(Current)] /\ vector' = vector
            <4>1. vector \in [Configs -> Seq(Ids)]
                  /\ \A c \in Configs : vector[c] \in Seq(Current)
                BY <1>1 DEF Types, Recent
            <4> QED  BY <2>1, <4>1
        <3> QED  BY <1>2, <2>1, <2>2, <2>3, <3>1, <3>2, <3>3, <3>4, StepKeeps
    <2>4. CASE vector[dispatcher.kind] # <<>>
        <3> DEFINE x == Head(vector[dispatcher.kind])
        <3>1. x \in Current
            <4>1. vector[dispatcher.kind] \in Seq(Current)
                BY <1>1, <1>2 DEF Recent
            <4> QED  BY <2>4, <4>1
        <3>2. Step([at |-> "permit", kind |-> dispatcher.kind, id |-> x])
            BY <1>4, <2>4 DEF Size
        <3>3. x \in AnyId
            BY <1>2, <3>1 DEF AnyId
        <3> HIDE DEF x
        <3> QED  BY <1>2, <2>1, <2>2, <3>1, <3>2, <3>3, LoopKeeps DEF DispPlaces
    <2> QED  BY <2>3, <2>4
<1>5. CASE TakePermit
    <2>1. /\ Step([at |-> "handle", kind |-> dispatcher.kind, id |-> dispatcher.id])
          /\ UNCHANGED <<vector, queue, hist>> /\ dispatcher.at = "permit"
        BY <1>3, <1>5 DEF TakePermit
    <2>2. dispatcher.id \in Current
        BY <1>1, <2>1 DEF Recent
    <2> QED  BY <1>2, <2>1, <2>2, LoopKeeps DEF DispPlaces, hist
<1>6. CASE HandleConfig
    <2>1. /\ Step([at |-> "front", kind |-> dispatcher.kind, id |-> dispatcher.id])
          /\ UNCHANGED <<vector, queue, permit, asked, closed, crossed, undefined>>
          /\ dispatcher.at = "handle" /\ handled' = handled \cup {dispatcher.id}
          /\ answers' = answers \cup {<<dispatcher.id, comtype>>}
        BY <1>3, <1>6 DEF HandleConfig, Answer
    <2>2. dispatcher.id \in Current
        BY <1>1, <2>1 DEF Recent
    <2>3. answers' \subseteq answers \cup {<<i, comtype>> : i \in Current}
          /\ handled' \subseteq Ids
        BY <1>2, <2>1, <2>2
    <2> QED  BY <1>2, <2>1, <2>3, LoopKeeps DEF DispPlaces
<1>7. CASE StartErase
    <2>1. /\ Step([at |-> "erase", kind |-> dispatcher.kind, id |-> dispatcher.id])
          /\ UNCHANGED <<vector, queue, permit, asked, handled, answers, closed, crossed>>
        BY <1>3, <1>7 DEF StartErase
    <2>2. undefined' \in BOOLEAN
        BY <1>2, <1>7 DEF StartErase
    <2> QED  BY <1>2, <2>1, <2>2, LoopKeeps DEF DispPlaces
<1> QED  BY <1>4, <1>5, <1>6, <1>7
\* One more setting, or one less, in the vector the dispatcher is at.
LEMMA ErasesKeep ==
    ASSUME RequestsAssumption, RInv, Erase \/ PushOutput
    PROVE  RInv'
<1> DEFINE k == dispatcher.kind
           d(p) == [at |-> p, kind |-> k, id |-> dispatcher.id]
<1>1. Types /\ HistoryTypes /\ Places /\ Recent
    BY DEF RInv
<1>2. /\ dispatcher \in [at : DispPlaces, kind : Kinds, id : AnyId]
      /\ vector \in [Configs -> Seq(Ids)] /\ \A c \in Configs : vector[c] \in Seq(Current)
      /\ UNCHANGED <<queue, permit, hist>>
    BY <1>1 DEF Types, Recent, Erase, PushOutput
<1>3. /\ queue' \in Seq(Kinds) /\ Len(queue') <= QueSize /\ queue' = queue
      /\ permit' \in 0 .. 1 /\ handled' \subseteq Ids /\ undefined' \in BOOLEAN
    BY <1>1, <1>2 DEF Types, hist
<1>4. \A p \in DispPlaces : /\ d(p) \in [at : DispPlaces, kind : Kinds, id : AnyId]
                            /\ d(p).at = p /\ d(p).kind = k /\ d(p).id = dispatcher.id
                            /\ Place(dispatcher, p) = d(p)
    BY <1>2, PlaceIs
<1>5. "SetCfg" \in Configs /\ {"size", "send"} \subseteq DispPlaces
    BY DEF Configs, DispPlaces
<1>6. ASSUME NEW p \in {"size", "send"}, Step(d(p)), k \in Configs, p = "send" => k = "SetCfg",
             NEW s \in Seq(Current), vector' = [vector EXCEPT ![k] = s]
      PROVE  RInv'
    <2>1. vector' \in [Configs -> Seq(Current)] /\ \A c \in Configs \ {k} : vector'[c] = vector[c]
        BY <1>2, <1>6
    <2>2. p \in DispPlaces
        BY <1>5
    <2> HIDE DEF d
    <2> QED  BY <1>2, <1>3, <1>4, <1>6, <2>1, <2>2, StepKeeps DEF hist
<1>7. CASE Erase
    <2>1. k \in Configs /\ dispatcher.at = "erase"
        BY <1>1, <1>7 DEF Erase, Places
    <2>2. Step(d("size"))
        BY <1>4, <1>5, <1>7 DEF Erase
    <2>3. vector' = [vector EXCEPT ![k] = Tail(vector[k])]
        BY <1>7 DEF Erase
    <2>4. CASE vector[k] # <<>>
        <3>1. Tail(vector[k]) \in Seq(Current)
            BY <1>2, <2>1, <2>4
        <3> QED  BY <1>6, <2>1, <2>2, <2>3, <3>1
    <2>5. CASE vector[k] = <<>>
        <3>1. Tail(vector[k]) \in Seq(Current)
            BY <2>5
        <3> QED  BY <1>6, <2>1, <2>2, <2>3, <3>1
    <2> QED  BY <2>4, <2>5
<1>8. CASE PushOutput
    <2>1. dispatcher.at = "push" /\ k = "SetCfg" /\ dispatcher.id \in Current
        BY <1>1, <1>8 DEF PushOutput, Places, Recent
    <2>2. Step(d("send"))
        BY <1>4, <1>5, <1>8 DEF PushOutput
    <2>3. vector' = [vector EXCEPT ![k] = Append(vector[k], dispatcher.id)]
        BY <1>8, <2>1 DEF PushOutput
    <2>4. Append(vector[k], dispatcher.id) \in Seq(Current)
        BY <1>2, <1>5, <2>1
    <2> QED  BY <1>5, <1>6, <2>1, <2>2, <2>3, <2>4
<1> QED  BY <1>7, <1>8

LEMMA SendOutputKeeps ==
    ASSUME RequestsAssumption, RInv, SendOutput
    PROVE  RInv'
<1>1. Types /\ HistoryTypes /\ Places /\ Recent
    BY DEF RInv
<1>2. /\ dispatcher.at = "send" /\ dispatcher.kind = "SetCfg" /\ Len(queue) < QueSize
      /\ queue' = Append(queue, "SetCfg") /\ Step(Idle)
      /\ UNCHANGED <<vector, permit, hist>>
    BY <1>1 DEF SendOutput, Places
<1>3. "SetCfg" \in Configs /\ "SetCfg" \in Kinds
    BY DEF Configs, Kinds
<1>4. Idle \in [at : DispPlaces, kind : Kinds, id : AnyId] /\ Idle.at = "idle"
    BY DEF Idle, DispPlaces, Kinds, Plain, AnyId
<1>5. /\ queue' \in Seq(Kinds) /\ Len(queue') <= QueSize
      /\ \A i \in DOMAIN queue' : queue'[i] = "SetCfg"
                                  \/ (i \in DOMAIN queue /\ queue'[i] = queue[i])
      /\ \E i \in DOMAIN queue' : queue'[i] = "SetCfg"
      /\ \A i \in DOMAIN queue : i \in DOMAIN queue' /\ queue'[i] = queue[i]
    BY <1>1, <1>2, <1>3, Queued
<1>6. /\ permit' \in 0 .. 1 /\ handled' \subseteq Ids /\ undefined' \in BOOLEAN
    BY <1>1, <1>2 DEF Types, hist
<1>7. vector' \in [Configs -> Seq(Current)] /\ vector' = vector
    <2>1. vector \in [Configs -> Seq(Ids)] /\ \A c \in Configs : vector[c] \in Seq(Current)
        BY <1>1 DEF Types, Recent
    <2> QED  BY <1>2, <2>1
<1> QED  BY <1>2, <1>3, <1>4, <1>5, <1>6, <1>7, StepKeeps DEF hist

-----------------------------------------------------------------------------
(***************************************************************************)
(* The detached threads and the sender of answers.                         *)
(***************************************************************************)
LEMMA WorkKeeps ==
    ASSUME RequestsAssumption, RInv, NEW i \in Ids, NEW from,
           NEW w \in [at : WorkPlaces, kind : Kinds, id : AnyId], Work(i, from, w),
           exist' \in [Slow -> BOOLEAN], handled' \subseteq Ids,
           answers' \subseteq answers \cup {<<j, comtype>> : j \in Current},
           w.at \notin {"idle", "done"} => w.kind \in Slow,
           w.at \in {"guard", "enter", "run"} => field[w.kind] \in Current,
           w.at = "answer" => w.id \in Current
    PROVE  RInv'
<1>1. Types /\ HistoryTypes /\ Places /\ Recent
    BY DEF RInv
<1>2. /\ worker' = [worker EXCEPT ![i] = w]
      /\ UNCHANGED <<comtype, field, vector, queue, rx, dispatcher, permit, asked, closed,
                     crossed, undefined>>
    BY DEF Work, params
<1>3. /\ worker' \in [Ids -> [at : WorkPlaces, kind : Kinds, id : AnyId]]
      /\ worker'[i] = w /\ \A j \in Ids \ {i} : worker'[j] = worker[j]
    BY <1>1, <1>2 DEF Types
<1>4. HistoryTypes' /\ SameLink' /\ Answered' /\ Current' = Current
    BY <1>2, SameCurrent
<1>5. Types'
    BY <1>1, <1>2, <1>3 DEF Types
<1>6. Places'
    BY <1>1, <1>2, <1>3 DEF Places
<1>7. Recent'
    BY <1>1, <1>2, <1>3, <1>4 DEF Recent
<1>8. \A c \in Configs : Settled(c)'
    BY <1>2 DEF RInv, Settled
<1> QED  BY <1>4, <1>5, <1>6, <1>7, <1>8 DEF RInv

LEMMA WorkersKeep ==
    ASSUME RequestsAssumption, RInv, NEW i \in Ids, WorkerStep(i)
    PROVE  RInv'
<1> DEFINE k == worker[i].kind
           w(p, x) == [at |-> p, kind |-> k, id |-> x]
<1>1. Types /\ HistoryTypes /\ Places /\ Recent
    BY DEF RInv
<1>2. /\ worker[i] \in [at : WorkPlaces, kind : Kinds, id : AnyId]
      /\ k \in Kinds /\ worker[i].id \in AnyId
      /\ handled \subseteq Ids /\ exist \in [Slow -> BOOLEAN]
      /\ Current \subseteq Ids
    BY <1>1, CurrentIsIds DEF Types
<1>3. ASSUME NEW p \in WorkPlaces, NEW x \in AnyId
      PROVE  /\ w(p, x) \in [at : WorkPlaces, kind : Kinds, id : AnyId]
             /\ w(p, x).at = p /\ w(p, x).kind = k /\ w(p, x).id = x
    BY <1>2
<1>4. \A p : Place(worker[i], p) = w(p, worker[i].id)
    BY <1>2, PlaceIs
<1>5. {"enter", "done", "run", "answer"} \subseteq WorkPlaces
    BY DEF WorkPlaces
<1> HIDE DEF w
<1>6. CASE Guard(i)
    <2>1. /\ worker[i].at = "guard" /\ UNCHANGED <<exist, handled, answers>>
          /\ \E p \in {"done", "enter"} : Work(i, "guard", w(p, worker[i].id))
        <3> DEFINE p == IF exist[k] THEN "done" ELSE "enter"
        <3>1. Work(i, "guard", Place(worker[i], p)) /\ UNCHANGED <<exist, handled, answers>>
            BY <1>6 DEF Guard
        <3>2. p \in {"done", "enter"}
            OBVIOUS
        <3> HIDE DEF p
        <3>3. Work(i, "guard", w(p, worker[i].id))
            BY <1>4, <3>1
        <3>4. worker[i].at = "guard"
            BY <3>1 DEF Work
        <3> QED  BY <3>1, <3>2, <3>3, <3>4
    <2>2. k \in Slow /\ field[k] \in Current
        BY <1>1, <2>1 DEF Places, Recent
    <2> QED  BY <1>2, <1>3, <1>5, <2>1, <2>2, WorkKeeps
<1>7. CASE Enter(i)
    <2>1. /\ worker[i].at = "enter" /\ UNCHANGED <<handled, answers>>
          /\ exist' = [exist EXCEPT ![k] = TRUE]
          /\ Work(i, "enter", w("run", worker[i].id))
        BY <1>4, <1>7 DEF Enter, Work
    <2>2. k \in Slow /\ field[k] \in Current
        BY <1>1, <2>1 DEF Places, Recent
    <2>3. exist' \in [Slow -> BOOLEAN]
        BY <1>2, <2>1
    <2> QED  BY <1>2, <1>3, <1>5, <2>1, <2>2, <2>3, WorkKeeps
<1>8. CASE Run(i)
    <2>1. /\ worker[i].at = "run" /\ UNCHANGED <<exist, answers>>
          /\ handled' = handled \cup {field[k]}
          /\ Work(i, "run", w("answer", field[k]))
        BY <1>8 DEF Run, Work, w
    <2>2. k \in Slow /\ field[k] \in Current
        BY <1>1, <2>1 DEF Places, Recent
    <2>3. handled' \subseteq Ids /\ field[k] \in AnyId
        BY <1>2, <2>1, <2>2 DEF AnyId
    <2> QED  BY <1>2, <1>3, <1>5, <2>1, <2>2, <2>3, WorkKeeps
<1>9. CASE Finish(i)
    <2>1. /\ worker[i].at = "answer" /\ UNCHANGED handled
          /\ exist' = [exist EXCEPT ![k] = FALSE]
          /\ answers' = answers \cup {<<worker[i].id, comtype>>}
          /\ Work(i, "answer", w("done", worker[i].id))
        BY <1>4, <1>9 DEF Finish, Work, Answer
    <2>2. worker[i].id \in Current
        BY <1>1, <2>1 DEF Recent
    <2>3. exist' \in [Slow -> BOOLEAN]
          /\ answers' \subseteq answers \cup {<<j, comtype>> : j \in Current}
        BY <1>2, <2>1, <2>2
    <2> QED  BY <1>2, <1>3, <1>5, <2>1, <2>3, WorkKeeps
<1> QED  BY <1>6, <1>7, <1>8, <1>9 DEF WorkerStep

LEMMA RestKeeps ==
    ASSUME RInv, UNCHANGED <<params, vector, queue, rx, dispatcher, worker, exist, hist>>,
           permit' \in 0 .. 1
    PROVE  RInv'
<1>1. Types /\ HistoryTypes /\ Places /\ Recent
    BY DEF RInv
<1>2. UNCHANGED <<comtype, field, asked, handled, answers, closed, crossed, undefined>>
    BY DEF params, hist
<1>3. HistoryTypes' /\ SameLink' /\ Answered' /\ Current' = Current
    BY <1>2, SameCurrent
<1>4. Types'
    BY <1>1, <1>2 DEF Types
<1>5. Places' /\ Recent'
    BY <1>1, <1>2, <1>3 DEF Places, Recent
<1>6. \A c \in Configs : Settled(c)'
    BY DEF RInv, Settled
<1> QED  BY <1>3, <1>4, <1>5, <1>6 DEF RInv

LEMMA InvKept == RequestsAssumption /\ RInv /\ [Next]_vars => RInv'
<1> SUFFICES ASSUME RequestsAssumption, RInv, [Next]_vars PROVE RInv'
    OBVIOUS
<1>1. CASE UNCHANGED vars
    <2>1. permit' \in 0 .. 1
        BY <1>1 DEF RInv, Types, vars
    <2> QED  BY <1>1, <2>1, RestKeeps DEF vars
<1>2. CASE GivePermit
    <2>1. permit' \in 0 .. 1
        BY <1>2 DEF GivePermit
    <2> QED  BY <1>2, <2>1, RestKeeps DEF GivePermit
<1>3. ASSUME NEW l \in Links, RxStep(l) PROVE RInv'
    BY <1>3, StoreFieldKeeps, PushBackKeeps, SendKeeps DEF RxStep
<1>4. CASE DispatcherStep
    BY <1>4, HandlersKeep, VectorsKeep, ErasesKeep, SendOutputKeeps DEF DispatcherStep
<1> QED  BY <1>1, <1>2, <1>3, <1>4, ReceiveKeeps, WorkersKeep DEF Next

LEMMA SpecInv == ASSUME RequestsAssumption PROVE Spec => []RInv
<1>1. Init => RInv
    BY InvHolds
<1>2. RInv /\ [Next]_vars => RInv'
    BY InvKept
<1> QED  BY <1>1, <1>2, PTL DEF Spec

\* The invariant gives the types, and what the run checks.
LEMMA RShows ==
    ASSUME RequestsAssumption, RInv
    PROVE  TypeOK /\ NoSettingLeft /\ AnswersAsker
<1>1. Types /\ HistoryTypes
    BY DEF RInv
<1>2. answers \subseteq Ids \X Links
  <2>1. 1 .. Len(asked) \subseteq Ids
    <3>1. Len(asked) \in Nat /\ MaxAsked \in Nat /\ Len(asked) <= MaxAsked
        BY <1>1, BoundIsNat DEF HistoryTypes
    <3> QED  BY <3>1 DEF Ids
  <2> QED  BY <1>1, <2>1 DEF HistoryTypes
<1>3. \A l \in Links : rx[l].at \in RxPlaces /\ rx[l].id \in AnyId
    BY <1>1 DEF Types
<1>4. dispatcher.at \in DispPlaces /\ dispatcher.kind \in Kinds /\ dispatcher.id \in AnyId
    BY <1>1 DEF Types
<1>5. TypeOK
    BY <1>1, <1>2, <1>3, <1>4
       DEF TypeOK, Types, HistoryTypes, RxPlaces, DispPlaces, WorkPlaces, AnyId
<1>6. NoSettingLeft
    BY DEF RInv, Settled, NoSettingLeft
<1>7. AnswersAsker
    BY DEF RInv, Answered, AnswersAsker
<1> QED  BY <1>5, <1>6, <1>7

-----------------------------------------------------------------------------
\* The types of ComParams, the vectors, the queue and the threads: the queue never
\* holds more than its length, and whatever is handled or answered has been asked.
THEOREM TypeCorrect == ASSUME RequestsAssumption PROVE Spec => []TypeOK
<1>1. RInv => TypeOK
    BY RShows
<1> QED  BY <1>1, SpecInv, PTL

\* No setting is left in its vector: there is a message of its kind to come, or its
\* handler has not found the vector empty yet (parsingComEvent, MSG_Com_SetCfg and the
\* like, MSG_Com_TrkOutput), for any number of links and settings and any queue.
THEOREM NoneLeft == ASSUME RequestsAssumption PROVE Spec => []NoSettingLeft
<1>1. RInv => NoSettingLeft
    BY RShows
<1> QED  BY <1>1, SpecInv, PTL

\* An answer goes to the link that asked unless a command of another link was under way
\* together with its own: so that everything that reads ComParams late (MSG_Trk,
\* SetConfig and the like, setPlatAngle and the like) finds the link of its command.
THEOREM AnswersGoToAsker == ASSUME RequestsAssumption PROVE Spec => []AnswersAsker
<1>1. RInv => AnswersAsker
    BY RShows
<1> QED  BY <1>1, SpecInv, PTL
=============================================================================
