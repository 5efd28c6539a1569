------------------------------ MODULE Uart803 ------------------------------
(***************************************************************************)
(* The 803 link (803uart.cpp).  Frames                                     *)
(*     AA 55 <length, high byte first> <length bytes> <xor of those bytes>  *)
(* arrive on one serial port and are turned into messages to the image     *)
(* process by a thread of their own; one of them sets the tracking time,   *)
(* which is kept in a file and told to the image process at the start.     *)
(* What the image process reports leaves on another port.  The sums of     *)
(* the frames that leave are left out.                                     *)
(***************************************************************************)
EXTENDS CheckSum, Integers, SequencesExt

CONSTANTS Contents,     \* what frames carry: a command and its parameters
          Noise,        \* runs of bytes that arrive outside of frames
          Errors,       \* errors of the tracker
          Garbage,      \* what an uninitialised number may be
          Files,        \* Trktime.yml at first: a time, "none" or "short"
          MaxSent, MaxStarts    \* bounds: frames and noise either way, starts

frame_head == <<170, 85>>

\* An error leaves in fifteen bits and a sign.
MaxError == 32767

\* Noise is as in FrameParser.
Uart803Assumption ==
    /\ \A c \in Contents : c \in Seq(0 .. 255) /\ Len(c) < 256
    /\ \A n \in Noise : /\ n \in Seq(0 .. 255) \ {<<>>}
                        /\ \A i \in 2 .. Len(n) : <<n[i-1], n[i]>> # frame_head
                        /\ n[Len(n)] # frame_head[1]
    /\ Errors \subseteq -MaxError .. MaxError /\ Garbage \subseteq Nat
    /\ Files \subseteq [at : {"none", "short"}] \cup [at : {"whole"}, time : 0 .. 10]
    /\ {MaxSent, MaxStarts} \subseteq Nat

VARIABLES phase,        \* whether the program runs
          wire,         \* bytes on their way
          buf, reading, \* swap_data; len and pos are Len(buf)
          trktime,      \* m_trktime
          file,         \* Trktime.yml
          told,         \* messages to the image process since the start
          com1          \* the last frame that left

\* History: what the good frames since the start tell, the time the image process had been
\* told before it, the numbers of frames and starts, and what the last frame that
\* left was made of.
VARIABLES good, before, sent, starts, made

input == <<wire, buf, reading>>
vars  == <<phase, input, trktime, file, told, com1, good, before, sent, starts, made>>

Nothing == [kind |-> "nothing"]
NoFile  == "none"
Short   == "short"

TypeOK ==
    /\ phase \in {"down", "up"}
    /\ wire \in Seq(0 .. 255) /\ buf \in Seq(0 .. 255)
    /\ reading \in 0 .. 2
    /\ reading = 2 <=> Len(buf) = 1
    /\ trktime \in 0 .. 3000
    /\ file \in {[at |-> NoFile], [at |-> Short]} \cup [at : {"whole"}, time : 0 .. 10]
    /\ com1.kind \in {"nothing", "error", "targets"}
    /\ com1.kind = "error" => {com1.high, com1.low} \subseteq 0 .. 255
    /\ sent \in 0 .. MaxSent /\ starts \in 0 .. MaxStarts

Message(cmd, prm) == [cmd |-> cmd, prm |-> prm]

\* The constructor, readtrktime: with a file that is too short the image process is
\* told nothing, with none the time of the source's default.
TimeAtStart(f) == CASE f.at = Short -> 3
                    [] f.at = NoFile -> 3000
                    [] OTHER -> f.time
ToldAtStart(f) == IF f.at = Short THEN <<>> ELSE <<Message("settrktime", TimeAtStart(f))>>

\* The time the image process was told last.
Times == {i \in DOMAIN told : told[i].cmd = "settrktime"}
LastTime == IF Times = {} THEN before
            ELSE told[CHOOSE i \in Times : \A j \in Times : j <= i].prm

Init ==
    /\ phase = "down"
    /\ wire = <<>> /\ buf = <<>> /\ reading = 0
    /\ trktime = 3
    /\ file \in Files
    /\ told = <<>>
    /\ com1 = Nothing /\ made = Nothing
    /\ good = <<>> /\ before = TimeAtStart(file)
    /\ sent = 0 /\ starts = 0

-----------------------------------------------------------------------------
(***************************************************************************)
(* Start and end.                                                          *)
(***************************************************************************)
readtrktime ==
    /\ phase = "down" /\ starts < MaxStarts
    /\ starts' = starts + 1
    /\ phase' = "up"
    /\ trktime' = TimeAtStart(file)
    /\ told' = ToldAtStart(file)
    /\ wire' = <<>> /\ buf' = <<>> /\ reading' = 0
    /\ good' = <<>>
    /\ before' = LastTime
    /\ UNCHANGED <<file, com1, sent, made>>

\* The program ends.
End ==
    /\ phase = "up"
    /\ phase' = "down"
    /\ UNCHANGED <<input, trktime, file, told, com1, good, before, sent, starts, made>>

-----------------------------------------------------------------------------
(***************************************************************************)
(* The thread that receives.                                               *)
(***************************************************************************)
recvcheck_sum(content) == Xor(content)
Frame(content, sum) == frame_head \o <<Len(content) \div 256, Len(content) % 256>>
                           \o content \o <<sum>>

\* The commands with one parameter, and the ones with a place.
OneByte == [n \in {1, 2, 4, 7, 8, 12} |->
    CASE n = 1 -> "changeSensor" [] n = 2 -> "trk" [] n = 4 -> "mmt"
      [] n = 7 -> "posemovestep" [] n = 8 -> "mtd" [] n = 12 -> "mtdAreaClass"]
Place   == [n \in {5, 9, 11} |->
    CASE n = 5 -> "mmtcoord" [] n = 9 -> "sendMtdcoord" [] n = 11 -> "sendMtdSelfCoord"]

\* at(5) and the bytes behind it: the first one behind the content is the sum.
At(content, i) == (content \o <<recvcheck_sum(content)>>)[i - 3]

\* A place that the frame has no room for throws, and nothing catches.
Throws(content) == content[1] \in DOMAIN Place /\ Len(content) < 4
Bit(n, b) == (n \div 2^b) % 2 = 1
Step(n, b) == IF Bit(n, b) THEN 1 ELSE IF Bit(n, b + 1) THEN 2 ELSE 0

\* What a command tells the image process.
Tells(content) ==
    LET cmd == content[1]
        a(i) == At(content, i)
    IN  CASE cmd \in DOMAIN OneByte -> <<Message(OneByte[cmd], a(5))>>
          [] cmd \in DOMAIN Place /\ ~Throws(content) ->
                <<Message(Place[cmd], <<256 * a(5) + a(6), 256 * a(7) + a(8)>>)>>
          [] cmd = 3 /\ a(5) <= 10 -> <<Message("settrktime", a(5))>>
          [] cmd = 6 -> <<Message("posmove", <<Step(a(5), 0), Step(a(5), 2)>>)>>
          [] OTHER -> <<>>

SetsTime(content) == content[1] = 3 /\ At(content, 5) <= 10

\* Mutant: the file stays as it was.
Saved_Not(time) == file
\* saveTrktime: a short file is left alone, and one that is not there is closed all
\* the same, which ends the program.
Saved(time) == IF file.at = "whole" THEN [file EXCEPT !.time = time] ELSE file

parsingComEvent(content) ==
    /\ told' = told \o Tells(content)
    /\ IF SetsTime(content)
       THEN /\ trktime' = At(content, 5)
            /\ file' = Saved(trktime')
            /\ phase' = IF file.at = NoFile THEN "down" ELSE phase
       ELSE /\ phase' = IF Throws(content) THEN "down" ELSE phase
            /\ UNCHANGED <<trktime, file>>

\* The other end sends a frame, good or with a wrong last byte, or noise.
Arrive ==
    /\ phase = "up" /\ wire = <<>> /\ sent < MaxSent
    /\ sent' = sent + 1
    /\ \/ \E c \in Contents, ok \in BOOLEAN :
             /\ wire' = Frame(c, IF ok THEN recvcheck_sum(c) ELSE Spoilt(recvcheck_sum(c)))
             /\ good' = IF ok /\ c # <<>> THEN good \o Tells(c) ELSE good
       \/ wire' \in Noise /\ UNCHANGED good
    /\ UNCHANGED <<phase, buf, reading, trktime, file, told, com1, before, starts, made>>

\* findValidData.
Hunt(b) ==
    /\ IF b = frame_head[Len(buf) + 1]
       THEN buf' = Append(buf, b) /\ reading' = 2 - Len(buf)
       ELSE buf' = <<>> /\ reading' = 0
    /\ UNCHANGED <<phase, trktime, file, told>>

\* Mutant: the length is taken low byte first, as on the other links.
Complete_LowFirst(f) == Len(f) >= 4 /\ Len(f) = f[3] + 256 * f[4] + 5
Complete(f) == Len(f) >= 4 /\ Len(f) = 256 * f[3] + f[4] + 5

Collect(b) ==
    LET f == Append(buf, b)
        content == SubSeq(f, 5, Len(f) - 1)
    IN  IF ~Complete(f)
        THEN buf' = f /\ UNCHANGED <<reading, phase, trktime, file, told>>
        ELSE /\ buf' = <<>> /\ reading' = 0
             /\ IF content # <<>> /\ recvcheck_sum(content) = b
                THEN parsingComEvent(content)
                ELSE UNCHANGED <<phase, trktime, file, told>>

findValidData ==
    /\ phase = "up" /\ wire # <<>>
    /\ wire' = Tail(wire)
    /\ IF reading = 1 THEN Collect(Head(wire)) ELSE Hunt(Head(wire))
    /\ UNCHANGED <<com1, good, before, sent, starts, made>>

-----------------------------------------------------------------------------
(***************************************************************************)
(* What leaves, sent by the thread of the image's events.                  *)
(***************************************************************************)
\* The amount in fifteen bits and the sign in the highest one.
High(e) == IF e < 0 THEN 128 + (-e) \div 256 ELSE e \div 256
Low(e)  == (IF e < 0 THEN -e ELSE e) % 256

\* A frame leaves while the program runs; the bound counts it with what arrives.
Leaves == phase = "up" /\ sent < MaxSent /\ sent' = sent + 1

sendtrkerr(e, status, ch) ==
    /\ Leaves
    /\ com1' = [kind |-> "error", tracks |-> status \in 1 .. 2, high |-> High(e),
                low |-> Low(e), first |-> ch = 0]
    /\ made' = [kind |-> "error", error |-> e]
    /\ UNCHANGED <<phase, input, trktime, file, told, good, before, starts>>

\* The places of channel 4 are scaled; those of another one are never copied into
\* what is sent.
change720To1080(x) == (x * 1920) \div 720
sendmtdprm(x, ch) ==
    /\ Leaves
    /\ \E g \in Garbage : com1' = [kind |-> "targets", other |-> ch # 4,
                                   x |-> IF ch = 4 THEN change720To1080(x) ELSE g]
    /\ made' = [kind |-> "targets"]
    /\ UNCHANGED <<phase, input, trktime, file, told, good, before, starts>>

Next ==
    \/ readtrktime \/ End
    \/ Arrive \/ findValidData
    \/ \E e \in Errors, s \in 0 .. 1 : sendtrkerr(e, s, 4 * s)
    \/ \E ch \in {0, 4} : sendmtdprm(360, ch)

Spec == Init /\ [][Next]_vars

-----------------------------------------------------------------------------
(***************************************************************************)
(* Properties.                                                             *)
(***************************************************************************)
\* Since the start the image process was told the time it had been told last, if
\* there is a file to keep it, and then what the good frames say, in their order and
\* each once, however they are cut into reads and whatever comes between; all of it
\* when their bytes are used up (readtrktime, findValidData, parsingComEvent).
ImageHears ==
    LET start == IF file.at = "whole" THEN <<Message("settrktime", before)>>
                 ELSE ToldAtStart(file)
        all   == start \o good
    IN  phase = "up" => IsPrefix(told, all) /\ (wire = <<>> => told = all)

\* The error can be read back from the frame that left with it (sendtrkerr).
ErrorReadsBack ==
    made.kind = "error" =>
        made.error = IF com1.high >= 128 THEN -(256 * (com1.high - 128) + com1.low)
                                         ELSE 256 * com1.high + com1.low

=============================================================================
