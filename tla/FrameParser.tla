---------------------------- MODULE FrameParser ----------------------------
(***************************************************************************)
(* CEventParsing::parsingframe and parsingComEvent: commands arrive on the *)
(* serial port and on network connections as frames                        *)
(*     EB 53 <length, 2 bytes> <length bytes> <xor of those bytes>         *)
(* cut into reads anywhere.  The bytes collected so far are kept from one  *)
(* read to the next in one static buffer, swap_data, which all receiving   *)
(* threads share.  One action is one byte, so that reads are cut, and two  *)
(* threads alternate, in every way.                                        *)
(***************************************************************************)
EXTENDS CheckSum, SequencesExt

CONSTANTS Links,        \* the serial port and the connections
          Contents,     \* what frames carry: a command and its parameters
          Noise,        \* runs of bytes that arrive outside of frames
          MaxSent       \* bound: frames and runs of noise in a behaviour

frame_head == <<235, 83>>

\* Noise that could be mistaken for the beginning of a frame is left out: it
\* hides the frame behind it, as Hunt says.
ParserAssumption ==
    /\ \A c \in Contents : c \in Seq(0 .. 255) /\ Len(c) < 256
    /\ \A n \in Noise : /\ n \in Seq(0 .. 255) \ {<<>>}
                        /\ \A i \in 2 .. Len(n) : <<n[i-1], n[i]>> # frame_head
                        /\ n[Len(n)] # frame_head[1]
    /\ MaxSent \in Nat

VARIABLES wire,         \* bytes on their way, per link
          buf, reading, \* swap_data; len and pos are Len(buf)
          commands      \* commands sent to the dispatcher, per link

\* History: the contents of each link's good frames, in order; how many frames and
\* runs of noise were sent; the link of the first byte of buf; whether a thread took
\* a byte in the middle of what another one was collecting.
VARIABLES good, sent, owner, mixed

vars == <<wire, buf, reading, commands, good, sent, owner, mixed>>
AnyLink == CHOOSE l \in Links : TRUE

\* recvcheck_sum
recvcheck_sum(content) == Xor(content)

\* A frame as a well behaved sender builds it, with the given last byte.
Frame(content, sum) ==
    frame_head \o <<Len(content) % 256, Len(content) \div 256>>
        \o content \o <<sum>>

TypeOK ==
    /\ \A l \in Links : wire[l] \in Seq(0 .. 255)
    /\ buf \in Seq(0 .. 255)
    /\ reading \in 0 .. 2
    /\ reading = 2 <=> Len(buf) = 1
    /\ reading = 1 <=> Len(buf) > 1
    /\ sent \in 0 .. MaxSent
    /\ owner \in Links
    /\ mixed \in BOOLEAN

Init ==
    /\ wire = [l \in Links |-> <<>>]
    /\ buf = <<>>
    /\ reading = 0
    /\ commands = [l \in Links |-> <<>>]
    /\ good = [l \in Links |-> <<>>]
    /\ sent = 0
    /\ owner = AnyLink
    /\ mixed = FALSE

-----------------------------------------------------------------------------
\* The other end sends a frame, good or with a wrong last byte, or noise.
Arrive(l) ==
    /\ wire[l] = <<>>
    /\ sent < MaxSent
    /\ sent' = sent + 1
    /\ \/ \E c \in Contents, ok \in BOOLEAN :
             LET sum == recvcheck_sum(c) IN
             /\ wire' = [wire EXCEPT ![l] =
                            Frame(c, IF ok THEN sum ELSE Spoilt(sum))]
             /\ good' = IF ok /\ c # <<>>
                        THEN [good EXCEPT ![l] = Append(@, c)]
                        ELSE good
       \/ \E n \in Noise : /\ wire' = [wire EXCEPT ![l] = n]
                           /\ UNCHANGED good
    /\ UNCHANGED <<buf, reading, commands, owner, mixed>>

\* reading 0 or 2: looking for the head.  A byte that does not match is
\* dropped, even if it is the first of the head itself.
Hunt(b) ==
    IF b = frame_head[Len(buf) + 1]
    THEN buf' = Append(buf, b) /\ reading' = IF Len(buf) = 1 THEN 1 ELSE 2
    ELSE buf' = <<>> /\ reading' = 0

\* Mutant: a byte more than the frame has is waited for.
Complete_OneLong(f) == Len(f) >= 4 /\ Len(f) = f[3] + 256 * f[4] + 6
Complete(f) == Len(f) >= 4 /\ Len(f) = f[3] + 256 * f[4] + 5

\* parsingComEvent: a frame without a command or with a wrong sum is dropped.
Valid(f) ==
    /\ Len(f) >= 6
    /\ recvcheck_sum(SubSeq(f, 5, Len(f) - 1)) = f[Len(f)]

\* reading 1: the head is there; when the length is reached the frame is
\* parsed and the buffer emptied.
Collect(l, b) ==
    LET f == Append(buf, b) IN
    IF Complete(f)
    THEN /\ buf' = <<>>
         /\ reading' = 0
         /\ commands' = IF Valid(f)
                        THEN [commands EXCEPT ![l] = Append(@, SubSeq(f, 5, Len(f) - 1))]
                        ELSE commands
    ELSE /\ buf' = f
         /\ UNCHANGED <<reading, commands>>

Byte(l) ==
    /\ wire[l] # <<>>
    /\ wire' = [wire EXCEPT ![l] = Tail(@)]
    /\ IF reading = 1 THEN Collect(l, Head(wire[l]))
                      ELSE Hunt(Head(wire[l])) /\ UNCHANGED commands
    /\ owner' = IF buf' = <<>> THEN AnyLink
                ELSE IF buf = <<>> THEN l ELSE owner
    /\ mixed' = (mixed \/ (buf # <<>> /\ owner # l))
    /\ UNCHANGED <<good, sent>>

\* Two threads that meet in swap_data race for its fields, and anything may
\* come of it: no property speaks of what follows, and behaviours end there.
Next == ~mixed /\ \E l \in Links : Arrive(l) \/ Byte(l)

Spec == Init /\ [][Next]_vars

-----------------------------------------------------------------------------
(***************************************************************************)
(* Properties.                                                             *)
(***************************************************************************)
\* However the bytes are cut into reads, and whatever noise and bad frames come
\* between, each link's commands are its good frames in the order they were
\* sent, nothing else, and none is missing when its bytes are used up - as long
\* as no thread took a byte in the middle of another thread's frame.
CommandsAreFrames ==
    ~mixed => \A l \in Links :
        /\ IsPrefix(commands[l], good[l])
        /\ wire[l] = <<>> => commands[l] = good[l]

\* Between frames the parser looks for a head: it never stays in a frame that
\* no link is in the middle of sending.
BackToHunt ==
    ~mixed /\ (\A l \in Links : wire[l] = <<>>) => reading = 0
=============================================================================
