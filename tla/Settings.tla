------------------------------ MODULE Settings ------------------------------
(***************************************************************************)
(* The settings: the table cfg_value (with usr_value, the texts of the     *)
(* user OSDs), which lies in memory shared with the image process; the     *)
(* profile it is loaded from at the start and saved to on command; what    *)
(* the image process has read of it, told by messages what to read; and    *)
(* the copy of the joystick and PID parameters in the platform control.    *)
(* The dispatcher handles one command at a time, the worker of a position  *)
(* command (preposHandle) saves besides it, the image process writes the   *)
(* status block and the program may end anywhere.                          *)
(***************************************************************************)
EXTENDS ConfigTable, Integers, SequencesExt

CONSTANTS Watched,      \* the addresses looked at
          Commands,     \* the commands that arrive
          Shipped,      \* values of the profile at first, per address
          Factory,      \* values of Profile_default.yml
          Positions,    \* what a stored position may be
          Octet,        \* 256 in the code
          MaxCommands, MaxStarts  \* bounds of a behaviour

Status   == Watched \cap Fields(Block.RTS, 0 .. 15)
Position == Watched \cap Fields(Block.PREPOS, 0 .. 2)
Tuning   == Watched \cap (Fields(Block.JOS, 0 .. 15) \cup Fields(Block.PID, 0 .. 15))
InBlock(b) == {a \in Watched : BlockOf(a) = b}

\* An address of the internet has four octets, as an unsigned int does.
Values(a) == IF IsIp(a) THEN 0 .. Octet * Octet * Octet * Octet - 1 ELSE Nat

\* Texts come by commands of their own; only the image process writes its status.
SettingsAssumption ==
    /\ IsFiniteSet(Watched) /\ Watched \subseteq 0 .. 2047
    /\ \A a \in Watched : Shipped[a] \in Values(a) /\ Factory[a] \in Values(a)
    /\ \A c \in Commands :
          \/ c \in [do : {"set", "text"}, address : Watched \ Status, value : Nat]
             /\ c.value \in Values(c.address) /\ (c.do = "text" => IsText(c.address))
          \/ c \in [do : {"default"}, block : {-1} \cup 0 .. 127]
          \/ c \in [do : {"save"}]
    /\ Positions \subseteq Nat
    /\ Octet \in Nat \ {0} /\ {MaxCommands, MaxStarts} \subseteq Nat

\* The order in which the addresses are written.
Order ==
    [i \in 1 .. Cardinality(Watched) |->
        CHOOSE a \in Watched : Cardinality({b \in Watched : b < a}) = i - 1]

Savers   == {"dispatcher", "prepos"}
Everything == -1
Unreadable == -2

VARIABLES table,        \* cfg_value and usr_value
          profile,      \* Profile.yml
          ipc, image,   \* messages to the image process; what it has read
          status,       \* the tracking status of the image process
          platform,     \* the platform's copy of the tuning
          phase,        \* whether the program runs
          doing,        \* the command the dispatcher is in
          saver         \* per saver: how many addresses it has written

\* History: commands and starts; the values each address had while the last
\* save ran; and marks: the save was "cut" off or "garbled" by another one; the
\* "platform", the "image" or the "status" was left behind.
VARIABLES commands, starts, during, marks

running == <<phase, doing, saver>>
counts  == <<commands, starts>>
history == <<during, marks>>
vars == <<table, profile, ipc, image, status, platform, running, counts, history>>

NoCommand == [do |-> "none"]
Idle      == -1

-----------------------------------------------------------------------------
(***************************************************************************)
(* Values on the disk.                                                     *)
(***************************************************************************)
\* intip2string: the octets, highest first.
intip2string(ip) == LET shifted1 == ip \div Octet
                        shifted2 == shifted1 \div Octet
                        shifted3 == shifted2 \div Octet
                    IN  <<shifted3 % Octet, shifted2 % Octet, shifted1 % Octet, ip % Octet>>

\* stringip2int, of the four octets that intip2string wrote.
stringip2int(octets) ==
    LET value(k) == octets[k] % Octet
    IN  ((value(1) * Octet + value(2)) * Octet + value(3)) * Octet + value(4)

Written(a, value) == [form |-> Form(a),
                      data |-> IF IsIp(a) THEN intip2string(value) ELSE value]

\* A key that was not written is 0 or the empty text; one written in another
\* form than it is asked for comes back as something else.
Nothing == [form |-> "nothing"]
Read(a, node) ==
    IF node = Nothing THEN 0
    ELSE IF node.form # Form(a) THEN Unreadable
    ELSE IF IsIp(a) THEN stringip2int(node.data) ELSE node.data

WrittenTable(values) == [a \in Watched |-> Written(a, values[a])]

-----------------------------------------------------------------------------
Messages == [cmd : {"config", "single", "block", "usrosd"}, prm : 0 .. 2048]

TypeOK ==
    /\ table \in [Watched -> Int] /\ image \in [Watched -> Int]
    /\ profile.file \in {"short", "whole"}
    /\ \A a \in Watched : profile.nodes[a] = Nothing
                          \/ profile.nodes[a].form \in {"text", "dots", "float", "int"}
    /\ ipc \in Seq(Messages)
    /\ status \in 0 .. 1
    /\ platform \in [Tuning -> Int]
    /\ phase \in {"down", "loaded", "up"}
    /\ doing \in Commands \cup {NoCommand}
    /\ saver \in [Savers -> Idle .. Len(Order)]
    /\ commands \in 0 .. MaxCommands /\ starts \in 0 .. MaxStarts
    /\ \A a \in Watched : during[a] \subseteq Int
    /\ marks \subseteq {"cut", "garbled", "platform", "image", "status"}

\* The program has not run; the shared memory is empty.
Init ==
    /\ table = [a \in Watched |-> 0]
    /\ profile = [file |-> "whole", nodes |-> WrittenTable(Shipped)]
    /\ ipc = <<>>
    /\ image = table
    /\ status = 0
    /\ platform = [a \in Tuning |-> 0]
    /\ phase = "down"
    /\ doing = NoCommand
    /\ saver = [s \in Savers |-> Idle]
    /\ commands = 0 /\ starts = 0
    /\ during = [a \in Watched |-> {Shipped[a]}]
    /\ marks = {}

\* CIPCProc::IPCSendMsg: every message goes out twice.
Twice(messages) == [i \in 1 .. 2 * Len(messages) |-> messages[(i + 1) \div 2]]
Tell(messages)  == ipc' = ipc \o Twice(messages)

Saving == \E s \in Savers : saver[s] # Idle

\* The table changes: a save that is running may write either value.
Store(values) ==
    /\ table' = values
    /\ during' = IF Saving THEN [a \in Watched |-> during[a] \cup {values[a]}]
                           ELSE during

-----------------------------------------------------------------------------
(***************************************************************************)
(* Start and end of the program.                                           *)
(***************************************************************************)
\* Where two savers were at work the file may be readable up to anywhere.
Readable == IF "garbled" \in marks THEN 0 .. Len(Order) ELSE {Len(Order)}

\* Mutant: the address of the video stream is read as a number.
Loaded_NoDots(n) ==
    [a \in Watched |-> IF a \notin {Order[i] : i \in 1 .. n} THEN 0
                       ELSE IF IsIp(a) THEN Unreadable ELSE Read(a, profile.nodes[a])]
Loaded(n) == [a \in Watched |-> IF a \notin {Order[i] : i \in 1 .. n} THEN 0
                                ELSE Read(a, profile.nodes[a])]

\* ReadConfigFile.  A short file is left alone, and so are the table and the
\* image process.
Start ==
    /\ phase = "down" /\ starts < MaxStarts
    /\ starts' = starts + 1
    /\ IF profile.file = "short"
       THEN UNCHANGED <<table, ipc, marks>>
       ELSE /\ \E n \in Readable : table' = Loaded(n)
            /\ Tell(<<[cmd |-> "config", prm |-> 0]>>)
            /\ marks' = (marks \ {"image"}) \cup {"status"}
    /\ phase' = "loaded"
    /\ UNCHANGED <<profile, image, status, platform, doing, saver, commands, during>>

\* StateInit creates the platform with the parameters of the table.
StateInit ==
    /\ phase = "loaded"
    /\ phase' = "up"
    /\ platform' = [a \in Tuning |-> table[a]]
    /\ marks' = marks \ {"platform"}
    /\ UNCHANGED <<table, profile, ipc, image, status, doing, saver, counts, during>>

\* The program ends.  Of a save that was under way the file has the beginning,
\* which may be nothing.
Crash ==
    /\ phase = "up"
    /\ phase' = "down"
    /\ doing' = NoCommand
    /\ saver' = [s \in Savers |-> Idle]
    /\ marks' = marks \cup (IF Saving THEN {"cut"} ELSE {})
                      \cup (IF doing.do \in {"none", "save"} THEN {} ELSE {"image"})
    /\ \/ UNCHANGED profile
       \/ /\ Saving /\ \A s \in Savers : saver[s] <= 0
          /\ profile' = [profile EXCEPT !.file = "short"]
    /\ UNCHANGED <<table, ipc, image, status, platform, counts, during>>

-----------------------------------------------------------------------------
(***************************************************************************)
(* The commands.                                                           *)
(***************************************************************************)
Begin(c) ==
    /\ phase = "up" /\ doing = NoCommand
    /\ commands < MaxCommands
    /\ commands' = commands + 1

\* PlatformCtrl_updateJosparam, PlatformCtrl_updatePIDparam: all fields of the
\* block are copied.
Updated(block, values) ==
    [a \in Tuning |-> IF BlockOf(a) = block THEN values[a] ELSE platform[a]]

\* Mutant: the platform is updated before the value is stored.
SetConfig_Early(c) ==
    /\ Begin(c) /\ c.do = "set"
    /\ IF IsText(c.address) \/ IgnoreConfig(c.address, c.value)
       THEN UNCHANGED <<table, during, platform, doing>>
       ELSE /\ Store([table EXCEPT ![c.address] = c.value])
            /\ platform' = Updated(BlockOf(c.address), table)
            /\ doing' = c
    /\ UNCHANGED <<profile, ipc, image, status, phase, saver, starts, marks>>
\* SetConfig: the value is stored, told to the image process (TellImage) and
\* taken over.  The text of a user OSD and an ignored value change nothing.
SetConfig(c) ==
    /\ Begin(c) /\ c.do = "set"
    /\ IF IsText(c.address) \/ IgnoreConfig(c.address, c.value)
       THEN UNCHANGED <<table, during, platform, doing>>
       ELSE /\ Store([table EXCEPT ![c.address] = c.value])
            /\ platform' = Updated(BlockOf(c.address), table')
            /\ doing' = c
    /\ UNCHANGED <<profile, ipc, image, status, phase, saver, starts, marks>>

\* MSG_Com_SetOsd
SetOsd(c) ==
    /\ Begin(c) /\ c.do = "text"
    /\ Store([table EXCEPT ![c.address] = c.value])
    /\ doing' = c
    /\ UNCHANGED <<profile, ipc, image, status, platform, phase, saver, starts, marks>>

\* Mutant: the status block goes back to its defaults with the others.
Resettable_All(block) == IF block = Everything THEN Watched ELSE InBlock(block)
\* The addresses that DefaultConfig sets.
Resettable(block) ==
    (IF block = Everything THEN Watched ELSE InBlock(block)) \ Status

\* DefaultConfig.  updateparams is given the block of the command, so that all
\* blocks at once update nothing.
DefaultConfig(c) ==
    /\ Begin(c) /\ c.do = "default"
    /\ Store([a \in Watched |-> IF a \in Resettable(c.block) THEN Factory[a]
                                                             ELSE table[a]])
    /\ platform' = IF c.block = Everything THEN platform ELSE Updated(c.block, table')
    /\ marks' = marks \cup (IF c.block = Everything THEN {"platform"} ELSE {})
    /\ doing' = c
    /\ UNCHANGED <<profile, ipc, image, status, phase, saver, starts>>

\* The texts among the defaults of one block are told one by one.
Texts(c) == IF c.do = "default" /\ c.block # Everything
            THEN {a \in Resettable(c.block) : IsText(a)} ELSE {}

\* Mutant: the image process is not told of a text.
Told_NoText(c) ==
    CASE c.do = "set"  -> [cmd |-> "single", prm |-> c.address]
      [] c.do = "text" -> [cmd |-> "single", prm |-> 0]
      [] c.do = "default" /\ c.block = Everything -> [cmd |-> "config", prm |-> 0]
      [] OTHER -> [cmd |-> "block", prm |-> 0]
\* What the image process is told to read.  The number of a block is sent with
\* length 0, which leaves 0 in the message.
Told(c) ==
    CASE c.do = "set"  -> [cmd |-> "single", prm |-> c.address]
      [] c.do = "text" -> [cmd |-> "usrosd", prm |-> c.address]
      [] c.do = "default" /\ c.block = Everything -> [cmd |-> "config", prm |-> 0]
      [] OTHER -> [cmd |-> "block", prm |-> 0]

\* The settings that a reset leaves the image process without.
Untold(c) == IF c.do = "default" /\ c.block \notin {0, Everything}
             THEN Resettable(c.block) \ Texts(c) ELSE {}

TellImage ==
    /\ doing.do \in {"set", "text", "default"}
    /\ Tell([i \in 1 .. Cardinality(Texts(doing)) |->
                [cmd |-> "usrosd", prm |-> SetToSeq(Texts(doing))[i]]]
            \o <<Told(doing)>>)
    /\ marks' = marks \cup (IF Untold(doing) # {} THEN {"image"} ELSE {})
    /\ doing' = NoCommand
    /\ UNCHANGED <<table, profile, image, status, platform, phase, saver,
                   counts, during>>

-----------------------------------------------------------------------------
(***************************************************************************)
(* SaveConfig, on command or, in the worker of preposHandle, after it has  *)
(* stored a position.                                                      *)
(***************************************************************************)
\* FileStorage::WRITE empties the file; a short one is not touched.
Open(s) ==
    IF profile.file = "short" THEN UNCHANGED <<profile, saver, history>>
    ELSE /\ profile' = [file |-> "whole", nodes |-> [a \in Watched |-> Nothing]]
         /\ saver' = [saver EXCEPT ![s] = 0]
         /\ during' = [a \in Watched |-> {table'[a]} \cup
                                         IF Saving THEN during[a] ELSE {}]
         /\ marks' = (marks \ {"cut", "garbled"})
                         \cup (IF Saving THEN {"garbled"} ELSE {})

SaveConfig(c) ==
    /\ Begin(c) /\ c.do = "save"
    /\ UNCHANGED table
    /\ Open("dispatcher")
    /\ doing' = IF saver' = saver THEN NoCommand ELSE c
    /\ UNCHANGED <<ipc, image, status, platform, phase, starts>>

StorePosition ==
    /\ phase = "up" /\ saver["prepos"] = Idle
    /\ commands < MaxCommands
    /\ commands' = commands + 1
    /\ \/ \E p \in Positions :
             table' = [a \in Watched |-> IF a \in Position THEN p ELSE table[a]]
       \/ UNCHANGED table              \* CPTZ_ONVIF::setPrepos stores nothing
    /\ Open("prepos")
    /\ UNCHANGED <<ipc, image, status, platform, phase, doing, starts>>

\* Mutant: the last address is not written.
Done_Early(s) == saver[s] = Len(Order) - 1
Done(s) == saver[s] = Len(Order)

Write(s) ==
    /\ saver[s] # Idle
    /\ IF Done(s)
       THEN /\ saver' = [saver EXCEPT ![s] = Idle]
            /\ doing' = IF s = "dispatcher" THEN NoCommand ELSE doing
            /\ UNCHANGED profile
       ELSE /\ LET a == Order[saver[s] + 1] IN
               profile' = [profile EXCEPT !.nodes[a] = Written(a, table[a])]
            /\ saver' = [saver EXCEPT ![s] = @ + 1]
            /\ UNCHANGED doing
    /\ UNCHANGED <<table, ipc, image, status, platform, phase, counts, history>>

-----------------------------------------------------------------------------
(***************************************************************************)
(* The image process.                                                      *)
(***************************************************************************)
Asked(m) == CASE m.cmd = "config" -> Watched
              [] m.cmd = "block"  -> InBlock(m.prm)
              [] OTHER            -> {m.prm}

ImageReads ==
    /\ ipc # <<>>
    /\ image' = [a \in Watched |-> IF a \in Asked(Head(ipc)) THEN table[a]
                                                             ELSE image[a]]
    /\ ipc' = Tail(ipc)
    /\ UNCHANGED <<table, profile, status, platform, running, counts, history>>

ImageStatus ==
    /\ status' = 1 - status
    /\ Store([a \in Watched |-> IF a \in Status THEN status' ELSE table[a]])
    /\ marks' = marks \ {"status"}
    /\ UNCHANGED <<profile, ipc, image, platform, running, counts>>

-----------------------------------------------------------------------------
Next ==
    \/ Start \/ StateInit \/ Crash
    \/ \E c \in Commands : \/ SetConfig(c) \/ SetOsd(c)
                           \/ DefaultConfig(c) \/ SaveConfig(c)
    \/ TellImage \/ StorePosition
    \/ \E s \in Savers : Write(s)
    \/ ImageReads \/ ImageStatus

Spec == Init /\ [][Next]_vars

-----------------------------------------------------------------------------
(***************************************************************************)
(* Properties.                                                             *)
(***************************************************************************)
\* What was saved is there after a restart: every setting has a value it had
\* while the last save ran, however its form on the disk, whatever was set
\* meanwhile; unless that save was cut off or another one wrote into its file.
SavedSettingsReturn ==
    phase = "loaded" /\ profile.file = "whole" /\ {"cut", "garbled"} \cap marks = {}
        => \A a \in Watched \ Status : table[a] \in during[a]

\* When it has read what it was told to, the image process works with the
\* settings of the table: it is told of every change, after the change.  A
\* reset of one block and a start with a short profile leave it behind.
ImageHasSettings ==
    phase = "up" /\ doing = NoCommand /\ ipc = <<>> /\ "image" \notin marks =>
        \A a \in Watched \ (Status \cup Position) : image[a] = table[a]

\* The platform works with the tuning of the table, unless all blocks were reset.
PlatformHasTuning ==
    phase = "up" /\ "platform" \notin marks =>
        \A a \in Tuning : platform[a] = table[a]

\* The status in the table, which commands are decided by, is the status of the
\* image process, from its first report after a start on: neither a reset nor a
\* save nor a command changes it.
StatusIsImages ==
    "status" \notin marks => \A a \in Status : table[a] = status
=============================================================================
