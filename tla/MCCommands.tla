----------------------------- MODULE MCCommands -----------------------------
(***************************************************************************)
(* An instance of Commands for TLC; what is not here the .cfg file gives.  *)
(***************************************************************************)
EXTENDS Commands, ConfigTable

-----------------------------------------------------------------------------
\* Settings: an address of every kind the code treats apart.
deadx     == Address(Block.JOS, 1)
netip     == Address(Block.PTZ, 6)
trkstat   == Address(Block.RTS, 6)
content   == Address(Block.OSD, 4)
preposx   == Address(Block.PREPOS, 0)
MCWatched == {deadx, netip, trkstat, content, preposx}
MCShipped == [a \in MCWatched |-> IF a = trkstat THEN 0 ELSE 6]
MCFactory == [a \in MCWatched |-> 7]

SetTo(a, v) == [do |-> "set", address |-> a, value |-> v]
MCSettingCommands ==
    {SetTo(deadx, 3), SetTo(netip, 27), SetTo(content, 3), SetTo(preposx, 3)}
      \cup {[do |-> "text", address |-> content, value |-> 8]}
      \cup {[do |-> "default", block |-> b] : b \in {-1, Block.JOS, Block.OSD}}
      \cup {[do |-> "save"]}

\* Frames: contents that hold the bytes of a head and its length; noise that ends
\* nowhere near one.
MCFrameContents == {<<>>, <<3>>, <<235, 83>>, <<83, 235, 1>>}
MCFrameNoise    == {<<83>>, <<235, 1>>, <<235, 235, 1>>}

\* A command of every kind, and the bytes of a head in one of them.
MCLineContents == {<<>>, <<1, 2>>, <<3, 7>>, <<3, 12>>, <<5, 170, 85, 0, 9>>, <<11, 1>>,
                   <<6, 9>>}
MCLineNoise    == {<<85>>, <<170, 170, 1>>}
MCFiles        == {[at |-> "none"], [at |-> "short"], [at |-> "whole", time |-> 4]}
MCErrors       == {-300, 255}
=============================================================================
