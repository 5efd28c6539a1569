----------------------------- MODULE MCMsgQueue -----------------------------
(***************************************************************************)
(* Instances of MsgQueue for TLC; the .cfg files give the sizes.           *)
(***************************************************************************)
EXTENDS MsgQueue, TLC

ThreadSymmetry == Permutations(Producers) \cup Permutations(Consumers)
                    \cup Permutations(Handles)
=============================================================================
