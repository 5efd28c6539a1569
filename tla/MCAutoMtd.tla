----------------------------- MODULE MCAutoMtd -----------------------------
\* Instances of AutoMtd for TLC; the .cfg files give the sizes.
EXTENDS AutoMtd, TLC

\* Loops are interchangeable threads.
LoopSymmetry == Permutations(Loops)
=============================================================================
