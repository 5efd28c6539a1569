----------------------------- MODULE MCDxTimer -----------------------------
\* Instances of DxTimer for TLC; the .cfg files give the sizes.
EXTENDS DxTimer, TLC
=============================================================================
