---------------------------- MODULE MCAckChannel ----------------------------
\* Instances of AckChannel for TLC; the .cfg files give the sizes.
EXTENDS AckChannel, TLC
=============================================================================
