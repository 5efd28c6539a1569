-------------------------- MODULE MCNetConnections --------------------------
\* Instances of NetConnections for TLC; the .cfg files give the sizes.
EXTENDS NetConnections, TLC
=============================================================================
