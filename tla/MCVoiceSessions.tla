--------------------------- MODULE MCVoiceSessions ----------------------------
\* VoiceSessions for TLC.
EXTENDS VoiceSessions, TLC

Symmetry == Permutations(Calls) \cup Permutations(Connections)
=============================================================================
