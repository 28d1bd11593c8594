---------------------------- MODULE MCAudioRing ----------------------------
\* Small instances of AudioRing for TLC.
EXTENDS AudioRing, TLC

Symmetry == Permutations(Clients)
=============================================================================
