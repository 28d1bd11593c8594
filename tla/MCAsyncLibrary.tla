--------------------------- MODULE MCAsyncLibrary ---------------------------
\* Small instances of AsyncLibrary for TLC.
EXTENDS AsyncLibrary, TLC

Symmetry == Permutations(Tasks)
=============================================================================
