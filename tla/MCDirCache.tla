----------------------------- MODULE MCDirCache -----------------------------
EXTENDS DirCache, TLC

Slots == Permutations(Streams) \cup Permutations(Handles) \cup Permutations(Dirs)
=============================================================================
