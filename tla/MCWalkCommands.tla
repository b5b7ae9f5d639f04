--------------------------- MODULE MCWalkCommands ---------------------------
EXTENDS WalkCommands

CONSTANTS s1, s2

MCHashes == {1, 2}
MCSources == {s1, s2}
MCInRepository == {s1}
\* duplicates 0, 1 and 2: counts no hash, some or all hashes can have.
MCNumbers == {0, 1, 2}
\* scan_random and scan_same run no turn, or three: enough to draw a hash
\* again after another one that shares a source with it.
MCScanCounts == {0, 3}
=============================================================================
