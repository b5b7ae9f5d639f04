---------------------------- MODULE MCHashIterator ----------------------------
EXTENDS HashIterator

MCHashes     == {1, 2}
MCSourceIds  == {1, 2}
MCOffsets    == {0, 512}
MCEntropies  == {7}
MCLabels     == {<<>>}

\* find_begin / find_next at the end: a number that is no hash.
MCNoHash     == 0
=============================================================================
