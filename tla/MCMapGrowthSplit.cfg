\* Inserts stop at MaxInserts, the bound of the run, or at an abort.
CONSTANTS
    InitPages = 4
    PagesPerInsert = 2
    MaxInserts = 40
SPECIFICATION Spec
CHECK_DEADLOCK FALSE
INVARIANT
    NeverMapFull
