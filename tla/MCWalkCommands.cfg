\* Each command returns once its loop ends, a directory check exits or a
\* report finds nothing to report.
CONSTANTS
    s1 = s1
    s2 = s2
    Hashes <- MCHashes
    Sources <- MCSources
    InRepository <- MCInRepository
    Numbers <- MCNumbers
    ScanCounts <- MCScanCounts
SPECIFICATION Spec
CHECK_DEADLOCK FALSE
INVARIANT
    CopiedSoFar
    HistogramSoFar
    PrintedSoFar
    OutputResolvable
PROPERTY
    Terminates
