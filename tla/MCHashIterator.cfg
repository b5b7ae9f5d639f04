\* The run ends when the walk is done and the writer has made its inserts.
CONSTANTS
    Hashes     <- MCHashes
    SourceIds  <- MCSourceIds
    Offsets    <- MCOffsets
    Entropies  <- MCEntropies
    Labels     <- MCLabels
    SectorSize = 512
    MaxPairs   = 3
    MaxCalls   = 4
    NoHash     <- [HashDataStore] MCNoHash
SPECIFICATION Spec
CHECK_DEADLOCK FALSE
INVARIANTS
    WalkAhead
    VisitsAllPresentAtBegin
PROPERTY
    Terminates
