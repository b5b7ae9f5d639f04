\* max_source_offset_pairs = 3: a cap the code enforces correctly.
CONSTANTS
    Hashes     <- MCHashes
    SourceIds  <- MCSourceIds
    Offsets    <- MCOffsets
    Entropies  <- MCEntropies
    Labels     <- MCLabels
    SectorSize = 512
    MaxPairs   = 3
SPECIFICATION Spec
CONSTRAINT CallBound
INVARIANTS
    TypeOK
    
    FindCountAgrees
    TallyAccounting
    FindMatchesOffered
PROPERTIES
    SourcesNeverLost
    ImplementsAbstract
