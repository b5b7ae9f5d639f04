\* max_source_offset_pairs = 0.
CONSTANTS
    Hashes     <- MCHashes
    SourceIds  <- MCSourceIds
    Offsets    <- MCOffsets
    Entropies  <- MCEntropies
    Labels     <- MCLabels
    SectorSize = 512
    MaxPairs   = 0
SPECIFICATION Spec
CONSTRAINT CallBound
INVARIANT FindMatchesOffered
