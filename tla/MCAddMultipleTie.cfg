CONSTANTS
    Hashes <- MCHashes
    NProducers = 3
SPECIFICATION Spec
CHECK_DEADLOCK FALSE
INVARIANT
    TieByProducerIndex
