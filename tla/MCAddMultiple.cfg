\* The command returns once the merge ends or a directory check exits.
CONSTANTS
    Hashes <- MCHashes
    NProducers = 3
SPECIFICATION Spec
CHECK_DEADLOCK FALSE
INVARIANTS
    AddsSorted
    AddsEachOnce
