\* The plug-in stops after SHUTDOWN or an exit.
CONSTANTS
    ChunkSizes   <- MCChunkSizes
    SectorSizes  <- MCSectorSizes
    LookupTypes  <- MCLookupTypes
    PageSizes    <- MCPageSizes
    DbChunkSizes <- MCDbChunkSizes
SPECIFICATION Spec
CHECK_DEADLOCK FALSE
INVARIANT
    LooksUpEverySector
