----------------------------- MODULE ScanSectorid -----------------------------
(***************************************************************************)
(* The scan_sectorid bulk_extractor plug-in                                *)
(* (src/src/clients/scan_sectorid/scan_sectorid.cpp).  bulk_extractor      *)
(* calls it once per phase: STARTUP reads the configuration, INIT checks   *)
(* it and creates the query service, each SCAN hashes chunks of one page   *)
(* (sbuf), looks them up and records the matches as md5 features, and     *)
(* SHUTDOWN deletes the query service.                                     *)
(*                                                                         *)
(* Sizes are in units of the smallest sector; a page is its size, and a    *)
(* chunk of it is the offset the request uses as its id.  The query        *)
(* service (sector_hash_query_t) is not in the repository: a lookup may    *)
(* fail, and otherwise answers for the requested ids whose hash the        *)
(* database holds, with the chunk size the database was built with.        *)
(***************************************************************************)
EXTENDS Naturals

CONSTANTS
    ChunkSizes,   \* values the chunk_size option can be given
    SectorSizes,  \* values the sector_size option can be given
    LookupTypes,  \* values the lookup_type option can be given
    PageSizes,    \* sizes of the pages bulk_extractor hands to SCAN
    DbChunkSizes  \* chunk sizes a hash database can have been built with

ValidLookupTypes == {"use_path", "use_socket"}

VARIABLES
    phase,        \* the next phase: "startup", "init", "scan", "done" or "exit"
    chunkSize,    \* chunk_size
    sectorSize,   \* sector_size
    lookupType,   \* lookup_type_string
    query,        \* the query service: "none", "live" or "deleted"
    page,         \* the size of the page last scanned, 0 before the first
    requests,     \* the ids of the hash requests of the last scan
    features      \* the md5 features recorded, as <<page, id>> offsets

vars == <<phase, chunkSize, sectorSize, lookupType, query, page, requests, features>>

\* The request loop: for (i = 0; i + chunk_size <= pagesize; i += chunk_size).
ChunkOffsets(pagesize, chunk) ==
    {i \in 0 .. pagesize : i % chunk = 0 /\ i + chunk <= pagesize}

Init ==
    /\ phase = "startup"
    /\ chunkSize = 8
    /\ sectorSize = 1
    /\ lookupType = "use_path"
    /\ query = "none"
    /\ page = 0
    /\ requests = {}
    /\ features = {}

\* PHASE_STARTUP: get_config may override each option.
Startup ==
    /\ phase = "startup"
    /\ chunkSize' \in ChunkSizes
    /\ sectorSize' \in SectorSizes
    /\ lookupType' \in LookupTypes
    /\ phase' = "init"
    /\ UNCHANGED <<query, page, requests, features>>

\* PHASE_INIT: each invalid option exits; otherwise the query service is
\* created for the path or the socket.
InitPhase ==
    /\ phase = "init"
    /\ IF \/ lookupType \notin ValidLookupTypes
          \/ chunkSize = 0
          \/ sectorSize = 0
          \/ chunkSize % sectorSize # 0
       THEN phase' = "exit" /\ UNCHANGED query
       ELSE phase' = "scan" /\ query' = "live"
    /\ UNCHANGED <<chunkSize, sectorSize, lookupType, page, requests, features>>

\* PHASE_SCAN of one page: hash and request every chunk the loop visits,
\* look them up, and record a feature at each answered id; a failed lookup
\* returns with nothing recorded, and an answer for another chunk size
\* exits.
Scan ==
    /\ phase = "scan"
    /\ \E pagesize \in PageSizes, ok \in BOOLEAN, dbChunk \in DbChunkSizes :
          LET ids == ChunkOffsets(pagesize, chunkSize)
          IN  /\ page' = pagesize
              /\ requests' = ids
              /\ \/ ~ok /\ UNCHANGED <<phase, features>>
                 \/ /\ ok
                    /\ dbChunk # chunkSize
                    /\ phase' = "exit"
                    /\ UNCHANGED features
                 \/ /\ ok
                    /\ dbChunk = chunkSize
                    /\ \E hits \in SUBSET ids :
                          features' = features \cup {<<pagesize, i>> : i \in hits}
                    /\ UNCHANGED phase
    /\ UNCHANGED <<chunkSize, sectorSize, lookupType, query>>

\* PHASE_SHUTDOWN deletes the query service.
Shutdown ==
    /\ phase = "scan"
    /\ query' = "deleted"
    /\ phase' = "done"
    /\ UNCHANGED <<chunkSize, sectorSize, lookupType, page, requests, features>>

Next == Startup \/ InitPhase \/ Scan \/ Shutdown

Spec == Init /\ [][Next]_vars

----------------------------------------------------------------------------
(* Properties                                                              *)

\* The file comment and the sector_size help text: hashes of chunk_size
\* bytes are generated on each sector_size boundary of the page, so a block
\* found in the database at any sector of the image is looked up.
LooksUpEverySector ==
    page # 0 =>
        requests = {i \in 0 .. page : i % sectorSize = 0 /\ i + chunkSize <= page}

=============================================================================
