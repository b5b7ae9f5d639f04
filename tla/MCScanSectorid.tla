---------------------------- MODULE MCScanSectorid ----------------------------
(***************************************************************************)
(* Sizes in units of 512 bytes: the default chunk of 4096 bytes is 8 and   *)
(* the default sector is 1.  Pages of 4 and 16 sectors hold several chunks *)
(* of 2 sectors and two of 8; each invalid option value is offered once.   *)
(***************************************************************************)
EXTENDS ScanSectorid

MCChunkSizes   == {0, 2, 3, 8}
MCSectorSizes  == {0, 1, 2}
MCLookupTypes  == {"use_path", "use_socket", "use_pipe"}
MCPageSizes    == {4, 16}
MCDbChunkSizes == {2, 8}
=============================================================================
