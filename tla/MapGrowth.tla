------------------------------ MODULE MapGrowth ------------------------------
(***************************************************************************)
(* Growth of the LMDB map behind the hash data store.  Under the write     *)
(* mutex, lmdb_hash_data_manager_t::insert calls lmdb_helper::maybe_grow   *)
(* (src/src/lmdb_helper.h) and then writes its records.  maybe_grow        *)
(* doubles the map size when mapsize / page size equals last_pgno + 2,     *)
(* i.e. when exactly one page is left.  A write that needs pages past the  *)
(* end of the map fails with MDB_MAP_FULL, and insert asserts on any       *)
(* failed put.                                                             *)
(*                                                                         *)
(* The map is counted in pages: pages = me_mapsize / ms_psize, and         *)
(* lastPgno = me_last_pgno, the highest page in use (pages 0 and 1 are     *)
(* the meta pages of a new environment).  How many new pages one insert    *)
(* takes depends on copy-on-write and page splits inside LMDB; the model   *)
(* lets it take any number up to PagesPerInsert, reused pages included.    *)
(***************************************************************************)
EXTENDS Naturals

CONSTANTS
    InitPages,       \* the map size of a new store, in pages
    PagesPerInsert,  \* the most new pages one insert can take
    MaxInserts       \* the inserts checked

ASSUME InitPages \in Nat /\ InitPages >= 3
ASSUME PagesPerInsert \in Nat /\ MaxInserts \in Nat

VARIABLES
    pages,     \* me_mapsize / ms_psize
    lastPgno,  \* me_last_pgno
    inserts,   \* the inserts done
    aborted    \* an insert hit MDB_MAP_FULL and asserted

vars == <<pages, lastPgno, inserts, aborted>>

\* maybe_grow: the map size after the test, in pages.
MaybeGrow(p, last) == IF p = last + 2 THEN 2 * p ELSE p

Init ==
    /\ pages = InitPages
    /\ lastPgno = 1
    /\ inserts = 0
    /\ aborted = FALSE

\* One insert: maybe_grow, then a write taking k new pages.
Insert ==
    /\ ~aborted
    /\ inserts < MaxInserts
    /\ inserts' = inserts + 1
    /\ pages' = MaybeGrow(pages, lastPgno)
    /\ \E k \in 0..PagesPerInsert :
          IF lastPgno + k <= pages' - 1
          THEN lastPgno' = lastPgno + k /\ aborted' = FALSE
          ELSE aborted' = TRUE /\ UNCHANGED lastPgno

Next == Insert

Spec == Init /\ [][Next]_vars

----------------------------------------------------------------------------
(* Properties                                                              *)

\* No insert fails for want of map space: maybe_grow always doubles the
\* map before the writes after it can run past its end.
NeverMapFull == ~aborted

=============================================================================
