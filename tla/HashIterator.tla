----------------------------- MODULE HashIterator -----------------------------
(***************************************************************************)
(* A reader walking the hash data store with find_begin and find_next      *)
(* (lmdb_hash_data_manager.hpp), as every database command does through    *)
(* hash_begin / hash_next (commands.hpp), while a writer thread inserts.   *)
(* Each find_begin and find_next opens its own read transaction, so each   *)
(* step sees the store between two inserts (spec.md 5: many readers and    *)
(* one writer, snapshot reads); between two steps the reader holds only    *)
(* the last hash it was given.                                             *)
(***************************************************************************)
EXTENDS Naturals, FiniteSets

CONSTANTS Hashes, SourceIds, Offsets, Entropies, Labels, SectorSize, MaxPairs,
          MaxCalls  \* the inserts the writer makes

VARIABLES
    db, changes, offered,  \* the store, as in HashDataStore
    rpc,        \* the reader: "begin", "walk" or "done"
    last,       \* the hash the reader was last given, or NoHash
    visited,    \* the hashes the reader has handled
    startKeys   \* the keys present when find_begin ran

S == INSTANCE HashDataStore

storeVars == <<db, changes, offered>>
readerVars == <<rpc, last, visited, startKeys>>
vars == <<storeVars, readerVars>>

\* The insert calls made so far; each records one data tally.
Calls ==
    changes["hash_data_data_inserted"] + changes["hash_data_data_same"]
    + changes["hash_data_data_changed"] + changes["hash_data_invalid_file_offset"]

Init ==
    /\ S!Init
    /\ rpc = "begin"
    /\ last = S!NoHash
    /\ visited = {}
    /\ startKeys = {}

\* One insert call by the writer thread.
Write ==
    /\ Calls < MaxCalls
    /\ \E h \in Hashes, sid \in SourceIds, off \in Offsets, ent \in Entropies,
          lbl \in Labels : S!Insert(h, sid, off, ent, lbl)
    /\ UNCHANGED readerVars

\* pair = hash_begin()
ReaderBegin ==
    /\ rpc = "begin"
    /\ last' = S!FindBegin
    /\ startKeys' = {h \in Hashes : S!Present(h)}
    /\ rpc' = "walk"
    /\ UNCHANGED <<visited, storeVars>>

\* Mutant: the loop calls hash_begin again instead of hash_next.
ReaderNextMutant ==
    /\ rpc = "walk"
    /\ last # S!NoHash
    /\ visited' = visited \cup {last}
    /\ last' = S!FindBegin
    /\ UNCHANGED <<rpc, startKeys, storeVars>>

\* One turn of while (pair.first): handle the hash, then hash_next.
ReaderNext ==
    /\ rpc = "walk"
    /\ last # S!NoHash
    /\ visited' = visited \cup {last}
    /\ last' = S!FindNext(last)
    /\ UNCHANGED <<rpc, startKeys, storeVars>>

ReaderEnd ==
    /\ rpc = "walk"
    /\ last = S!NoHash
    /\ rpc' = "done"
    /\ UNCHANGED <<last, visited, startKeys, storeVars>>

ReaderStep == ReaderBegin \/ ReaderNext \/ ReaderEnd

Next == Write \/ ReaderStep

\* The reader thread runs its loop without waiting on anything; the
\* writer's inserts are client calls that need not happen.
Spec == Init /\ [][Next]_vars /\ WF_vars(ReaderStep)

----------------------------------------------------------------------------
(* Properties                                                              *)

\* Whatever the writer did between two steps, the hash find_next hands
\* the reader is above every hash it has handled: the walk never goes back
\* or repeats a hash.
WalkAhead == rpc = "walk" /\ last # S!NoHash => \A v \in visited : v < last

\* A walk that ends has handled every hash that was present when it began:
\* keys are never deleted, and the store's Type 1 to Type 2 rewrites of a
\* key do not make find_next skip it.
VisitsAllPresentAtBegin == rpc = "done" => startKeys \subseteq visited

\* The walk ends, however the writer's inserts interleave with it.
Terminates == <>(rpc = "done")

=============================================================================
