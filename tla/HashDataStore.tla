---------------------------- MODULE HashDataStore ----------------------------
(***************************************************************************)
(* lmdb_hash_data_manager_t (src/src_libhashdb/lmdb_hash_data_manager.hpp): *)
(* the LMDB hash data store.  One DUPSORT key per block hash; its values    *)
(* are byte strings of three shapes:                                       *)
(*   Type 1  sid, offset index, entropy, label   (the only value of a key) *)
(*   Type 2  0, entropy, label                   (header of a multi entry) *)
(*   Type 3  sid, offset index                   (one source of a multi)   *)
(* LMDB keeps the values of a key sorted by memcmp, so MDB_SET_KEY lands   *)
(* on the least one; insert tells Type 1 from Type 2 by its first byte.    *)
(*                                                                         *)
(* insert runs entirely under the manager's mutex M in one write           *)
(* transaction, and find / find_count read in their own read transaction, *)
(* so each is one atomic step.  Values are real byte strings built with    *)
(* the codec of Varint, so the sort order, the first-byte dispatch and     *)
(* MDB_NODUPDATA equality are those of the code.                           *)
(***************************************************************************)
EXTENDS Naturals, Sequences, FiniteSets, FiniteSetsExt, Varint

CONSTANTS
    Hashes,       \* block hashes; fixed-length keys, ordered as numbers
    SourceIds,    \* source ids offered to insert (the code requires >= 1)
    Offsets,      \* file offsets offered to insert, some not sector aligned
    Entropies,    \* entropy values
    Labels,       \* block labels, as byte sequences
    SectorSize,   \* settings.sector_size
    MaxPairs      \* settings.max_source_offset_pairs; 0 means no limit

ASSUME Hashes \subseteq Nat /\ Hashes # {}
ASSUME SourceIds \subseteq Nat \ {0}
ASSUME Offsets \subseteq Nat /\ Entropies \subseteq Nat
ASSUME \A l \in Labels : l \in Seq(0 .. 255)
ASSUME SectorSize \in Nat \ {0} /\ MaxPairs \in Nat

VARIABLES
    db,        \* db[h]: the set of values stored under key h
    changes,   \* the lmdb_changes_t tallies insert updates
    offered    \* history: the aligned pairs ever offered to insert for h

vars == <<db, changes, offered>>

ChangeFields == {"hash_data_data_inserted", "hash_data_data_same",
                 "hash_data_data_changed", "hash_data_source_inserted",
                 "hash_data_source_already_present",
                 "hash_data_source_at_max", "hash_data_invalid_file_offset"}

----------------------------------------------------------------------------
(* Record encodings: put_type1/2/3 and decode_type1/2/3.                   *)

Enc(n) == Encode(ToU64(n))

\* Mutant: put_type1 storing the byte offset, not the sector index.
EncodeType1Mutant(sid, off, ent, lbl) ==
    Enc(sid) \o Enc(off) \o Enc(ent) \o Enc(Len(lbl)) \o lbl

EncodeType1(sid, off, ent, lbl) ==
    Enc(sid) \o Enc(off \div SectorSize) \o Enc(ent) \o Enc(Len(lbl)) \o lbl

EncodeType2(ent, lbl) == <<0>> \o Enc(ent) \o Enc(Len(lbl)) \o lbl

EncodeType3(sid, off) == Enc(sid) \o Enc(off \div SectorSize)

\* Read the varint fields of a record one after another from position pos;
\* ok is FALSE if one is corrupt.
RECURSIVE FieldsFrom(_, _, _, _)
FieldsFrom(bytes, pos, n, acc) ==
    IF n = 0 THEN [acc EXCEPT !.next = pos]
    ELSE LET d == Decode(bytes, pos)
         IN  FieldsFrom(bytes, d.next, n - 1,
                        [ok   |-> acc.ok /\ d.ok,
                         vals |-> Append(acc.vals, FromU64(d.val)),
                         next |-> 0])

Fields(bytes, pos, n) ==
    FieldsFrom(bytes, pos, n, [ok |-> TRUE, vals |-> <<>>, next |-> 0])

\* decode_type1: the trailing check "read must align to data record" is
\* the ok flag (an assert(0) in the code).
DecodeType1(bytes) ==
    LET f   == Fields(bytes, 1, 4)
        end == f.next + f.vals[4]
    IN  [ok  |-> f.ok /\ end = Len(bytes) + 1,
         sid |-> f.vals[1], off |-> f.vals[2] * SectorSize, ent |-> f.vals[3],
         lbl |-> SubSeq(bytes, f.next, end - 1)]

\* decode_type2: skip the NULL byte.
DecodeType2(bytes) ==
    LET f   == Fields(bytes, 2, 2)
        end == f.next + f.vals[2]
    IN  [ok  |-> f.ok /\ end = Len(bytes) + 1,
         ent |-> f.vals[1], lbl |-> SubSeq(bytes, f.next, end - 1)]

DecodeType3(bytes) ==
    LET f == Fields(bytes, 1, 2)
    IN  [ok |-> f.ok /\ f.next = Len(bytes) + 1,
         sid |-> f.vals[1], off |-> f.vals[2] * SectorSize]

\* Every record insert can write, and its decoding, computed once: TLC
\* evaluates these constant tables at startup, so the decoders are not run
\* again on every state (and on every primed state of the refinement).
AlignedOffsets == {o \in Offsets : o % SectorSize = 0}

Type1Records == {EncodeType1(s, o, e, l) : s \in SourceIds, o \in AlignedOffsets,
                                          e \in Entropies, l \in Labels}
Type2Records == {EncodeType2(e, l) : e \in Entropies, l \in Labels}
Type3Records == {EncodeType3(s, o) : s \in SourceIds, o \in AlignedOffsets}

Type1Of == [r \in Type1Records |-> DecodeType1(r)]
Type2Of == [r \in Type2Records |-> DecodeType2(r)]
Type3Of == [r \in Type3Records |-> DecodeType3(r)]

----------------------------------------------------------------------------
(* The LMDB DUPSORT order: memcmp over the common length, then shorter     *)
(* first.  MDB_SET_KEY positions the cursor on the least value.            *)

RECURSIVE LexLeq(_, _)
LexLeq(a, b) ==
    IF a = <<>> THEN TRUE
    ELSE IF b = <<>> THEN FALSE
    ELSE IF Head(a) # Head(b) THEN Head(a) < Head(b)
    ELSE LexLeq(Tail(a), Tail(b))

\* The position of each record in that order, computed once.
Records == Type1Records \cup Type2Records \cup Type3Records

Rank == [r \in Records |-> Cardinality({q \in Records : LexLeq(q, r)})]

FirstValue(vals) == CHOOSE v \in vals : \A w \in vals : Rank[v] <= Rank[w]

Present(h) == db[h] # {}

\* The dispatch of insert, find and find_count on the first data byte.
IsType2Key(h) == FirstValue(db[h])[1] = 0

\* Which source tally an insert records: at max wins over already present.
\* Mutant: MDB_KEYEXIST ignored, every put not at max counted as inserted.
SourceTallyMutant(at_max, present) ==
    IF at_max THEN "hash_data_source_at_max" ELSE "hash_data_source_inserted"

SourceTally(at_max, present) ==
    IF at_max THEN "hash_data_source_at_max"
    ELSE IF present THEN "hash_data_source_already_present"
    ELSE "hash_data_source_inserted"

DataTally(data_same) ==
    IF data_same THEN "hash_data_data_same" ELSE "hash_data_data_changed"

Tally(c, fields) == [f \in ChangeFields |-> c[f] + (IF f \in fields THEN 1 ELSE 0)]

----------------------------------------------------------------------------
(* insert(binary_hash, source_id, file_offset, entropy, block_label).      *)
(* Each branch of the code is one action; all take the same inputs.       *)

\* An offset that is not a multiple of sector_size is tallied and rejected
\* before the mutex is taken.
InsertInvalidOffset(h, sid, off, ent, lbl) ==
    /\ off % SectorSize # 0
    /\ changes' = Tally(changes, {"hash_data_invalid_file_offset"})
    /\ UNCHANGED db

\* MDB_NOTFOUND: write a Type 1 record.
InsertNew(h, sid, off, ent, lbl) ==
    /\ off % SectorSize = 0
    /\ ~Present(h)
    /\ db' = [db EXCEPT ![h] = {EncodeType1(sid, off, ent, lbl)}]
    /\ changes' = Tally(changes, {"hash_data_data_inserted",
                                  "hash_data_source_inserted"})

Promoted(p, sid, off, ent, lbl) ==
    {EncodeType2(ent, lbl), EncodeType3(p.sid, p.off), EncodeType3(sid, off)}

\* Mutant: the source compared on its id alone.
SourceSameMutant(sid, off, p) == sid = p.sid

\* source_same of the Type 1 branch.
SourceSame(sid, off, p) == sid = p.sid /\ off = p.off

\* The existing entry is Type 1: keep it, rewrite it with the new data, or
\* replace it by a Type 2 header and two Type 3 records.
InsertOnType1(h, sid, off, ent, lbl) ==
    /\ off % SectorSize = 0
    /\ Present(h)
    /\ ~IsType2Key(h)
    /\ LET v           == FirstValue(db[h])
           p           == Type1Of[v]
           source_same == SourceSame(sid, off, p)
           data_same   == ent = p.ent /\ lbl = p.lbl
           at_max      == MaxPairs # 0 /\ 1 >= MaxPairs
       IN  /\ changes' = Tally(changes, {DataTally(data_same),
                                         SourceTally(at_max, source_same)})
           /\ db' = [db EXCEPT ![h] =
                 IF (source_same \/ at_max) /\ data_same THEN @
                 ELSE IF source_same \/ at_max
                 THEN (@ \ {v}) \cup {EncodeType1(sid, off, ent, lbl)}
                 ELSE (@ \ {v}) \cup Promoted(p, sid, off, ent, lbl)]

\* Mutant: the header deleted with MDB_NODUPDATA, which removes every
\* value of the key, the Type 3 records with it.
WithDataMutant(vals, v, data_same, ent, lbl) ==
    IF data_same THEN vals ELSE {EncodeType2(ent, lbl)}

\* The values of a Type 2 key after "check data and maybe change it":
\* delete_cursor_entry removes the header v, put_type2 writes the new one.
WithData(vals, v, data_same, ent, lbl) ==
    IF data_same THEN vals ELSE (vals \ {v}) \cup {EncodeType2(ent, lbl)}

\* Mutant: the cap test off by one.
AtMaxType2Mutant(count) == count > MaxPairs

\* The cap test of the Type 2 branch; unlike the Type 1 branch it has no
\* max_id_offset_pairs != 0 guard.
AtMaxType2(count) == count >= MaxPairs

\* The existing entry is Type 2: count the Type 3 records before any
\* change, rewrite the header if the data differ, then add the source
\* unless the count has reached max_id_offset_pairs.  MDB_NODUPDATA makes
\* the put of an existing Type 3 a no-op reported as MDB_KEYEXIST.
InsertOnType2(h, sid, off, ent, lbl) ==
    /\ off % SectorSize = 0
    /\ Present(h)
    /\ IsType2Key(h)
    /\ LET v         == FirstValue(db[h])
           count     == Cardinality(db[h]) - 1
           p         == Type2Of[v]
           data_same == ent = p.ent /\ lbl = p.lbl
           withData  == WithData(db[h], v, data_same, ent, lbl)
           t3        == EncodeType3(sid, off)
           at_max    == AtMaxType2(count)
       IN  /\ changes' = Tally(changes, {DataTally(data_same),
                                         SourceTally(at_max, t3 \in withData)})
           /\ db' = [db EXCEPT ![h] = IF at_max THEN withData
                                      ELSE withData \cup {t3}]

----------------------------------------------------------------------------
(* Readers: find, find_count, find_begin, find_next.  They change nothing, *)
(* so they are operators over the current state.                           *)

\* find over the values vals of one key: not found gives entropy 0 and an
\* empty label; Type 1 gives one pair; Type 2 gives its data and the pair
\* of every Type 3 after it.
FindIn(vals) ==
    IF vals = {}
    THEN [found |-> FALSE, ent |-> 0, lbl |-> <<>>, pairs |-> {}]
    ELSE LET v == FirstValue(vals)
         IN  IF v[1] # 0
             THEN LET p == Type1Of[v]
                  IN  [found |-> TRUE, ent |-> p.ent, lbl |-> p.lbl,
                       pairs |-> {<<p.sid, p.off>>}]
             ELSE LET p == Type2Of[v]
                  IN  [found |-> TRUE, ent |-> p.ent, lbl |-> p.lbl,
                       pairs |-> {<<Type3Of[w].sid, Type3Of[w].off>> :
                                     w \in vals \ {v}}]

Find(h) == FindIn(db[h])

\* Mutant: find_count forgets to subtract the Type 2 header.
FindCountMutant(h) ==
    IF ~Present(h) THEN 0
    ELSE IF FirstValue(db[h])[1] # 0 THEN 1 ELSE Cardinality(db[h])

\* find_count: 0, 1 for Type 1, else the cursor count less the header.
FindCount(h) ==
    IF ~Present(h) THEN 0
    ELSE IF FirstValue(db[h])[1] # 0 THEN 1 ELSE Cardinality(db[h]) - 1

\* find_begin: MDB_FIRST; NoHash when the store is empty.
NoHash == CHOOSE n : n \notin Hashes

\* Mutant: find_begin positions with MDB_LAST instead of MDB_FIRST.
FindBeginMutant ==
    LET keys == {h \in Hashes : Present(h)}
    IN  IF keys = {} THEN NoHash ELSE Max(keys)

FindBegin ==
    LET keys == {h \in Hashes : Present(h)}
    IN  IF keys = {} THEN NoHash ELSE Min(keys)

\* Mutant: find_next moves with MDB_NEXT, which from the first duplicate
\* of a key with several lands on its second duplicate, the same key.
FindNextMutant(last) ==
    IF Cardinality(db[last]) > 1 THEN last
    ELSE LET keys == {h \in Hashes : Present(h) /\ h > last}
         IN  IF keys = {} THEN NoHash ELSE Min(keys)

\* find_next(last): MDB_SET_KEY on last, then MDB_NEXT_NODUP.
FindNext(last) ==
    LET keys == {h \in Hashes : Present(h) /\ h > last}
    IN  IF keys = {} THEN NoHash ELSE Min(keys)

----------------------------------------------------------------------------

Init ==
    /\ db = [h \in Hashes |-> {}]
    /\ changes = [f \in ChangeFields |-> 0]
    /\ offered = [h \in Hashes |-> {}]

\* One call of insert; offered records the pair of every call that passes
\* the offset check.
Insert(h, sid, off, ent, lbl) ==
    /\ \/ InsertInvalidOffset(h, sid, off, ent, lbl)
       \/ InsertNew(h, sid, off, ent, lbl)
       \/ InsertOnType1(h, sid, off, ent, lbl)
       \/ InsertOnType2(h, sid, off, ent, lbl)
    /\ offered' = IF off % SectorSize = 0
                  THEN [offered EXCEPT ![h] = @ \cup {<<sid, off>>}]
                  ELSE offered

Next ==
    \E h \in Hashes, sid \in SourceIds, off \in Offsets, ent \in Entropies,
       lbl \in Labels : Insert(h, sid, off, ent, lbl)

Spec == Init /\ [][Next]_vars

----------------------------------------------------------------------------
(* Properties.                                                             *)

\* Every key decodes to pairs of the source ids and offsets inserted.
TypeOK ==
    /\ changes \in [ChangeFields -> Nat]
    /\ \A h \in Hashes : Find(h).pairs \subseteq SourceIds \X Offsets

FindCountAgrees == \A h \in Hashes : FindCount(h) = Cardinality(Find(h).pairs)

\* The tallies insert records agree with the store: every pair stored was
\* tallied as hash_data_source_inserted once, every key as
\* hash_data_data_inserted once.
TallyAccounting ==
    /\ changes["hash_data_source_inserted"] =
           MapThenSumSet(LAMBDA h : Cardinality(Find(h).pairs), Hashes)
    /\ changes["hash_data_data_inserted"] = Cardinality({h \in Hashes : Present(h)})

\* find returns exactly the distinct pairs offered for a hash, clipped to
\* max_source_offset_pairs when that is not 0 (spec.md section 8): the
\* cap test of the Type 1 and Type 2 branches of insert refuses a pair only
\* when the key really holds the cap.
FindMatchesOffered ==
    \A h \in Hashes :
        /\ Find(h).pairs \subseteq offered[h]
        /\ Cardinality(Find(h).pairs) =
               IF MaxPairs = 0 THEN Cardinality(offered[h])
               ELSE Min({MaxPairs, Cardinality(offered[h])})

\* A pair once stored under a hash is never dropped by a later insert.
SourcesNeverLost ==
    [][\A h \in Hashes : Find(h).pairs \subseteq FindIn(db'[h]).pairs]_db

\* The store implements HashStoreAbstract: decoding every key with find
\* gives a store that changes only as the spec's insert allows.
AbstractStore == [h \in Hashes |-> [ent   |-> Find(h).ent,
                                     lbl   |-> Find(h).lbl,
                                     pairs |-> Find(h).pairs]]

Abs == INSTANCE HashStoreAbstract WITH store <- AbstractStore

ImplementsAbstract == Abs!Spec

=============================================================================
