----------------------------- MODULE MapMultimap -----------------------------
(***************************************************************************)
(* map_multimap_manager_t (src/src/map_multimap_manager.hpp), the legacy   *)
(* store that treats a map, a multimap and a Bloom filter as one database. *)
(* A key with one source keeps its pay in the map; a key with n >= 2       *)
(* sources keeps the count n in the map and the pays in the multimap.      *)
(*                                                                         *)
(* The file calls members it does not declare (multimap.erase, map_replace,*)
(* equal_range, multimap.has_range, map.has); each is read as the          *)
(* map_manager / multimap_manager call its name and arguments give.        *)
(* multimap_manager.emplace refuses a (key, pay) pair already there, as    *)
(* its bool result and the "multimap emplace failure" throw imply.  A      *)
(* throw ends the call and keeps what it had already changed; fault        *)
(* records how the last call ended.                                        *)
(***************************************************************************)
EXTENDS Naturals, FiniteSets, FiniteSetsExt

CONSTANTS
    Keys,          \* hash values T
    Pays,          \* source lookup encodings of one source, as numbers
    Ops,           \* the operations the client calls
    EmplaceFresh   \* TRUE: the client never emplaces a pair already stored

ASSUME Pays \subseteq Nat
ASSUME Ops \subseteq {"emplace", "remove", "remove_key"}
ASSUME EmplaceFresh \in BOOLEAN

VARIABLES
    map,        \* map[k]: Absent, or a source lookup encoding [count, pay]
    multimap,   \* multimap[k]: the pays stored for k
    bloom,      \* the keys the Bloom filter answers positive for
    changes,    \* the hashdb_changes_t tallies
    fault       \* how the last call ended

vars == <<map, multimap, bloom, changes, fault>>

Faults == {"none", "multimap emplace failure",
           "multimap erase failure", "corrupted multimap state failure",
           "undefined behaviour"}

Absent == [count |-> 0, pay |-> 0]

\* get_source_lookup_encoding(n) for n >= 2 keeps only the count.
CountEncoding(n) == [count |-> n, pay |-> 0]

One(p) == [count |-> 1, pay |-> p]

ChangeFields == {"hashes_inserted", "hashes_removed",
                 "hashes_not_removed_no_element", "hashes_not_removed_no_key"}

Bump(f, n) == [changes EXCEPT ![f] = @ + n]

----------------------------------------------------------------------------
(* emplace(key, source_lookup_encoding)                                    *)

\* Adding a key sets bits that may also make other keys test positive;
\* bits are never cleared, so a positive answer stays positive.
AddHashValue(k) == \E extra \in SUBSET Keys : bloom' = bloom \cup {k} \cup extra

\* The Bloom filter says no: add the key to it and to the map.
EmplaceNew(k, p) ==
    /\ k \notin bloom
    /\ AddHashValue(k)
    /\ map' = [map EXCEPT ![k] = One(p)]
    /\ changes' = Bump("hashes_inserted", 1)
    /\ fault' = "none"
    /\ UNCHANGED multimap

\* The filter says yes, truly or falsely, and the key is not in the map;
\* the filter is left as it is.
EmplacePositiveAbsent(k, p) ==
    /\ k \in bloom
    /\ map[k] = Absent
    /\ map' = [map EXCEPT ![k] = One(p)]
    /\ changes' = Bump("hashes_inserted", 1)
    /\ fault' = "none"
    /\ UNCHANGED <<multimap, bloom>>

\* Mutant: the count is written over the old encoding, whose pay stays.
EmplaceSecondMutant(k, p) ==
    /\ k \in bloom
    /\ map[k].count = 1
    /\ map' = [map EXCEPT ![k].count = 2]
    /\ multimap' = [multimap EXCEPT ![k] = {map[k].pay, p}]
    /\ IF p = map[k].pay
       THEN fault' = "multimap emplace failure" /\ UNCHANGED changes
       ELSE fault' = "none" /\ changes' = Bump("hashes_inserted", 1)
    /\ UNCHANGED bloom

\* Count 1: move the map's pay to the multimap, set the count to 2, then
\* add the new pay, which throws when it equals the moved one.
EmplaceSecond(k, p) ==
    /\ k \in bloom
    /\ map[k].count = 1
    /\ map' = [map EXCEPT ![k] = CountEncoding(2)]
    /\ multimap' = [multimap EXCEPT ![k] = {map[k].pay, p}]
    /\ IF p = map[k].pay
       THEN fault' = "multimap emplace failure" /\ UNCHANGED changes
       ELSE fault' = "none" /\ changes' = Bump("hashes_inserted", 1)
    /\ UNCHANGED bloom

\* Count n > 1: set the count to n + 1, then add the pay to the multimap,
\* which throws when it is already there.
EmplaceMore(k, p) ==
    /\ k \in bloom
    /\ map[k].count > 1
    /\ map' = [map EXCEPT ![k] = CountEncoding(map[k].count + 1)]
    /\ multimap' = [multimap EXCEPT ![k] = @ \cup {p}]
    /\ IF p \in multimap[k]
       THEN fault' = "multimap emplace failure" /\ UNCHANGED changes
       ELSE fault' = "none" /\ changes' = Bump("hashes_inserted", 1)
    /\ UNCHANGED bloom

----------------------------------------------------------------------------
(* remove(key, source_lookup_encoding)                                     *)

\* No key, or a pay that is in neither the map nor the multimap.
RemoveNoElement(k, p) ==
    /\ \/ map[k] = Absent
       \/ map[k].count = 1 /\ map[k].pay # p
       \/ map[k].count > 1 /\ p \notin multimap[k]
    /\ changes' = Bump("hashes_not_removed_no_element", 1)
    /\ fault' = "none"
    /\ UNCHANGED <<map, multimap, bloom>>

\* Count 1 and the pay matches: erase the key from the map.
RemoveOne(k, p) ==
    /\ map[k] = One(p)
    /\ map' = [map EXCEPT ![k] = Absent]
    /\ changes' = Bump("hashes_removed", 1)
    /\ fault' = "none"
    /\ UNCHANGED <<multimap, bloom>>

\* Mutant: the map_replace is missed, so the surviving pay is only erased.
MoveLastToMapDropMutant(k, rest) ==
    IF rest = {}
    THEN /\ multimap' = [multimap EXCEPT ![k] = rest]
         /\ fault' = "undefined behaviour"
         /\ UNCHANGED map
    ELSE /\ multimap' = [multimap EXCEPT ![k] = rest \ {Min(rest)}]
         /\ fault' = IF rest \ {Min(rest)} = {} THEN "none"
                     ELSE "corrupted multimap state failure"
         /\ UNCHANGED map

\* Mutant: the moved pay is left in the multimap as well.
MoveLastToMapMutant(k, rest) ==
    IF rest = {}
    THEN /\ multimap' = [multimap EXCEPT ![k] = rest]
         /\ fault' = "undefined behaviour"
         /\ UNCHANGED map
    ELSE /\ map' = [map EXCEPT ![k] = One(Min(rest))]
         /\ multimap' = [multimap EXCEPT ![k] = rest]
         /\ fault' = "none"

\* After the erase, the first remaining pay of the key replaces the count
\* in the map and is erased from the multimap; if pays remain after that,
\* the has_range check throws.  With none left, equal_range.first is the
\* end iterator and dereferencing it is undefined.
MoveLastToMap(k, rest) ==
    IF rest = {}
    THEN /\ multimap' = [multimap EXCEPT ![k] = rest]
         /\ fault' = "undefined behaviour"
         /\ UNCHANGED map
    ELSE /\ map' = [map EXCEPT ![k] = One(Min(rest))]
         /\ multimap' = [multimap EXCEPT ![k] = rest \ {Min(rest)}]
         /\ fault' = IF rest \ {Min(rest)} = {} THEN "none"
                     ELSE "corrupted multimap state failure"

\* Count 2 and the pay is in the multimap.
RemoveTwo(k, p) ==
    /\ map[k].count = 2
    /\ p \in multimap[k]
    /\ changes' = Bump("hashes_removed", 1)
    /\ MoveLastToMap(k, multimap[k] \ {p})
    /\ UNCHANGED bloom

\* Count > 2: erase the pay from the multimap; the count in the map is
\* left as it was.
RemoveMore(k, p) ==
    /\ map[k].count > 2
    /\ p \in multimap[k]
    /\ multimap' = [multimap EXCEPT ![k] = @ \ {p}]
    /\ changes' = Bump("hashes_removed", 1)
    /\ fault' = "none"
    /\ UNCHANGED <<map, bloom>>

----------------------------------------------------------------------------
(* remove_key(key)                                                         *)

RemoveKeyNoKey(k) ==
    /\ map[k] = Absent
    /\ changes' = Bump("hashes_not_removed_no_key", 1)
    /\ fault' = "none"
    /\ UNCHANGED <<map, multimap, bloom>>

\* Count 1 erases the map entry; a larger count erases the key's pays from
\* the multimap, which throws when it has none, and leaves the map entry.
\* A call that does not throw tallies the count as removed.
RemoveKeyPresent(k) ==
    /\ map[k] # Absent
    /\ \/ /\ map[k].count = 1
          /\ map' = [map EXCEPT ![k] = Absent]
          /\ UNCHANGED multimap
       \/ /\ map[k].count > 1
          /\ multimap[k] # {}
          /\ multimap' = [multimap EXCEPT ![k] = {}]
          /\ UNCHANGED map
    /\ changes' = Bump("hashes_removed", map[k].count)
    /\ fault' = "none"
    /\ UNCHANGED bloom

RemoveKeyEraseFailure(k) ==
    /\ map[k].count > 1
    /\ multimap[k] = {}
    /\ fault' = "multimap erase failure"
    /\ UNCHANGED <<map, multimap, bloom, changes>>

----------------------------------------------------------------------------

\* has_key: false on a negative from the filter, else the map decides.
HasKey(k) == k \in bloom /\ map[k] # Absent

\* The pays a reader can get back for a key.
Stored(k) == multimap[k] \cup (IF map[k].count = 1 THEN {map[k].pay} ELSE {})

Init ==
    /\ map = [k \in Keys |-> Absent]
    /\ multimap = [k \in Keys |-> {}]
    /\ bloom = {}
    /\ changes = [f \in ChangeFields |-> 0]
    /\ fault = "none"

Emplace(k, p) ==
    /\ "emplace" \in Ops
    /\ EmplaceFresh => p \notin Stored(k)
    /\ \/ EmplaceNew(k, p)
       \/ EmplacePositiveAbsent(k, p)
       \/ EmplaceSecond(k, p)
       \/ EmplaceMore(k, p)

Remove(k, p) ==
    /\ "remove" \in Ops
    /\ \/ RemoveNoElement(k, p)
       \/ RemoveOne(k, p)
       \/ RemoveTwo(k, p)
       \/ RemoveMore(k, p)

RemoveKey(k) ==
    /\ "remove_key" \in Ops
    /\ \/ RemoveKeyNoKey(k)
       \/ RemoveKeyPresent(k)
       \/ RemoveKeyEraseFailure(k)

Next ==
    \E k \in Keys :
        \/ \E p \in Pays : Emplace(k, p) \/ Remove(k, p)
        \/ RemoveKey(k)

Spec == Init /\ [][Next]_vars

----------------------------------------------------------------------------
(* Properties                                                              *)

TypeOK ==
    /\ \A k \in Keys :
          \/ map[k] = Absent
          \/ \E p \in Pays : map[k] = One(p)
          \/ map[k].count \in Nat /\ map[k] = CountEncoding(map[k].count)
                                 /\ map[k].count >= 2
    /\ multimap \in [Keys -> SUBSET Pays]
    /\ bloom \subseteq Keys
    /\ changes \in [ChangeFields -> Nat]
    /\ fault \in Faults

\* No call loses a pay it was not asked to remove: emplace keeps every pay
\* a reader could get back for the key, remove(k, p) keeps all but p, and
\* other keys are untouched, across the moves of a pay from the map to
\* the multimap (count 1 to 2) and back (count 2 to 1).
PaysKept ==
    [][\A k \in Keys, p \in Pays :
          /\ Emplace(k, p) => Stored(k) \subseteq Stored(k)'
          /\ Remove(k, p)  => Stored(k) \ {p} \subseteq Stored(k)'
          /\ Emplace(k, p) \/ Remove(k, p) =>
                \A j \in Keys \ {k} : Stored(j)' = Stored(j)]_vars

\* The multimap holds pays only for a key whose map entry is a count of at
\* least 2: remove moves the last pay back into the map when the count
\* drops to 1, and remove_key empties the multimap.
MultimapOnlyUnderCount ==
    \A k \in Keys : multimap[k] # {} => map[k].count >= 2

\* The map entry reflects what is stored for the key: its count is the
\* number of pays a reader gets back (1 for a map-held pay, the multimap's
\* size otherwise), and has_key answers whether there is any.
MapReflectsStored ==
    \A k \in Keys :
        /\ map[k].count = Cardinality(Stored(k))
        /\ HasKey(k) <=> Stored(k) # {}

=============================================================================
