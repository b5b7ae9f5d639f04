-------------------------- MODULE HashStoreAbstract --------------------------
(***************************************************************************)
(* What the hash data store promises (spec.md sections 3, 4.3.1 and 8),    *)
(* with no record types: each block hash has its latest metadata and the   *)
(* set of (source id, file offset) pairs inserted for it, clipped to       *)
(* max_source_offset_pairs when that is not 0.  An insert with an offset   *)
(* that is not sector aligned changes nothing.  A hash never inserted has  *)
(* no pairs, entropy 0 and an empty label, as find reports it.             *)
(***************************************************************************)
EXTENDS Naturals, Sequences, FiniteSets

CONSTANTS Hashes, SourceIds, Offsets, Entropies, Labels, SectorSize, MaxPairs

VARIABLE store

Entry == [ent : Entropies \cup {0}, lbl : Labels \cup {<<>>},
          pairs : SUBSET (SourceIds \X Offsets)]

Init == store = [h \in Hashes |-> [ent |-> 0, lbl |-> <<>>, pairs |-> {}]]

\* A pair is kept if it is already there or the cap leaves room for it.
Admits(pairs, pair) ==
    pair \in pairs \/ MaxPairs = 0 \/ Cardinality(pairs) < MaxPairs

\* One insert taking the store from s to t.
Insert(s, t, h, sid, off, ent, lbl) ==
    \/ /\ off % SectorSize # 0
       /\ t = s
    \/ /\ off % SectorSize = 0
       /\ t = [s EXCEPT ![h] =
             [ent |-> ent, lbl |-> lbl,
              pairs |-> IF Admits(@.pairs, <<sid, off>>)
                        THEN @.pairs \cup {<<sid, off>>} ELSE @.pairs]]

Step(s, t) ==
    \E h \in Hashes, sid \in SourceIds, off \in Offsets, ent \in Entropies,
       lbl \in Labels : Insert(s, t, h, sid, off, ent, lbl)

Next == Step(store, store')

Spec == Init /\ [][Next]_store

=============================================================================
