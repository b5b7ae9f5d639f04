----------------------------- MODULE AddMultiple -----------------------------
(***************************************************************************)
(* The add_multiple command (src/src/commands.hpp): a k-way merge of the   *)
(* sorted hash streams of several databases into one destination.  Each    *)
(* producer that has a hash is kept in a std::multimap keyed by its        *)
(* current hash; the loop takes the first entry, calls adder->add for its  *)
(* hash, asks the producer for hash_next, erases the entry and re-inserts  *)
(* the producer under its next hash while it has one.                      *)
(*                                                                         *)
(* std::multimap::insert places a new element after the elements with an   *)
(* equal key, so ordered_producers is a sequence sorted by hash in which   *)
(* equal hashes keep their insertion order.  A producer's database is the  *)
(* set of hashes it holds; what adder->add copies is abstracted to the     *)
(* call itself, recorded in the history adds.                              *)
(***************************************************************************)
EXTENDS Naturals, Sequences, SequencesExt, FiniteSets, FiniteSetsExt

CONSTANTS
    Hashes,      \* block hashes, ordered as their bytes are
    NProducers   \* the number of source databases given on the command line

ASSUME Hashes \subseteq Nat /\ NProducers \in Nat \ {0}

Producers == 1..NProducers

VARIABLES
    hashes,      \* hashes[i]: the hashes held by producer i's database
    dirsValid,   \* every source directory and the destination are usable
    pc,          \* "validate", "open", "merge", "done" or "exit"
    opened,      \* the next producer of the open loop
    ordered,     \* ordered_producers: a sequence of <<hash, producer>>
    adds         \* the adder->add calls made, as <<hash, producer>>

vars == <<hashes, dirsValid, pc, opened, ordered, adds>>

\* scan_manager hash_begin / hash_next: the least hash, or the least hash
\* above last; {} stands for the (false, "") answer at the end.
HashBegin(i) == IF hashes[i] = {} THEN {} ELSE {Min(hashes[i])}

\* Mutant: the next hash is looked up past last + 1.
HashNextMutant(i, last) ==
    LET later == {h \in hashes[i] : h > last + 1}
    IN  IF later = {} THEN {} ELSE {Min(later)}

HashNext(i, last) ==
    LET later == {h \in hashes[i] : h > last}
    IN  IF later = {} THEN {} ELSE {Min(later)}

\* Mutant: entries are appended as to a FIFO queue.
InsertOrderedMutant(q, e) == Append(q, e)

\* multimap insert: after every entry whose hash is not above e's hash.
InsertOrdered(q, e) ==
    InsertAt(q, Len(SelectSeq(q, LAMBDA x : x[1] <= e[1])) + 1, e)

\* Enqueue producer i under the hash in found, if any.
Enqueue(q, found, i) ==
    IF found = {} THEN q ELSE InsertOrdered(q, <<CHOOSE h \in found : TRUE, i>>)

----------------------------------------------------------------------------

Init ==
    /\ hashes \in [Producers -> SUBSET Hashes]
    /\ dirsValid \in BOOLEAN
    /\ pc = "validate"
    /\ opened = 1
    /\ ordered = <<>>
    /\ adds = <<>>

\* require_hashdb_dir on every source and create_if_new on the destination
\* exit the program on the first directory that cannot be read or made.
Validate ==
    /\ pc = "validate"
    /\ pc' = IF dirsValid THEN "open" ELSE "exit"
    /\ UNCHANGED <<hashes, dirsValid, opened, ordered, adds>>

\* Open producer i: enqueue it under its first hash, or close it.
OpenProducer ==
    /\ pc = "open"
    /\ ordered' = Enqueue(ordered, HashBegin(opened), opened)
    /\ opened' = opened + 1
    /\ pc' = IF opened = NProducers THEN "merge" ELSE "open"
    /\ UNCHANGED <<hashes, dirsValid, adds>>

\* One turn of the merge loop.
Consume ==
    /\ pc = "merge"
    /\ ordered # <<>>
    /\ LET e == Head(ordered)
       IN  /\ adds' = Append(adds, e)
           /\ ordered' = Enqueue(Tail(ordered), HashNext(e[2], e[1]), e[2])
    /\ UNCHANGED <<hashes, dirsValid, pc, opened>>

Finish ==
    /\ pc = "merge"
    /\ ordered = <<>>
    /\ pc' = "done"
    /\ UNCHANGED <<hashes, dirsValid, opened, ordered, adds>>

Next == Validate \/ OpenProducer \/ Consume \/ Finish

Spec == Init /\ [][Next]_vars

----------------------------------------------------------------------------
(* Properties                                                              *)

\* The destination receives hashes in ascending order, as the per-database
\* commands do: the multimap keeps the producers sorted by their current
\* hash and a producer is re-queued only under a larger one.
AddsSorted == IsSorted(adds, LAMBDA x, y : x[1] <= y[1])

\* When the merge ends, adder->add has been called exactly once for every
\* hash of every producer: no producer is dropped or revisited.
AddsEachOnce ==
    pc = "done" =>
        /\ ToSet(adds) = {<<h, i>> \in Hashes \X Producers : h \in hashes[i]}
        /\ IsInjective(adds)

\* spec.md 4.8: producers that share a hash are added in producer order.
TieByProducerIndex ==
    \A j \in 1..Len(adds) - 1 :
        adds[j][1] = adds[j + 1][1] => adds[j][2] < adds[j + 1][2]

=============================================================================
