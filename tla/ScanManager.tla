----------------------------- MODULE ScanManager -----------------------------
(***************************************************************************)
(* find_expanded_hash of hashdb::scan_manager_t (src/src_libhashdb/        *)
(* hashdb.hpp, spec.md 4.7).  The manager keeps two sets for its whole     *)
(* lifetime, the hashes and the source ids it has already described, and   *)
(* leaves out of an answer what it described before.  hashdb.cpp is not in *)
(* the repository: the operators follow the header's contract and spec.md. *)
(*                                                                         *)
(* An expansion is abstracted to whether it is the empty string and the    *)
(* set of sources whose data and names it lists; its pairs, entropy, label *)
(* and source_list_id are left out, as no property here tells them apart.  *)
(***************************************************************************)
EXTENDS FiniteSets

\* The two sets of a new scan_manager_t.
NoMemo == [hashes |-> {}, sources |-> {}]

\* The text of an answer that lists nothing.
EmptyText == [empty |-> TRUE, sources |-> {}]

\* The expansion of a hash not described before: its sources not yet in
\* the sources set get their data and names.
Expansion(memo, srcs) == [empty |-> FALSE, sources |-> srcs \ memo.sources]

\* What describing a hash adds to the two sets.
Remember(memo, h, srcs) ==
    [hashes |-> memo.hashes \cup {h}, sources |-> memo.sources \cup srcs]

\* Mutant: the sets are updated before the expansion is computed.
FindExpandedHashMutant(memo, h, srcs) ==
    IF srcs = {}
    THEN [found |-> FALSE, text |-> EmptyText, memo |-> memo]
    ELSE IF h \in memo.hashes
    THEN [found |-> TRUE, text |-> EmptyText, memo |-> memo]
    ELSE [found |-> TRUE, text |-> Expansion(Remember(memo, h, srcs), srcs),
          memo |-> Remember(memo, h, srcs)]

\* find_expanded_hash(h) for a hash whose pairs name the sources srcs:
\* false for a hash not in the store; blank text for a hash described
\* before; else the expansion, after which h and srcs are remembered.
FindExpandedHash(memo, h, srcs) ==
    IF srcs = {}
    THEN [found |-> FALSE, text |-> EmptyText, memo |-> memo]
    ELSE IF h \in memo.hashes
    THEN [found |-> TRUE, text |-> EmptyText, memo |-> memo]
    ELSE [found |-> TRUE, text |-> Expansion(memo, srcs),
          memo |-> Remember(memo, h, srcs)]

=============================================================================
