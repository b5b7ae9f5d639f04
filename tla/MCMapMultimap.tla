---------------------------- MODULE MCMapMultimap ----------------------------
EXTENDS MapMultimap

MCKeys == {1, 2}
MCPays == {1, 2, 3}

\* Every call tallies at most its count, so the tally sum bounds the calls
\* that succeed; refused emplaces grow a count, which MaxCount bounds.
MaxCalls == 5
MaxCount == 4

Calls == changes["hashes_inserted"] + changes["hashes_removed"]
         + changes["hashes_not_removed_no_element"]
         + changes["hashes_not_removed_no_key"]

CallBound ==
    /\ Calls <= MaxCalls
    /\ \A k \in Keys : map[k].count <= MaxCount
=============================================================================
