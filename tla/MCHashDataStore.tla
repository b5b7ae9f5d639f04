--------------------------- MODULE MCHashDataStore ---------------------------
(***************************************************************************)
(* Model-checking instance of HashDataStore.  Two block hashes, two source *)
(* ids and two aligned offsets give four distinct pairs, one more than a   *)
(* cap of 3, so a hash can fill up and then be refused; the offset 700 is  *)
(* not a multiple of the sector size.  Two labels of different lengths    *)
(* let every data_same / data_changed branch happen.                       *)
(***************************************************************************)
EXTENDS HashDataStore

MCHashes     == {1, 2}
MCSourceIds  == {1, 2}
MCOffsets    == {0, 512, 700}
MCEntropies  == {7}
MCLabels     == {<<>>, <<87>>}    \* "" and "W"

\* Number of insert calls made so far: each one records exactly one of
\* these tallies.
Calls ==
    changes["hash_data_data_inserted"] + changes["hash_data_data_same"]
    + changes["hash_data_data_changed"] + changes["hash_data_invalid_file_offset"]

\* The tallies are the only unbounded state; stop exploring after
\* MaxCalls inserts.
MaxCalls == 4

CallBound == Calls <= MaxCalls

=============================================================================
