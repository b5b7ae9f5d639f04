----------------------------- MODULE SourceData -----------------------------
(***************************************************************************)
(* lmdb_source_data_t (src/src/lmdb_source_data.hpp): four string fields   *)
(* of a source, and add, which merges another record into this one field   *)
(* by field.  A field's string is a model value; "" is the empty string.   *)
(* copy's assert(0) ends the program: add's result says whether it fired.  *)
(***************************************************************************)
EXTENDS Naturals, Sequences, SequencesExt

SourceFields == <<"repository_name", "filename", "filesize", "hashdigest">>

\* The default constructor: every field empty.
EmptySourceData == [f \in ToSet(SourceFields) |-> ""]

\* copy(from, to): assert(0) when to is set and from differs, else
\* to = from, true when that changed it.
Copy(from, to) ==
    [abort   |-> (to # "" /\ from # to),
     changed |-> from # to,
     value   |-> from]

\* Mutant: the last copy's result is assigned to changed, not or-ed in.
AddStepMutant(acc, f) ==
    LET c == Copy(acc.other[f], acc.data[f])
    IN  IF acc.abort THEN acc
        ELSE [acc EXCEPT !.abort   = c.abort,
                         !.changed = IF f = "hashdigest" THEN c.changed
                                     ELSE @ \/ c.changed,
                         !.data[f] = c.value]

\* One line of add: changed |= copy(other.f, f); a copy that asserts ends
\* the program, so the later lines do nothing.
AddStep(acc, f) ==
    LET c == Copy(acc.other[f], acc.data[f])
    IN  IF acc.abort THEN acc
        ELSE [acc EXCEPT !.abort   = c.abort,
                         !.changed = @ \/ c.changed,
                         !.data[f] = c.value]

\* add: the four lines in field order, from changed = FALSE.
Add(self, other) ==
    FoldLeft(AddStep,
             [abort |-> FALSE, changed |-> FALSE, data |-> self, other |-> other],
             SourceFields)

=============================================================================
