----------------------------- MODULE WalkCommands -----------------------------
(***************************************************************************)
(* The commands of src/src/commands.hpp that walk one database with        *)
(* hash_begin and hash_next.  The set algebra commands add,                *)
(* add_repository, subtract_repository, deduplicate (database A into C)    *)
(* and intersect, intersect_hash, subtract, subtract_hash (A and B into    *)
(* C) hand each hash to an adder_t or adder_set_t; intersect and           *)
(* intersect_hash first ask B's find_hash_count.  The reports histogram,   *)
(* duplicates and hash_table read each hash's source offset pairs with     *)
(* find_hash and tally or print it.  The scans scan_hash, scan_random and  *)
(* scan_same look hashes up one by one.  The reports, scan_hash and       *)
(* scan_random print a found hash with its find_expanded_hash text         *)
(* (ScanManager); scan_same prints only its misses.                        *)
(*                                                                         *)
(* A database maps each hash to the sources it names for it, one offset    *)
(* per source, so a hash's pair count is its number of sources.  The       *)
(* adders are not in the repository: what they copy for one hash is taken  *)
(* from spec.md 4.8.  The destination may already exist, with any content. *)
(***************************************************************************)
EXTENDS Naturals, FiniteSets, FiniteSetsExt, Functions, Sequences, TLC, ScanManager

CONSTANTS
    Hashes,       \* block hashes, ordered as their bytes are
    Sources,      \* sources, identified by their file hash
    InRepository, \* the sources named under the repository argument
    Numbers,      \* the counts the duplicates argument can ask for
    ScanCounts    \* the counts scan_random and scan_same are given

ASSUME Hashes \subseteq Nat /\ InRepository \subseteq Sources
ASSUME Numbers \subseteq Nat /\ ScanCounts \subseteq Nat

AdderCommands == {"add", "add_repository", "subtract_repository", "deduplicate",
                  "intersect", "intersect_hash", "subtract", "subtract_hash"}
ReportCommands == {"histogram", "duplicates", "hash_table"}
ScanCommands == {"scan_hash", "scan_random", "scan_same"}

DBs == [Hashes -> SUBSET Sources]
Empty == [h \in Hashes |-> {}]

VARIABLES
    cmd,        \* the command being run
    a, b,       \* the source databases (b is read only by the A-and-B ones)
    before,     \* the destination's content when the command starts
    c,          \* the destination database
    arg,        \* the argument: the duplicates number or the scans' count
                \* still to go; the file hash of hash_table and whether
                \* its source data exists, or whether scan_hash's hex
                \* text parses; the hash scan_hash and scan_same look up
    report,     \* the histogram's tallies, and duplicates' any_found
    memo,       \* the scan manager's sets of hashes and sources described
    out,        \* the lines printed: each a hash and its expanded text
    misses,     \* the "Match not found" lines scan_same prints
    dirsValid,  \* the directories the command requires are usable
    pc,         \* "validate", "begin", "loop", "done" or "exit"
    cursor      \* {} at the end of A, else {the hash the loop is at}

vars == <<cmd, a, b, before, c, arg, report, memo, out, misses, dirsValid, pc, cursor>>

\* hash_begin / hash_next over A's hashes.
HashBegin == LET keys == {h \in Hashes : a[h] # {}}
             IN  IF keys = {} THEN {} ELSE {Min(keys)}

\* Mutant: the loop asks for hash_begin again instead of hash_next.
HashNextMutant(last) == HashBegin

HashNext(last) ==
    LET later == {h \in Hashes : a[h] # {} /\ h > last}
    IN  IF later = {} THEN {} ELSE {Min(later)}

\* Mutant: intersect_hash skips the find_hash_count test.
VisitsMutant(h) == cmd = "intersect" => b[h] # {}

\* The loop's test before the adder call: find_hash_count(B, h) > 0.
Visits(h) == cmd \in {"intersect", "intersect_hash"} => b[h] # {}

\* What the adder adds to C for hash h of A (spec.md 4.8).
AdderAdds(h) ==
    CASE cmd = "add"                 -> a[h]
      [] cmd = "add_repository"      -> a[h] \cap InRepository
      [] cmd = "subtract_repository" -> a[h] \ InRepository
      [] cmd = "deduplicate"         -> IF Cardinality(a[h]) = 1 THEN a[h] ELSE {}
      [] cmd = "intersect"           -> a[h] \cap b[h]
      [] cmd = "intersect_hash"      -> a[h]
      [] cmd = "subtract"            -> a[h] \ b[h]
      [] cmd = "subtract_hash"       -> IF b[h] = {} THEN a[h] ELSE {}

\* Mutant: an existing entry is erased and re-inserted with its old number.
HistogramAddMutant(hist, n) ==
    IF n \in DOMAIN hist THEN hist ELSE hist @@ (n :> 1)

\* The hash_histogram update: a new entry (n, 1) for the first hash with
\* n pairs, else erase the entry and insert (n, old_number + 1).
HistogramAdd(hist, n) ==
    IF n \in DOMAIN hist THEN [hist EXCEPT ![n] = @ + 1] ELSE hist @@ (n :> 1)

\* Mutant: the duplicates test is count >= number.
PrintsMutant(h) ==
    \/ cmd = "duplicates" /\ Cardinality(a[h]) >= arg.number
    \/ cmd = "hash_table" /\ arg.fileHash \in a[h]

\* The report's test for printing hash h: duplicates prints a hash whose
\* pair count is the number asked for; hash_table prints a hash at the
\* first of its pairs from the file hash and breaks out of the pair loop.
Prints(h) ==
    \/ cmd = "duplicates" /\ Cardinality(a[h]) = arg.number
    \/ cmd = "hash_table" /\ arg.fileHash \in a[h]

NoReport == [hist |-> <<>>, totalHashes |-> 0, totalDistinct |-> 0,
             anyFound |-> FALSE]

NoArg == [number |-> 0, fileHash |-> "none", known |-> FALSE, hash |-> 0]

\* The arguments each command can be run with over database db: hash_table
\* finds the source data of every source some hash of db names.
ArgsOf(command, db) ==
    CASE command = "duplicates" -> {[NoArg EXCEPT !.number = n] : n \in Numbers}
      [] command = "hash_table" ->
             {r \in {[NoArg EXCEPT !.fileHash = s, !.known = k] :
                        s \in Sources, k \in BOOLEAN} :
                 (\E h \in Hashes : r.fileHash \in db[h]) => r.known}
      [] command = "scan_hash" ->
             {[NoArg EXCEPT !.hash = h, !.known = k] : h \in Hashes, k \in BOOLEAN}
      [] command = "scan_same" ->
             {[NoArg EXCEPT !.hash = h, !.number = n] : h \in Hashes, n \in ScanCounts}
      [] command = "scan_random" -> {[NoArg EXCEPT !.number = n] : n \in ScanCounts}
      [] OTHER -> {NoArg}

\* A found hash's line is appended to the output.
PrintFound(h, r) == IF r.found THEN Append(out, [hash |-> h, text |-> r.text]) ELSE out

----------------------------------------------------------------------------

Init ==
    /\ cmd \in AdderCommands \cup ReportCommands \cup ScanCommands
    /\ a \in DBs
    /\ b \in IF cmd \in {"intersect", "intersect_hash", "subtract",
                         "subtract_hash"}
             THEN DBs ELSE {Empty}
    /\ before \in IF cmd \in AdderCommands THEN DBs ELSE {Empty}
    /\ c = before
    /\ arg \in ArgsOf(cmd, a)
    /\ report = NoReport
    /\ memo = NoMemo
    /\ out = <<>>
    /\ misses = 0
    /\ dirsValid \in BOOLEAN
    /\ pc = "validate"
    /\ cursor = {}

\* require_hashdb_dir on A (and B) and create_if_new on C exit the
\* program when a directory cannot be read or made.
Validate ==
    /\ pc = "validate"
    /\ pc' = IF dirsValid THEN "begin" ELSE "exit"
    /\ UNCHANGED <<cmd, a, b, before, c, arg, report, memo, out, misses, dirsValid, cursor>>

\* duplicates returns when manager.size() is 0, and hash_table when
\* find_source_data does not know the file hash.
EarlyReturn ==
    /\ pc = "begin"
    /\ \/ cmd = "duplicates" /\ HashBegin = {}
       \/ cmd = "hash_table" /\ ~arg.known
    /\ pc' = "done"
    /\ UNCHANGED <<cmd, a, b, before, c, arg, report, memo, out, misses, dirsValid, cursor>>

\* The loop starts: a walk at hash_begin, a scan loop at its first turn.
Begin ==
    /\ pc = "begin"
    /\ cmd # "scan_hash"
    /\ ~ENABLED EarlyReturn
    /\ cursor' = IF cmd \in ScanCommands THEN {} ELSE HashBegin
    /\ pc' = "loop"
    /\ UNCHANGED <<cmd, a, b, before, c, arg, report, memo, out, misses, dirsValid>>

\* One turn of a set algebra command's while loop over A.
Visit ==
    /\ pc = "loop"
    /\ cmd \in AdderCommands
    /\ cursor # {}
    /\ LET h == CHOOSE x \in cursor : TRUE
       IN  /\ c' = IF Visits(h) THEN [c EXCEPT ![h] = @ \cup AdderAdds(h)]
                   ELSE c
           /\ cursor' = HashNext(h)
    /\ UNCHANGED <<cmd, a, b, before, arg, report, memo, out, misses, dirsValid, pc>>

\* One turn of a report's while loop: find_hash, then tally the hash's
\* pair count (histogram), or print it with find_expanded_hash's text
\* (duplicates, hash_table; duplicates also sets any_found).
Report ==
    /\ pc = "loop"
    /\ cmd \in ReportCommands
    /\ cursor # {}
    /\ LET h == CHOOSE x \in cursor : TRUE
           n == Cardinality(a[h])
           r == FindExpandedHash(memo, h, a[h])
       IN  /\ \/ /\ cmd = "histogram"
                 /\ report' = [report EXCEPT !.totalHashes = @ + n,
                                      !.totalDistinct = @ + (IF n = 1 THEN 1 ELSE 0),
                                      !.hist = HistogramAdd(@, n)]
                 /\ UNCHANGED <<memo, out>>
              \/ /\ cmd # "histogram"
                 /\ Prints(h)
                 /\ report' = [report EXCEPT !.anyFound = TRUE]
                 /\ memo' = r.memo
                 /\ out' = Append(out, [hash |-> h, text |-> r.text])
              \/ /\ cmd # "histogram"
                 /\ ~Prints(h)
                 /\ UNCHANGED <<report, memo, out>>
           /\ cursor' = HashNext(h)
    /\ UNCHANGED <<cmd, a, b, before, c, arg, misses, dirsValid, pc>>

\* scan_hash: a hex text that does not parse exits; otherwise one
\* find_expanded_hash, printed when found.
ScanHash ==
    /\ pc = "begin"
    /\ cmd = "scan_hash"
    /\ \/ /\ ~arg.known
          /\ pc' = "exit"
          /\ UNCHANGED <<memo, out>>
       \/ /\ arg.known
          /\ LET r == FindExpandedHash(memo, arg.hash, a[arg.hash])
             IN  /\ memo' = r.memo
                 /\ out' = PrintFound(arg.hash, r)
          /\ pc' = "done"
    /\ UNCHANGED <<cmd, a, b, before, c, arg, report, misses, dirsValid, cursor>>

\* One turn of scan_random's loop: a random hash, printed when found.
\* The model counts the turns left down in arg.number.
ScanRandom ==
    /\ pc = "loop"
    /\ cmd = "scan_random"
    /\ arg.number > 0
    /\ \E h \in Hashes :
          LET r == FindExpandedHash(memo, h, a[h])
          IN  /\ memo' = r.memo
              /\ out' = PrintFound(h, r)
    /\ arg' = [arg EXCEPT !.number = @ - 1]
    /\ UNCHANGED <<cmd, a, b, before, c, report, misses, dirsValid, pc, cursor>>

\* One turn of scan_same's loop: find_expanded_hash of the one fixed hash.
\* A hit prints nothing and its text is dropped; a miss prints "Match not
\* found" with the address of the text buffer, not the text.  The model
\* counts the turns left down in arg.number.
ScanSame ==
    /\ pc = "loop"
    /\ cmd = "scan_same"
    /\ arg.number > 0
    /\ LET r == FindExpandedHash(memo, arg.hash, a[arg.hash])
       IN  /\ memo' = r.memo
           /\ misses' = IF r.found THEN misses ELSE misses + 1
    /\ arg' = [arg EXCEPT !.number = @ - 1]
    /\ UNCHANGED <<cmd, a, b, before, c, report, out, dirsValid, pc, cursor>>

Finish ==
    /\ pc = "loop"
    /\ cursor = {}
    /\ cmd \in ScanCommands => arg.number = 0
    /\ pc' = "done"
    /\ UNCHANGED <<cmd, a, b, before, c, arg, report, memo, out, misses, dirsValid, cursor>>

Next == Validate \/ EarlyReturn \/ Begin \/ Visit \/ Report \/ ScanHash
        \/ ScanRandom \/ ScanSame \/ Finish

\* The command runs in one thread until it returns.
Spec == Init /\ [][Next]_vars /\ WF_vars(Next)

----------------------------------------------------------------------------
(* Properties                                                              *)

\* spec.md 4.8, hash by hash: the sources the command puts into C for h.
Expected(h) ==
    CASE cmd = "add"                 -> a[h]
      [] cmd = "add_repository"      -> {s \in a[h] : s \in InRepository}
      [] cmd = "subtract_repository" -> {s \in a[h] : s \notin InRepository}
      [] cmd = "deduplicate"         -> IF Cardinality(a[h]) = 1 THEN a[h] ELSE {}
      [] cmd = "intersect"           -> {s \in a[h] : s \in b[h]}
      [] cmd = "intersect_hash"      -> IF b[h] # {} THEN a[h] ELSE {}
      [] cmd = "subtract"            -> {s \in a[h] : s \notin b[h]}
      [] cmd = "subtract_hash"       -> IF b[h] = {} THEN a[h] ELSE {}

\* The hashes of A the loop has finished with.
Done(h) == a[h] # {} /\ (pc = "done" \/ (pc = "loop" /\ \A x \in cursor : h < x))

\* At every turn of the loop, C holds what it held before plus exactly the
\* spec's result for each hash the loop has passed, and nothing for the
\* hashes still ahead: the walk visits every hash of A once, in order.
CopiedSoFar ==
    cmd \in AdderCommands =>
        \A h \in Hashes :
            c[h] = before[h] \cup (IF Done(h) THEN Expected(h) ELSE {})

\* At every turn of the histogram loop, for each pair count n the entry for
\* n is the number of hashes passed that have n pairs, there is no entry
\* for a count no such hash has, total_hashes is the sum of the counts and
\* total_distinct_hashes the number of hashes with one pair; so each
\* printed row's total k * n adds up to total_hashes.
HistogramSoFar ==
    cmd = "histogram" =>
        LET passed == {h \in Hashes : Done(h)}
            counts == {Cardinality(a[h]) : h \in passed}
        IN  /\ DOMAIN report.hist = counts
            /\ \A n \in counts :
                   report.hist[n] = Cardinality({h \in passed : Cardinality(a[h]) = n})
            /\ report.totalHashes =
                   SumFunctionOnSet([h \in Hashes |-> Cardinality(a[h])], passed)
            /\ report.totalDistinct = Cardinality({h \in passed : Cardinality(a[h]) = 1})

\* The hashes printed so far.
Printed == {out[i].hash : i \in 1 .. Len(out)}

\* When duplicates or hash_table returns, it has printed exactly the hashes
\* of A that have the asked-for pair count, or a pair from the asked-for
\* source, each once; "No hashes were found" is said exactly when there
\* is none.
PrintedSoFar ==
    cmd \in {"duplicates", "hash_table"} =>
        /\ Printed =
               {h \in Hashes : Done(h) /\ IF cmd = "duplicates"
                                         THEN Cardinality(a[h]) = arg.number
                                         ELSE arg.fileHash \in a[h]}
        /\ Len(out) = Cardinality(Printed)
        /\ report.anyFound <=> Printed # {}

\* The scan manager's memo leaves out what it described before, so the
\* output must describe everything once: every source of every hash a
\* report or scan prints has its data and names on that line or an
\* earlier one, however the hashes and their sources repeat.
OutputResolvable ==
    \A i \in 1 .. Len(out) :
        \A s \in a[out[i].hash] : \E j \in 1 .. i : s \in out[j].text.sources

\* Every command that passes its directory checks returns.
Terminates == <>(pc \in {"done", "exit"})

=============================================================================
