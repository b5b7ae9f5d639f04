------------------------------- MODULE Varint -------------------------------
(***************************************************************************)
(* The uint64 varint codec of lmdb_helper (src/src/lmdb_helper.h): the     *)
(* protocol-buffer style little-endian base-128 encoding used for every    *)
(* field of the hash data store records.                                   *)
(*                                                                         *)
(* TLC integers are 32-bit, so a uint64 is a record of its three parts as  *)
(* the code splits it: lo = bits 0..27, mid = bits 28..55, hi = bits       *)
(* 56..63.  The code's part0 and part1 are uint32 casts and so also hold   *)
(* bits 28..31 and 56..59; those bits never reach an output byte (the      *)
(* byte that would hold them is either OR-ed with 0x80 on that bit or      *)
(* masked with 0x7F), and the size tests read part0 only when part1 = 0    *)
(* and part1 only when part2 = 0, so the 28/28/8 split is equivalent.      *)
(***************************************************************************)
LOCAL INSTANCE Naturals
LOCAL INSTANCE Sequences

U64 == [lo : 0 .. 2^28 - 1, mid : 0 .. 2^28 - 1, hi : 0 .. 255]

\* A natural number below 2^31 as a uint64.
ToU64(n) == [lo |-> n % 2^28, mid |-> n \div 2^28, hi |-> 0]

\* The natural number a uint64 holds, for values below 2^31.
FromU64(u) == u.lo + u.mid * 2^28

\* Mutant: the 2-byte threshold off by one.
SizeOfPart28Mutant(p) ==
    IF p <= 2^14 THEN (IF p < 2^7 THEN 1 ELSE 2)
                 ELSE (IF p < 2^21 THEN 3 ELSE 4)

\* Size selection of private_uint64_to_encoding: the nested tests on
\* part2, part1 and part0.
SizeOfPart28(p) ==
    IF p < 2^14 THEN (IF p < 2^7 THEN 1 ELSE 2)
                ELSE (IF p < 2^21 THEN 3 ELSE 4)

EncodedSize(u) ==
    IF u.hi = 0
    THEN IF u.mid = 0 THEN SizeOfPart28(u.lo) ELSE 4 + SizeOfPart28(u.mid)
    ELSE IF u.hi < 2^7 THEN 9 ELSE 10

\* The 7 payload bits the fall-through assignments put in byte k (1-based):
\* bytes 1..4 from part0, 5..8 from part1, 9..10 from part2.
Group(u, k) ==
    CASE k \in 1 .. 4 -> (u.lo \div 2^(7 * (k - 1))) % 128
      [] k \in 5 .. 8 -> (u.mid \div 2^(7 * (k - 5))) % 128
      [] k = 9        -> u.hi % 128
      [] k = 10       -> u.hi \div 128

\* Mutant: the 0x7F mask applied to the first byte instead of the last.
EncodeMutant(u) ==
    LET n == EncodedSize(u)
    IN  [k \in 1 .. n |-> Group(u, k) + (IF k > 1 THEN 128 ELSE 0)]

\* Every byte gets the continuation bit 0x80, then the last is masked with
\* 0x7F.
Encode(u) ==
    LET n == EncodedSize(u)
    IN  [k \in 1 .. n |-> Group(u, k) + (IF k < n THEN 128 ELSE 0)]

\* Mutant: the tenth byte shifted as if it were a full 8-bit group.
AddGroupMutant(acc, k, g) ==
    CASE k \in 1 .. 4 -> [acc EXCEPT !.lo = @ + g * 2^(7 * (k - 1))]
      [] k \in 5 .. 8 -> [acc EXCEPT !.mid = @ + g * 2^(7 * (k - 5))]
      [] k = 9        -> [acc EXCEPT !.hi = (@ + g) % 256]
      [] k = 10       -> [acc EXCEPT !.hi = (@ + g * 256) % 256]

\* Decoding OR-s group k into its part; the final shift of part2 by 56
\* keeps only 8 bits of the 14 that bytes 9 and 10 can carry.
AddGroup(acc, k, g) ==
    CASE k \in 1 .. 4 -> [acc EXCEPT !.lo = @ + g * 2^(7 * (k - 1))]
      [] k \in 5 .. 8 -> [acc EXCEPT !.mid = @ + g * 2^(7 * (k - 5))]
      [] k = 9        -> [acc EXCEPT !.hi = (@ + g) % 256]
      [] k = 10       -> [acc EXCEPT !.hi = (@ + g * 128) % 256]

Zero64 == [lo |-> 0, mid |-> 0, hi |-> 0]

\* private_encoding_to_uint64 from byte k (1-based) of the varint that
\* starts at position pos of bytes, with the groups before it in acc.
RECURSIVE DecodeStep(_, _, _, _)
DecodeStep(bytes, pos, k, acc) ==
    IF pos + k - 1 > Len(bytes)
    THEN [ok |-> FALSE, val |-> acc, next |-> pos + k - 1]
    ELSE LET b    == bytes[pos + k - 1]
             acc2 == AddGroup(acc, k, b % 128)
         IN  IF b < 128 THEN [ok |-> TRUE, val |-> acc2, next |-> pos + k]
             ELSE IF k = 10
                  THEN [ok |-> FALSE, val |-> acc2, next |-> pos + k]
                  ELSE DecodeStep(bytes, pos, k + 1, acc2)

\* private_encoding_to_uint64 reading the varint that starts at position
\* pos of bytes: val is the value, next the position after it, and ok is
\* FALSE when ten bytes all carry the continuation bit (the assert(0) on a
\* corrupted buffer) or the buffer ends first.
Decode(bytes, pos) == DecodeStep(bytes, pos, 1, Zero64)

=============================================================================
