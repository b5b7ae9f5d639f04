----------------------------- MODULE Conversions -----------------------------
(***************************************************************************)
(* The string conversions of lmdb_helper (src/src/lmdb_helper.h) and       *)
(* to_hex (src/src_libhashdb/to_hex.hpp): binary hash to hex text and      *)
(* back, JSON escaping, and the NUL-separated encoding of a (repository    *)
(* name, filename) pair.  A std::string is a sequence of bytes 0..255, a   *)
(* character is its code.                                                  *)
(***************************************************************************)
EXTENDS Naturals, Sequences, SequencesExt

CONSTANT Uninit  \* the bytes an uninitialized stack byte may hold

\* Mutant: the letters start one nibble late.
ToHexDigitMutant(d) == IF d <= 10 THEN 48 + d ELSE 97 + (d - 10)

\* tohex: a nibble to its lowercase digit.  Its callers pass c >> 4 and
\* c & 0x0f of a uint8_t, so the default branch (assert) is unreachable.
ToHexDigit(d) == IF d < 10 THEN 48 + d ELSE 97 + (d - 10)

\* binary_hash_to_hex: two digits per byte, high nibble first.
BinaryHashToHex(s) ==
    FlattenSeq([i \in 1 .. Len(s) |-> <<ToHexDigit(s[i] \div 16),
                                         ToHexDigit(s[i] % 16)>>])

\* to_hex (to_hex.hpp) is the same loop as binary_hash_to_hex.
ToHex(s) == BinaryHashToHex(s)

\* A character that is no hex digit.
NotHex == 16

\* Mutant: the lowercase range stops at 'e'.
HexValueMutant(c) ==
    CASE c \in 48 .. 57  -> c - 48
      [] c \in 97 .. 101 -> c - 97 + 10
      [] c \in 65 .. 70  -> c - 65 + 10
      [] OTHER           -> NotHex

\* The digit tests of hex_to_binary_hash: '0'-'9', 'a'-'f', 'A'-'F'.
HexValue(c) ==
    CASE c \in 48 .. 57  -> c - 48
      [] c \in 97 .. 102 -> c - 97 + 10
      [] c \in 65 .. 70  -> c - 65 + 10
      [] OTHER           -> NotHex

\* hex_to_binary_hash: "" for an odd length or any character that is not a
\* digit, else one byte d0 << 4 | d1 per pair of characters.
HexToBinaryHash(h) ==
    IF Len(h) % 2 # 0 \/ \E i \in 1 .. Len(h) : HexValue(h[i]) = NotHex
    THEN <<>>
    ELSE [j \in 1 .. Len(h) \div 2 |-> HexValue(h[2 * j - 1]) * 16
                                       + HexValue(h[2 * j])]

\* escape_json, one input character at a time: \\ \" \/ \b \f \n \r \t are
\* escaped, every other byte is copied.
EscapeChar(c) ==
    CASE c = 92 -> <<92, 92>>
      [] c = 34 -> <<92, 34>>
      [] c = 47 -> <<92, 47>>
      [] c = 8  -> <<92, 98>>
      [] c = 12 -> <<92, 102>>
      [] c = 10 -> <<92, 110>>
      [] c = 13 -> <<92, 114>>
      [] c = 9  -> <<92, 116>>
      [] OTHER  -> <<c>>

EscapeJson(s) == FlattenSeq([i \in 1 .. Len(s) |-> EscapeChar(s[i])])

\* The bytes strcpy copies from s1: up to and including its first NUL, or
\* all of it and the terminator when it has none.
StrcpyPart(s1) ==
    IF \E i \in 1 .. Len(s1) : s1[i] = 0
    THEN SubSeq(s1, 1, SelectInSeq(s1, LAMBDA c : c = 0))
    ELSE Append(s1, 0)

\* Mutant: s2 is copied one byte early, over the separator.
StringPairToEncodingMutant(s1, s2) ==
    LET head == StrcpyPart(s1)
        buf  == { head \o u : u \in [1 .. Len(s1) + 1 - Len(head) -> Uninit] }
    IN  IF s2 = <<>> THEN buf
        ELSE { SubSeq(b, 1, Len(s1)) \o s2 \o <<v>> : b \in buf, v \in Uninit }

\* string_pair_to_encoding: a stack buffer of l1 + 1 + l2 bytes gets s1 by
\* strcpy and s2 by memcpy at l1 + 1.  When s1 holds a NUL, strcpy stops
\* there and the bytes up to l1 + 1, the separator included, are never
\* written: each is any byte the stack held, so the result is a set.
StringPairToEncoding(s1, s2) ==
    LET head == StrcpyPart(s1)
    IN  { head \o u \o s2 : u \in [1 .. Len(s1) + 1 - Len(head) -> Uninit] }

=============================================================================
