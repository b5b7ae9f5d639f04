------------------------------- MODULE MCCodecs -------------------------------
(***************************************************************************)
(* Checks the byte and string codecs of lmdb_helper against reference      *)
(* definitions: the varint codec over every uint64 built from the values   *)
(* on both sides of each size threshold of each part, and the string       *)
(* conversions over every short string of characters chosen on both sides  *)
(* of each range and case the code tests.  The variable in walks the       *)
(* inputs so that each one is a distinct state TLC checks.                 *)
(***************************************************************************)
EXTENDS Naturals, Sequences, SequencesExt, Varint, Conversions, SourceData

\* Values on both sides of the 1/2/3/4-byte thresholds of a 28-bit part.
Part28Edges == {0, 1, 2^7 - 1, 2^7, 2^14 - 1, 2^14, 2^21 - 1, 2^21, 2^28 - 1}
\* Values on both sides of the 9/10-byte threshold of the top part.
Part8Edges == {0, 1, 2^7 - 1, 2^7, 255}

\* Bytes at the nibble edges: 0x00 0x09 0x0a 0x0f 0x10 0x9f 0xa0 0xff.
EdgeBytes == {0, 9, 10, 15, 16, 159, 160, 255}
\* Characters on both sides of '0'-'9', 'A'-'F' and 'a'-'f'.
HexEdgeChars == {47, 48, 57, 58, 64, 65, 70, 71, 96, 97, 102, 103}
\* Control characters escape_json handles and ones it does not, the
\* characters it escapes, and plain ones.
JsonEdgeChars == {0, 1, 8, 9, 10, 12, 13, 31, 32, 34, 47, 92, 97, 127}
\* Names as bytes: NUL and 'a'.
NameChars == {0, 97}
\* Source data fields: unset, a value, and a different value for the
\* record added.
SelfValues == {"", "x"}
FieldValues == {"", "x", "y"}

Inputs ==
    [kind : {"varint"}, u : [lo : Part28Edges, mid : Part28Edges, hi : Part8Edges]]
    \cup [kind : {"bytes"}, s : BoundedSeq(EdgeBytes, 2)]
    \cup [kind : {"hex"}, s : BoundedSeq(HexEdgeChars, 2) \cup [1 .. 4 -> {48, 70, 97, 103}]]
    \cup [kind : {"text"}, s : BoundedSeq(JsonEdgeChars, 2)]
    \cup [kind : {"pair"}, s1 : BoundedSeq(NameChars, 2), s2 : BoundedSeq(NameChars, 2)]
    \cup [kind : {"source"}, self : [ToSet(SourceFields) -> SelfValues],
                             other : [ToSet(SourceFields) -> FieldValues]]

MCUninit == {0, 1}

VARIABLE in

Init == in \in Inputs

\* Take the next input to convert.
NextInput == in' \in Inputs

Spec == Init /\ [][NextInput]_in

----------------------------------------------------------------------------
(* Reference: bit 7(k-1) .. 7k-1 of the 64-bit number is digit k, and the  *)
(* encoding has as many bytes as the position of the highest nonzero digit *)
(* (at least one), each but the last carrying the continuation bit.        *)

RefDigit(u, k) ==
    LET low == 7 * (k - 1)
    IN  IF low < 28 THEN (u.lo \div 2^low) % 128
        ELSE IF low < 56 THEN (u.mid \div 2^(low - 28)) % 128
        ELSE (u.hi \div 2^(low - 56)) % 128

RefLen(u) ==
    CHOOSE n \in 1 .. 10 :
        /\ \A k \in n + 1 .. 10 : RefDigit(u, k) = 0
        /\ n = 1 \/ RefDigit(u, n) # 0

RefEncode(u) ==
    [k \in 1 .. RefLen(u) |-> RefDigit(u, k) + (IF k < RefLen(u) THEN 128 ELSE 0)]

\* private_uint64_to_encoding picks the right size at every part boundary
\* and emits exactly the base-128 digits of the value.
EncodeMatchesReference == in.kind = "varint" => Encode(in.u) = RefEncode(in.u)

\* private_encoding_to_uint64 reads back exactly what was written, stops at
\* the byte that ends it, and never needs more than ten bytes.
RoundTrip ==
    in.kind = "varint" =>
        LET d == Decode(Encode(in.u), 1)
        IN  /\ Len(Encode(in.u)) <= 10
            /\ d.ok
            /\ d.val = in.u
            /\ d.next = Len(Encode(in.u)) + 1

\* The first byte of an encoding is 0 only for the value 0: the hash data
\* store relies on this to tell a Type 2 record (leading 0 byte) from a
\* Type 1 or Type 3 record (leading source id >= 1).
SentinelFirstByte == in.kind = "varint" => ((Encode(in.u)[1] = 0) <=> (in.u = Zero64))

----------------------------------------------------------------------------
(* Reference: the lowercase hex text of a byte string is the string of     *)
(* its nibbles, each looked up in "0123456789abcdef".                      *)

HexDigits == <<48, 49, 50, 51, 52, 53, 54, 55, 56, 57, 97, 98, 99, 100, 101, 102>>

RefHex(s) ==
    [i \in 1 .. 2 * Len(s) |->
        LET b == s[(i + 1) \div 2]
        IN  HexDigits[(IF i % 2 = 1 THEN b \div 16 ELSE b % 16) + 1]]

Lowercase(h) == [i \in 1 .. Len(h) |-> IF h[i] \in 65 .. 90 THEN h[i] + 32 ELSE h[i]]

\* binary_hash_to_hex writes the reference hex text, and hex_to_binary_hash
\* reads it back to the same bytes.
HexRoundTrip ==
    in.kind = "bytes" =>
        /\ BinaryHashToHex(in.s) = RefHex(in.s)
        /\ HexToBinaryHash(BinaryHashToHex(in.s)) = in.s

\* hex_to_binary_hash accepts exactly the even-length texts of hex digits of
\* either case, and reads each to the bytes whose lowercase hex it is; it
\* answers "" to everything else, so scan_hash rejects it.
HexParse ==
    in.kind = "hex" =>
        LET b     == HexToBinaryHash(in.s)
            valid == Len(in.s) % 2 = 0 /\ \A i \in 1 .. Len(in.s) :
                         Lowercase(in.s)[i] \in ToSet(HexDigits)
        IN  IF valid THEN RefHex(b) = Lowercase(in.s) ELSE b = <<>>

----------------------------------------------------------------------------
(* Reference: a JSON string body (RFC 8259) decodes character by           *)
(* character; a raw character must be at least 0x20 and not '"' or '\',   *)
(* an escape is '\' and one of " \ / b f n r t (escape_json never writes   *)
(* \u, so it is left out).                                                 *)

Unescaped == [c \in {34, 92, 47, 98, 102, 110, 114, 116} |->
                CASE c = 98 -> 8 [] c = 102 -> 12 [] c = 110 -> 10
                  [] c = 114 -> 13 [] c = 116 -> 9 [] OTHER -> c]

RECURSIVE JsonDecode(_)
JsonDecode(t) ==
    IF t = <<>> THEN {<<>>}
    ELSE IF Head(t) = 92
         THEN IF Len(t) >= 2 /\ t[2] \in DOMAIN Unescaped
              THEN { <<Unescaped[t[2]]>> \o r : r \in JsonDecode(Tail(Tail(t))) }
              ELSE {}
         ELSE IF Head(t) >= 32 /\ Head(t) # 34
              THEN { <<Head(t)>> \o r : r \in JsonDecode(Tail(t)) }
              ELSE {}

\* escape_json turns every label, file type and name into a valid JSON
\* string body that decodes back to the same text.
EscapeDecodes == in.kind = "text" => JsonDecode(EscapeJson(in.s)) = {in.s}

----------------------------------------------------------------------------

\* A repository name from the command line holds no NUL, and for every such
\* name string_pair_to_encoding writes exactly name, NUL, filename, whatever
\* bytes the filename holds: no byte is left uninitialized and splitting at
\* the first NUL gives the pair back.
StringPairExact ==
    in.kind = "pair" /\ ~Contains(in.s1, 0) =>
        StringPairToEncoding(in.s1, in.s2) = {in.s1 \o <<0>> \o in.s2}

----------------------------------------------------------------------------

\* lmdb_source_data_t::add ("true if added, false if same, fatal if
\* different"): it asserts exactly when some field already set would get a
\* different value, and otherwise leaves the record equal to the other one
\* and answers true exactly when any of the four fields changed.
SourceDataAdd ==
    in.kind = "source" =>
        LET r        == Add(in.self, in.other)
            conflict == \E f \in ToSet(SourceFields) :
                            in.self[f] # "" /\ in.other[f] # in.self[f]
        IN  /\ r.abort <=> conflict
            /\ ~conflict => /\ r.data = in.other
                            /\ r.changed <=> in.self # in.other

=============================================================================
