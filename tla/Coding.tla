------------------------------- MODULE Coding -------------------------------
(***************************************************************************)
(* The byte encodings of src/src/util/coding.rs that the table format is  *)
(* built from: little-endian fixed32 words and base-128 varints.  A byte  *)
(* string is a sequence of integers in 0..255; positions are 1-based, so  *)
(* the code's pointer p into a buffer is the position p + 1 here.         *)
(***************************************************************************)
EXTENDS Naturals, Sequences

(* encode_fixed32: four bytes, least significant first.                   *)
EncodeFixed32(value) == [i \in 1..4 |-> (value \div (2^(8 * (i - 1)))) % 256]

(* put_fixed32: append the encoding to dst.                                *)
PutFixed32(dst, value) == dst \o EncodeFixed32(value)

(* decode_fixed32 on the four bytes starting at position p.                *)
DecodeFixed32(bytes, p) ==
    bytes[p] + 256 * bytes[p + 1] + 65536 * bytes[p + 2]
        + 16777216 * bytes[p + 3]

(* encode_varint32: seven bits per byte, the high bit set on every byte   *)
(* but the last.  The code spells out the five cases v < 2^7, 2^14, 2^21, *)
(* 2^28 and the rest; (v | B) as u8 is v % 128 + 128.                      *)
RECURSIVE EncodeVarint32(_)
EncodeVarint32(v) ==
    IF v < 128 THEN <<v>>
               ELSE <<(v % 128) + 128>> \o EncodeVarint32(v \div 128)

(* The n bytes of value, least significant first: encode_fixed64 (n = 8). *)
RECURSIVE LittleEndian(_, _)
LittleEndian(value, n) ==
    IF n = 0 THEN <<>> ELSE <<value % 256>> \o LittleEndian(value \div 256, n - 1)

EncodeFixed64(value) == LittleEndian(value, 8)

(* put_fixed64                                                             *)
PutFixed64(dst, value) == dst \o EncodeFixed64(value)

(* decode_fixed64 on the eight bytes at position p, summed from the most  *)
(* significant byte down so that no intermediate exceeds the value.       *)
RECURSIVE DecodeLittleEndian(_, _, _)
DecodeLittleEndian(bytes, p, n) ==
    IF n = 0 THEN 0 ELSE bytes[p] + 256 * DecodeLittleEndian(bytes, p + 1, n - 1)

DecodeFixed64(bytes, p) == DecodeLittleEndian(bytes, p, 8)

(* put_varint32                                                            *)
PutVarint32(dst, v) == dst \o EncodeVarint32(v)

(* varint_length                                                           *)
VarintLength(v) == Len(EncodeVarint32(v))

(***************************************************************************)
(* get_varint32_ptr and its fallback: parse a varint from positions       *)
(* p .. limit - 1.  The result is a record: ok = FALSE is the code's None  *)
(* (input exhausted, or more than five bytes with the continuation bit);  *)
(* otherwise value and next, the position just past the varint.  Bits     *)
(* shifted past bit 31 are lost, as in the u32 shift of the code.         *)
(***************************************************************************)
(* Fault variant of VarintFallback: loop bound shift < 28, so the fifth    *)
(* byte of a large value is never read.                                    *)
RECURSIVE VarintFallbackShort(_, _, _, _, _)
VarintFallbackShort(bytes, p, limit, result, shift) ==
    IF shift < 28 /\ p < limit
    THEN LET byte == bytes[p]
             bits == (byte % 128) * 2^shift
         IN IF byte >= 128
            THEN VarintFallbackShort(bytes, p + 1, limit, result + bits, shift + 7)
            ELSE [ok |-> TRUE, value |-> result + bits, next |-> p + 1]
    ELSE [ok |-> FALSE, value |-> 0, next |-> p]

RECURSIVE VarintFallback(_, _, _, _, _)
VarintFallback(bytes, p, limit, result, shift) ==
    IF shift <= 28 /\ p < limit
    THEN LET byte == bytes[p]
             bits == IF shift <= 25 THEN (byte % 128) * 2^shift
                     ELSE ((byte % 128) % 2^(32 - shift)) * 2^shift
         IN IF byte >= 128
            THEN VarintFallback(bytes, p + 1, limit, result + bits, shift + 7)
            ELSE [ok |-> TRUE, value |-> result + bits, next |-> p + 1]
    ELSE [ok |-> FALSE, value |-> 0, next |-> p]

GetVarint32Ptr(bytes, p, limit) ==
    IF p < limit /\ bytes[p] < 128
    THEN [ok |-> TRUE, value |-> bytes[p], next |-> p + 1]
    ELSE VarintFallback(bytes, p, limit, 0, 0)

(* get_varint32(input): parse from the front of the slice input and       *)
(* advance it past the varint.  rest is the slice afterwards.              *)
GetVarint32(input) ==
    LET q == GetVarint32Ptr(input, 1, Len(input) + 1)
    IN IF q.ok THEN [ok |-> TRUE, value |-> q.value,
                     rest |-> SubSeq(input, q.next, Len(input))]
               ELSE [ok |-> FALSE, value |-> 0, rest |-> input]

(* encode_varint64: the same seven-bit groups, by a loop.                  *)
EncodeVarint64(v) == EncodeVarint32(v)

(* put_varint64                                                            *)
PutVarint64(dst, v) == dst \o EncodeVarint64(v)

(* put_length_prefixed_slice: varint32 length, then the bytes.             *)
PutLengthPrefixedSlice(dst, value) == PutVarint32(dst, Len(value)) \o value

(* Slice::remove_prefix(n); its assert n <= size holds at every use here.  *)
RemovePrefix(slice, n) == SubSeq(slice, n + 1, Len(slice))

(* get_length_prefixed_slice(input): the length is read by get_varint32,  *)
(* which advances input even when too few bytes follow it.                *)
GetLengthPrefixedSlice(input) ==
    LET g == GetVarint32(input)
    IN IF g.ok /\ Len(g.rest) >= g.value
       THEN [ok |-> TRUE, result |-> SubSeq(g.rest, 1, g.value),
             rest |-> RemovePrefix(g.rest, g.value)]
       ELSE [ok |-> FALSE, result |-> <<>>, rest |-> g.rest]

(* get_varint64_ptr: up to ten bytes (shift <= 63).                        *)
RECURSIVE Varint64Loop(_, _, _, _, _)
Varint64Loop(bytes, p, limit, result, shift) ==
    IF shift <= 63 /\ p < limit
    THEN LET byte == bytes[p]
         IN IF byte >= 128
            THEN Varint64Loop(bytes, p + 1, limit,
                              result + (byte % 128) * 2^shift, shift + 7)
            ELSE [ok |-> TRUE, value |-> result + byte * 2^shift, next |-> p + 1]
    ELSE [ok |-> FALSE, value |-> 0, next |-> p]

GetVarint64Ptr(bytes, p, limit) == Varint64Loop(bytes, p, limit, 0, 0)

(* get_varint64(input): the slice is rebuilt as from_raw(p, limit - q):    *)
(* it keeps its old start p and only loses length.                         *)
GetVarint64(input) ==
    LET q == GetVarint64Ptr(input, 1, Len(input) + 1)
    IN IF q.ok THEN [ok |-> TRUE, value |-> q.value,
                     rest |-> SubSeq(input, 1, Len(input) + 1 - q.next)]
               ELSE [ok |-> FALSE, value |-> 0, rest |-> input]

=============================================================================
