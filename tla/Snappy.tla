------------------------------- MODULE Snappy -------------------------------
(***************************************************************************)
(* The integer helpers of the snappy port                                 *)
(* (src/snappy/snappy-stubs-internal.rs): Bits, the bit-scan functions,   *)
(* and Varint, snappy's own varint32 writer and bounded parser.  The port *)
(* does not build as written (impl Variant for the struct Varint, and a   *)
(* non-mut ptr parameter advanced in place); the model follows the        *)
(* evident intent of each routine.  Byte strings are sequences over       *)
(* 0..255 with 1-based positions, as in module Coding.                    *)
(***************************************************************************)
EXTENDS Integers, Sequences, Bitwise

(* Number of significant bits of n.                                        *)
RECURSIVE BitLength(_)
BitLength(n) == IF n = 0 THEN 0 ELSE 1 + BitLength(n \div 2)

(* u32::leading_zeros                                                      *)
LeadingZeros(n) == 32 - BitLength(n)

(* Fault variant of Log2FloorNonZero: the bit count, not its floor log.    *)
Log2FloorNonZeroCount(n) == BitLength(n)

(* Bits::log2_floor_non_zero: 31 ^ n.leading_zeros().                      *)
Log2FloorNonZero(n) == 31 ^^ LeadingZeros(n)

(* Bits::log2_floor: -1 for 0.                                              *)
Log2Floor(n) == IF n = 0 THEN -1 ELSE Log2FloorNonZero(n)

(* Bits::find_lsb_set_non_zero as written: n.leading_zeros(), where its    *)
(* comment (and the C++ original's ctz) asks for the lowest set bit.       *)
FindLsbSetNonZero(n) == LeadingZeros(n)

(* Varint::MAX32                                                           *)
MAX32 == 5

(* Fault variant of Encode32: the width tests with <= (v <= 2^7, ...).    *)
Encode32Inclusive(v) ==
    LET n == IF v <= 2^7 THEN 1 ELSE IF v <= 2^14 THEN 2
             ELSE IF v <= 2^21 THEN 3 ELSE IF v <= 2^28 THEN 4 ELSE MAX32
    IN [i \in 1..n |-> ((v \div 2^(7 * (i - 1))) % 128)
                         + (IF i < n THEN 128 ELSE 0)]

(***************************************************************************)
(* Varint::encode32(v): the code's five cases v < 2^7, 2^14, 2^21, 2^28   *)
(* and the rest; every byte but the last carries the bit B = 128.          *)
(***************************************************************************)
Encode32(v) ==
    LET n == IF v < 2^7 THEN 1 ELSE IF v < 2^14 THEN 2
             ELSE IF v < 2^21 THEN 3 ELSE IF v < 2^28 THEN 4 ELSE MAX32
    IN [i \in 1..n |-> ((v \div 2^(7 * (i - 1))) % 128)
                         + (IF i < n THEN 128 ELSE 0)]

(* Varint::append32(s, value)                                              *)
Append32(s, value) == s \o Encode32(value)

(***************************************************************************)
(* Varint::parse32_with_limit over positions p .. limit - 1: the unrolled *)
(* reads of bytes 1-4 stop at a byte below 128; the fifth must be below   *)
(* 16 (at most 32 bits in all), else the varint is refused.  ok = FALSE   *)
(* is the code's null; next is the returned pointer.                       *)
(***************************************************************************)
RECURSIVE Parse32Loop(_, _, _, _, _)
Parse32Loop(bytes, p, limit, result, shift) ==
    IF p >= limit THEN [ok |-> FALSE, value |-> 0, next |-> p]
    ELSE LET b == bytes[p]
             acc == result + (b % 128) * 2^shift
         IN IF shift < 28
            THEN IF b < 128 THEN [ok |-> TRUE, value |-> acc, next |-> p + 1]
                 ELSE Parse32Loop(bytes, p + 1, limit, acc, shift + 7)
            ELSE IF b < 16 THEN [ok |-> TRUE, value |-> acc, next |-> p + 1]
                 ELSE [ok |-> FALSE, value |-> 0, next |-> p]

Parse32WithLimit(bytes, p, limit) == Parse32Loop(bytes, p, limit, 0, 0)

=============================================================================
