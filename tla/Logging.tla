------------------------------ MODULE Logging ------------------------------
(***************************************************************************)
(* The number helpers of src/src/util/logging.rs.  A u64 does not fit     *)
(* TLC's integers, so a number is its sequence of decimal digits without  *)
(* leading zeros (zero is <<>>); comparing two such sequences is          *)
(* comparing lengths, then digits.  That keeps the full 64-bit width of   *)
(* the overflow guard in consume_decimal_number.  Text is a byte sequence.*)
(***************************************************************************)
EXTENDS Naturals, Sequences, FiniteSetsExt

(* u64::MAX = 18446744073709551615                                          *)
MAX_U64 == <<1,8,4,4,6,7,4,4,0,7,3,7,0,9,5,5,1,6,1,5>>

(* MAX_U64 / 10, and '0' + MAX_U64 % 10                                     *)
MAX_U64_DIV_10 == SubSeq(MAX_U64, 1, 19)
LAST_DIGIT_OF_MAX_U64 == 48 + 5

(* Numeric order of two digit sequences without leading zeros.             *)
NumLess(a, b) ==
    \/ Len(a) < Len(b)
    \/ /\ Len(a) = Len(b)
       /\ \E i \in DOMAIN a : SubSeq(a, 1, i - 1) = SubSeq(b, 1, i - 1) /\ a[i] < b[i]

(* number_to_string / u64::to_string: the digits as ASCII, "0" for zero.  *)
NumberToString(num) ==
    IF num = <<>> THEN <<48>> ELSE [i \in DOMAIN num |-> 48 + num[i]]

(* append_number_to(s, num)                                                 *)
AppendNumberTo(s, num) == s \o NumberToString(num)

IsDigit(ch) == ch >= 48 /\ ch <= 57

(* Fault variant of the overflow check: the last-digit clause dropped.      *)
OverflowsShort(value, ch) == NumLess(MAX_U64_DIV_10, value)

(* The overflow check before value * 10 + (ch - '0').                      *)
Overflows(value, ch) ==
    \/ NumLess(MAX_U64_DIV_10, value)
    \/ value = MAX_U64_DIV_10 /\ ch > LAST_DIGIT_OF_MAX_U64

(***************************************************************************)
(* consume_decimal_number(in_slice, val).  The loop reads the leading     *)
(* digits; before digit i it holds value, the number the digits before i  *)
(* spell.  An overflow at any of them returns false at once, leaving val  *)
(* and the slice untouched; otherwise the first non-digit or the end      *)
(* stops it, val is set, the slice loses the digits consumed and the      *)
(* result is digits_consumed != 0.                                         *)
(***************************************************************************)
ConsumeDecimalNumber(in) ==
    LET digits == CHOOSE k \in 0..Len(in) :
                     /\ \A j \in 1..k : IsDigit(in[j])
                     /\ (k = Len(in) \/ ~IsDigit(in[k + 1]))
        value(i) == LET nz == {j \in 1..i : in[j] # 48}
                    IN IF nz = {} THEN <<>>
                       ELSE [j \in 1..(i - Min(nz) + 1) |-> in[Min(nz) + j - 1] - 48]
    IN IF \E i \in 1..digits : Overflows(value(i - 1), in[i])
       THEN [ok |-> FALSE, val |-> "unset", rest |-> in]
       ELSE [ok |-> digits > 0, val |-> value(digits),
             rest |-> SubSeq(in, digits + 1, Len(in))]

=============================================================================
