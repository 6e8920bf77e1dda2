----------------------------- MODULE Comparator -----------------------------
(***************************************************************************)
(* The byte-wise key order of the repository: Slice::compare              *)
(* (src/src/slice.rs), which BytewiseComparatorImpl::compare forwards to, *)
(* and the comparator's key-shortening helpers find_shortest_separator   *)
(* and find_short_successor (src/src/util/comparator.rs).  Keys are byte  *)
(* sequences.  LexLess is the reference: the lexicographic order the      *)
(* comparator's contract (three-way, "< 0 iff a < b") promises.           *)
(***************************************************************************)
EXTENDS Naturals, Sequences, SequencesExt

(* Length of the common prefix of a and b: the code's while loop over     *)
(* min_length comparing bytes (also BlockBuilder::add's shared count).    *)
SharedPrefixLen(a, b) == Len(LongestCommonPrefix({a, b}))

(* memcmp over the first n bytes, reduced to its sign.                     *)
Memcmp(a, b, n) ==
    LET d == SharedPrefixLen(SubSeq(a, 1, n), SubSeq(b, 1, n))
    IN IF d = n THEN 0 ELSE IF a[d + 1] < b[d + 1] THEN -1 ELSE 1

(* Slice::compare: memcmp over the shorter length, then the length tie-   *)
(* break.  The tie-break sits inside "if self.size < b.size()", so its    *)
(* "else if self.size > b.size()" arm can never be taken.                 *)
BytewiseCompare(a, b) ==
    LET min_len == IF Len(a) < Len(b) THEN Len(a) ELSE Len(b)
        r == Memcmp(a, b, min_len)
    IN IF r = 0 /\ Len(a) < Len(b) THEN -1 ELSE r

(* Fault variant of FindShortestSeparator: diff_byte + 1 <= limit byte.   *)
FindShortestSeparatorInclusive(start, limit) ==
    LET min_length == IF Len(start) < Len(limit) THEN Len(start) ELSE Len(limit)
        diff_index == SharedPrefixLen(SubSeq(start, 1, min_length),
                                      SubSeq(limit, 1, min_length))
    IN IF diff_index >= min_length
       THEN start
       ELSE LET diff_byte == start[diff_index + 1]
            IN IF diff_byte < 255 /\ diff_byte + 1 <= limit[diff_index + 1]
               THEN Append(SubSeq(start, 1, diff_index), diff_byte + 1)
               ELSE start

(* find_shortest_separator(start, limit): the new value of start.          *)
FindShortestSeparator(start, limit) ==
    LET min_length == IF Len(start) < Len(limit) THEN Len(start) ELSE Len(limit)
        diff_index == SharedPrefixLen(SubSeq(start, 1, min_length),
                                      SubSeq(limit, 1, min_length))
    IN IF diff_index >= min_length
       THEN start
       ELSE LET diff_byte == start[diff_index + 1]
            IN IF diff_byte < 255 /\ diff_byte + 1 < limit[diff_index + 1]
               THEN Append(SubSeq(start, 1, diff_index), diff_byte + 1)
               ELSE start

(* Fault variant of FindShortSuccessor: key resized to i, not i + 1.      *)
FindShortSuccessorCut(key) ==
    LET bumpable == {i \in DOMAIN key : key[i] # 255}
    IN IF bumpable = {}
       THEN key
       ELSE LET i == CHOOSE j \in bumpable : \A m \in bumpable : j <= m
            IN SubSeq(key, 1, i - 1)

(* find_short_successor(key): bump the first byte that is not 0xff and    *)
(* cut the key after it; a run of 0xff bytes is left alone.               *)
FindShortSuccessor(key) ==
    LET bumpable == {i \in DOMAIN key : key[i] # 255}
    IN IF bumpable = {}
       THEN key
       ELSE LET i == CHOOSE j \in bumpable : \A m \in bumpable : j <= m
            IN Append(SubSeq(key, 1, i - 1), key[i] + 1)

-----------------------------------------------------------------------------
(* Reference order: lexicographic comparison of byte strings.              *)
LexLess(a, b) ==
    LET d == SharedPrefixLen(a, b)
    IN IF d = Len(a) THEN Len(a) < Len(b)
                     ELSE d < Len(b) /\ a[d + 1] < b[d + 1]

=============================================================================
