---------------------------- MODULE FilterPolicy ----------------------------
(***************************************************************************)
(* Filter policies (src/src/filter_policy.rs): create_filter appends a    *)
(* filter summarising a list of keys, key_may_match asks a filter about   *)
(* one key.  The trait's contract: key_may_match must answer TRUE for     *)
(* every key that was in the list; it may answer TRUE for others.         *)
(*                                                                         *)
(* The only policy in the repository is TestHashFilter, in the tests of   *)
(* src/src/table/filter_block.rs: one fixed32 word hash(key, 1) per key,  *)
(* and a scan of the words.  KeyHash stands for hash::hash(key, 1): the   *)
(* model takes it collision-free on the bounded keys (keys of at most two *)
(* bytes read as a number), so every positive answer of the policy is    *)
(* about the key itself.                                                  *)
(***************************************************************************)
EXTENDS Naturals, Sequences, SequencesExt, Coding

KeyHash(key) ==
    65536 * Len(key) + FoldLeft(LAMBDA acc, b : 256 * acc + b, 0, key)

(* The hash words the scan reads: fixed32 words at offsets i = 0, 4, 8,   *)
(* ... while i + 4 < scan_end.                                             *)
FilterWords(filter, scan_end) ==
    {DecodeFixed32(filter, i + 1) :
        i \in {j \in 0..Len(filter) : j % 4 = 0 /\ j + 4 < scan_end}}

(* TestHashFilter::create_filter: put_fixed32(dst, hash(key)) per key.     *)
TestHashCreateFilter(keys) ==
    FlattenSeq([i \in DOMAIN keys |-> EncodeFixed32(KeyHash(keys[i]))])

(* TestHashFilter::key_may_match: scan while i + 4 < filter.size().        *)
TestHashKeyMayMatch(key, filter) ==
    KeyHash(key) \in FilterWords(filter, Len(filter))

(* A policy meeting the trait's contract with no false positive at all:   *)
(* TestHashFilter's filter, scanned over every whole word.                *)
ExactKeyMayMatch(key, filter) ==
    KeyHash(key) \in FilterWords(filter, Len(filter) + 1)

=============================================================================
