--------------------------- MODULE MCFilterBlock ---------------------------
(***************************************************************************)
(* FilterBlock over block offsets falling in filter ranges 0, 0, 1, 2 and *)
(* 3 (FILTER_BASE = 2048), so that a range holds two blocks, a range is   *)
(* skipped and empty filters are generated, and two one-byte keys.        *)
(***************************************************************************)
EXTENDS FilterBlock, FilterPolicy

MCBlockOffsets == {0, 2000, 3100, 5000, 7000}
MCKeys == {<<97>>, <<98>>}

(* The repository's policy, TestHashFilter.                                *)
MCCreateFilter(keys) == TestHashCreateFilter(keys)
MCTestHashKeyMayMatch(key, filter) == TestHashKeyMayMatch(key, filter)

(* A policy with exactly the trait's guarantee and no false positive.      *)
MCExactKeyMayMatch(key, filter) == ExactKeyMayMatch(key, filter)
=============================================================================
