--------------------------- MODULE MCBlockBuilder ---------------------------
(***************************************************************************)
(* BlockBuilder with the repository's byte-wise comparator, keys of one   *)
(* or two bytes over {'a', 'b'} (so that keys share prefixes and one key   *)
(* can extend another), an empty and a one-byte value, and a restart      *)
(* interval of 2 so that four entries span two restart points.            *)
(***************************************************************************)
EXTENDS BlockBuilder

MCKeys == {<<97>>, <<98>>, <<97, 97>>, <<97, 98>>, <<98, 97>>, <<98, 98>>}
MCValues == {<<>>, <<120>>}

(* BytewiseComparatorImpl::compare, i.e. Slice::compare.                  *)
MCCompare(a, b) == BytewiseCompare(a, b)

=============================================================================
