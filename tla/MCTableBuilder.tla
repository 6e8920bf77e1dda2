--------------------------- MODULE MCTableBuilder ---------------------------
(***************************************************************************)
(* TableBuilder with the repository's byte-wise comparator and            *)
(* TestHashFilter, keys "ab", "b", "ca" (none a prefix of another, so the *)
(* separators and successors are ordered by Slice::compare too), an empty *)
(* and a one-byte value, a restart interval of 2 and a block size of 16   *)
(* bytes: a data block flushes on its second entry, so three entries make *)
(* one- and two-entry blocks, and a client flush() cuts anywhere.  Every  *)
(* append and file flush may fail.                                         *)
(***************************************************************************)
EXTENDS TableBuilder, FilterPolicy

MCKeys == {<<97, 98>>, <<98>>, <<99, 97>>, <<100>>}
MCValues == {<<>>, <<120>>}

MCCompare(a, b) == BytewiseCompare(a, b)

(* A checksum of the block and its type byte: their byte sum.              *)
MCCrc(bytes) == FoldLeft(LAMBDA acc, b : (acc + b) % 65536, 0, bytes)

MCCreateFilter(keys) == TestHashCreateFilter(keys)
MCKeyMayMatch(key, filter) == TestHashKeyMayMatch(key, filter)

(* "filter." followed by the policy's name, abstracted to one byte.        *)
MCFilterKey == <<102>>

-----------------------------------------------------------------------------
(***************************************************************************)
(* read: what the reference reader sees in the file, an auxiliary         *)
(* variable set from each step's result so that the refinement mapping    *)
(* reads the file once per state.                                          *)
(***************************************************************************)
VARIABLE read

TableContents(st, out) ==
    IF out = "finished" /\ st.status = "ok" THEN ReadTable(st.file) ELSE "none"

MCInit == Init /\ read = "none"
ReadAfter == read' = TableContents(r', outcome')

MCNext ==
    \/ \E k \in Keys, v \in Values : Add(k, v) /\ ReadAfter
    \/ ClientFlush /\ ReadAfter
    \/ Finish /\ ReadAfter
    \/ Abandon /\ ReadAfter
MCSpec == MCInit /\ [][MCNext]_<<vars, read>>

(***************************************************************************)
(* The table builder implements the table's promise (module Table): the  *)
(* status becomes an error only through a failed write and then stays    *)
(* one, and a finish() that returns ok leaves a file whose footer, index, *)
(* metaindex and block trailers read back as exactly the entries added,   *)
(* in order.  This ties add()'s pending index entry, flush()'s handle and *)
(* reset, finish()'s last index entry and the footer's handles together,  *)
(* under an I/O failure at any append or flush.                            *)
(***************************************************************************)
AbsTable == INSTANCE Table WITH
    status <- IF r.status = "ok" THEN "ok" ELSE "error",
    phase <- outcome,
    contents <- read

TableRefinement == AbsTable!Spec

=============================================================================
