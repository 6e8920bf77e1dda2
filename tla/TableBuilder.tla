---------------------------- MODULE TableBuilder ----------------------------
(***************************************************************************)
(* TableBuilder (src/src/table/table_builder.rs declares it; its bodies   *)
(* are not in the repository, so this module follows spec.md 4.3 and the *)
(* table format of 3 and 6).  It drives a data BlockBuilder entry by      *)
(* entry, flushes it into the file when its size estimate reaches         *)
(* BlockSize, records the flushed block's handle in an index block keyed  *)
(* by a short separator, feeds the filter builder, and at finish() writes *)
(* the filter block, the metaindex block, the index block and the footer. *)
(*                                                                         *)
(* The builder's Rep is the record r.  Its blocks are records of module   *)
(* BlockBuilder and FilterBlock, changed by those modules' operators, so  *)
(* every call of the table builder is one step: add(), flush() and        *)
(* finish() run their nested calls (write_block, write_raw_block, the     *)
(* filter's start_block) to the end.  The file is the byte sequence       *)
(* appended; an append or a file flush may fail with an I/O error, which  *)
(* becomes the builder's sticky status.  The action's argument failAt     *)
(* names which of its I/O calls fails first (0: none).  Blocks are        *)
(* written uncompressed: compression is an opaque function in the spec.   *)
(* History variables: entries, the pairs added, and outcome.              *)
(***************************************************************************)
EXTENDS Naturals, Sequences, SequencesExt, FiniteSets, Coding, Comparator

CONSTANTS
    Keys, Values,            \* keys and values a caller may add
    Compare(_, _),           \* options.comparator.compare
    BlockRestartInterval,    \* options.block_restart_interval
    BlockSize,               \* options.block_size
    MaxEntries,              \* bound on add() calls
    Crc(_),                  \* the masked crc32c of a block and its type
    CreateFilter(_),         \* options.filter_policy.create_filter
    PolicyKeyMayMatch(_, _), \* options.filter_policy.key_may_match
    FilterKey,               \* "filter." followed by the policy's name
    IOErrors                 \* may the file's append and flush fail?

ASSUME IOErrors \in BOOLEAN

(* The data and metaindex blocks use the options' restart interval, the   *)
(* index block an interval of 1.  Only these modules' operators are used. *)
Data == INSTANCE BlockBuilder WITH RestartInterval <- BlockRestartInterval,
            buffer <- <<>>, restarts <- <<>>, counter <- 0, finished <- FALSE,
            last_key <- <<>>, aborted <- FALSE, added <- <<>>
Index == INSTANCE BlockBuilder WITH RestartInterval <- 1,
            buffer <- <<>>, restarts <- <<>>, counter <- 0, finished <- FALSE,
            last_key <- <<>>, aborted <- FALSE, added <- <<>>
Filter == INSTANCE FilterBlock WITH BlockOffsets <- {}, MaxKeys <- 0,
            NoBlock <- "none", fb <- <<>>, cur <- "none", added <- <<>>,
            done <- FALSE

kNoCompression == 0
kBlockTrailerSize == 5
(* kTableMagicNumber 0xdb4775248b80fb57 as two little-endian fixed32s.    *)
MagicBytes == <<87, 251, 128, 139, 36, 117, 71, 219>>
(* 2 * BlockHandle::kMaxEncodedLength                                      *)
HandlesLength == 40

VARIABLES r, entries, outcome

vars == <<r, entries, outcome>>

Entry(k, v) == [key |-> k, value |-> v]

(* TableBuilder::new: empty blocks, and filter_block.start_block(0).      *)
Init ==
    /\ r = [file |-> <<>>, offset |-> 0, status |-> "ok", calls |-> 0,
            data |-> Data!EmptyBuilder, index |-> Index!EmptyBuilder,
            filter |-> Filter!FilterStartBlock(Filter!EmptyFilterBuilder, 0),
            last_key |-> <<>>, num_entries |-> 0,
            pending_index_entry |-> FALSE,
            pending_handle |-> [offset |-> 0, size |-> 0],
            closed |-> FALSE, aborted |-> FALSE]
    /\ entries = <<>>
    /\ outcome = "open"

(* BlockHandle::encode_to: varint64 offset, varint64 size.                  *)
EncodeHandle(h) == PutVarint64(PutVarint64(<<>>, h.offset), h.size)

(* Footer::encode_to: the two handles padded to 40 bytes, then the magic. *)
EncodeFooter(metaindex, index) ==
    LET hs == EncodeHandle(metaindex) \o EncodeHandle(index)
    IN hs \o [i \in 1..(HandlesLength - Len(hs)) |-> 0] \o MagicBytes

Abort(st) == [st EXCEPT !.aborted = TRUE]

(* file.append(bytes) as the I/O call number calls + 1.                   *)
FileAppend(st, bytes, failAt) ==
    IF st.calls + 1 = failAt
    THEN [st EXCEPT !.calls = @ + 1, !.status = "io_error"]
    ELSE [st EXCEPT !.calls = @ + 1, !.file = @ \o bytes]

(* file.flush()                                                            *)
FileFlush(st, failAt) ==
    IF st.calls + 1 = failAt
    THEN [st EXCEPT !.calls = @ + 1, !.status = "io_error"]
    ELSE [st EXCEPT !.calls = @ + 1]

(* The block trailer: type byte and crc of contents and type.             *)
Trailer(contents) ==
    <<kNoCompression>> \o EncodeFixed32(Crc(contents \o <<kNoCompression>>))

(* The offset moves past a write only if its last append succeeded.      *)
AdvanceOffset(st, n) == IF st.status # "ok" THEN st ELSE [st EXCEPT !.offset = @ + n]

(* Fault variant of RawBlockTrailer: the offset advanced by the contents  *)
(* alone, not by the trailer.                                              *)
RawBlockTrailerNoTrailer(st, contents, failAt) ==
    IF st.status # "ok" THEN st
    ELSE AdvanceOffset(FileAppend(st, Trailer(contents), failAt), Len(contents))

(* write_raw_block after the contents' append: on success the trailer,    *)
(* and on its success the offset past both.                               *)
RawBlockTrailer(st, contents, failAt) ==
    IF st.status # "ok" THEN st
    ELSE AdvanceOffset(FileAppend(st, Trailer(contents), failAt),
                       Len(contents) + kBlockTrailerSize)

(* write_raw_block: the handle (taken by the caller) is offset and size.   *)
WriteRawBlock(st, contents, failAt) ==
    RawBlockTrailer(FileAppend(st, contents, failAt), contents, failAt)

(* write_block's raw contents: block.finish().                             *)
BlockContents(b) == Data!FinishBytes(b.buffer, b.restarts)

HandleAt(st, contents) == [offset |-> st.offset, size |-> Len(contents)]

(* flush()'s write_block(data_block, pending_handle), which resets the    *)
(* block whatever the status.                                              *)
WriteDataBlock(st, failAt) ==
    [WriteRawBlock(st, BlockContents(st.data), failAt) EXCEPT
        !.data = Data!EmptyBuilder,
        !.pending_handle = HandleAt(st, BlockContents(st.data))]

(* flush() after the block: on success pending_index_entry = true and     *)
(* status = file.flush(); then, always, filter_block.start_block(offset). *)
StartFilterBlock(st) == [st EXCEPT !.filter = Filter!FilterStartBlock(@, st.offset)]

FlushWritten(st, failAt) ==
    StartFilterBlock(IF st.status = "ok"
                     THEN FileFlush([st EXCEPT !.pending_index_entry = TRUE], failAt)
                     ELSE st)

(* flush(): nothing when the status is an error or the data block empty;  *)
(* assert(!pending_index_entry).                                           *)
Flush(st, failAt) ==
    IF st.status # "ok" \/ Data!Empty(st.data) THEN st
    ELSE IF st.pending_index_entry THEN Abort(st)
    ELSE FlushWritten(WriteDataBlock(st, failAt), failAt)

(* Fault variant of AddPendingIndexEntry: the separator from the          *)
(* inclusive variant of find_shortest_separator.                          *)
AddPendingIndexEntryInclusive(st, key) ==
    LET sep == FindShortestSeparatorInclusive(st.last_key, key)
    IN IF ~st.pending_index_entry THEN st
       ELSE IF ~Index!AddAssertion(st.index, sep) THEN Abort(st)
       ELSE [st EXCEPT !.index = Index!BlockAdd(@, sep, EncodeHandle(st.pending_handle)),
                       !.pending_index_entry = FALSE]

(* add(): the pending index entry, keyed by find_shortest_separator of    *)
(* last_key and key, is added to the index block first.                    *)
AddPendingIndexEntry(st, key) ==
    LET sep == FindShortestSeparator(st.last_key, key)
    IN IF ~st.pending_index_entry THEN st
       ELSE IF ~Index!AddAssertion(st.index, sep) THEN Abort(st)
       ELSE [st EXCEPT !.index = Index!BlockAdd(@, sep, EncodeHandle(st.pending_handle)),
                       !.pending_index_entry = FALSE]

(* add(): flush() once current_size_estimate() reaches block_size.        *)
FlushIfFull(st, failAt) ==
    IF Data!CurrentSizeEstimate(st.data) >= BlockSize THEN Flush(st, failAt) ELSE st

(* add(): the data block's add, with its own order assertion.              *)
AddToData(st, key, value, failAt) ==
    IF ~Data!AddAssertion(st.data, key) THEN Abort(st)
    ELSE FlushIfFull([st EXCEPT !.data = Data!BlockAdd(@, key, value)], failAt)

(* add(): filter_block.add_key, last_key and num_entries.                 *)
AddToBlocks(st, key, value, failAt) ==
    IF st.aborted THEN st
    ELSE AddToData([st EXCEPT !.filter = Filter!FilterAddKey(@, key),
                              !.last_key = key, !.num_entries = @ + 1],
                   key, value, failAt)

(***************************************************************************)
(* add(key, value), for an ok status (otherwise it returns at once):      *)
(* assert compare(key, last_key) > 0 after the first entry; then the      *)
(* pending index entry, the filter, the data block and the flush.         *)
(***************************************************************************)
AddStep(st, key, value, failAt) ==
    IF st.num_entries > 0 /\ ~(Compare(key, st.last_key) > 0) THEN Abort(st)
    ELSE AddToBlocks(AddPendingIndexEntry(st, key), key, value, failAt)

(* finish(), step 2: the metaindex block, one entry FilterKey -> handle.   *)
MetaindexBlock(filterHandle) ==
    Data!BlockAdd(Data!EmptyBuilder, FilterKey, EncodeHandle(filterHandle))

(* Fault variant of AddLastIndexEntry: finish() forgets the pending entry. *)
AddLastIndexEntrySkipped(st) == st

(* finish(), step 3: the last pending index entry, keyed by                *)
(* find_short_successor(last_key).                                         *)
AddLastIndexEntry(st) ==
    LET succ == FindShortSuccessor(st.last_key)
    IN IF ~st.pending_index_entry THEN st
       ELSE IF ~Index!AddAssertion(st.index, succ) THEN Abort(st)
       ELSE [st EXCEPT !.index = Index!BlockAdd(@, succ, EncodeHandle(st.pending_handle)),
                       !.pending_index_entry = FALSE]

(* finish(), step 5: the footer; its append moves offset on success.      *)
FinishFooter(st, mh, ih, failAt) ==
    IF st.status # "ok" THEN st
    ELSE AdvanceOffset(FileAppend(st, EncodeFooter(mh, ih), failAt),
                       Len(EncodeFooter(mh, ih)))

(* finish(), step 4: write_block(index_block), which resets it.            *)
WriteIndexBlock(st, mh, failAt) ==
    IF st.aborted THEN st
    ELSE FinishFooter([WriteRawBlock(st, BlockContents(st.index), failAt) EXCEPT
                           !.index = Index!EmptyBuilder],
                      mh, HandleAt(st, BlockContents(st.index)), failAt)

FinishIndex(st, mh, failAt) ==
    IF st.status # "ok" THEN st ELSE WriteIndexBlock(AddLastIndexEntry(st), mh, failAt)

(* finish(), step 2: write_block(meta_index_block).                        *)
FinishMetaindex(st, fh, failAt) ==
    IF st.status # "ok" THEN st
    ELSE FinishIndex(WriteRawBlock(st, BlockContents(MetaindexBlock(fh)), failAt),
                     HandleAt(st, BlockContents(MetaindexBlock(fh))), failAt)

(* finish(), step 1: the filter block, written raw and uncompressed.       *)
FinishFilter(st, failAt) ==
    IF st.aborted \/ st.status # "ok" THEN st
    ELSE FinishMetaindex([WriteRawBlock(st, Filter!FilterFinish(st.filter).result, failAt)
                             EXCEPT !.filter = Filter!FilterFinish(st.filter)],
                         HandleAt(st, Filter!FilterFinish(st.filter).result), failAt)

(***************************************************************************)
(* finish(): flush(); closed = true; then, each only while the status is  *)
(* ok, the filter block, the metaindex block, the index block (after its  *)
(* last entry) and the footer.                                             *)
(***************************************************************************)
FinishStep(st, failAt) ==
    FinishFilter([Flush(st, failAt) EXCEPT !.closed = TRUE], failAt)

(* The I/O call that fails first in a step, or 0 for none.                 *)
FailPoints == IF IOErrors THEN 0..10 ELSE {0}

(* The counter of I/O calls is local to a step.                            *)
Settle(st) == [st EXCEPT !.calls = 0]

CallerMayCall == ~r.closed /\ ~r.aborted

(* add(key, value): REQUIRES keys in increasing order, not closed.         *)
Add(key, value) ==
    /\ CallerMayCall
    /\ r.status = "ok"
    /\ IF entries = <<>> THEN TRUE ELSE LexLess(Last(entries).key, key)
    /\ Len(entries) < MaxEntries
    /\ \E failAt \in FailPoints : r' = Settle(AddStep(r, key, value, failAt))
    /\ entries' = Append(entries, Entry(key, value))
    /\ UNCHANGED outcome

(* flush(), called by the client.                                          *)
ClientFlush ==
    /\ CallerMayCall
    /\ \E failAt \in FailPoints : r' = Settle(Flush(r, failAt))
    /\ UNCHANGED <<entries, outcome>>

Finish ==
    /\ CallerMayCall
    /\ \E failAt \in FailPoints : r' = Settle(FinishStep(r, failAt))
    /\ outcome' = "finished"
    /\ UNCHANGED entries

(* abandon(): closed = true, nothing written.                              *)
Abandon ==
    /\ CallerMayCall
    /\ r' = [r EXCEPT !.closed = TRUE]
    /\ outcome' = "abandoned"
    /\ UNCHANGED entries

Next ==
    \/ \E k \in Keys, v \in Values : Add(k, v)
    \/ ClientFlush
    \/ Finish
    \/ Abandon

Spec == Init /\ [][Next]_vars

-----------------------------------------------------------------------------
(***************************************************************************)
(* A reference reader of a finished file (spec.md 3 and 6): the footer's *)
(* two handles, each block checked against its trailer, the index block's *)
(* entries read as separator -> data block handle.  A file it cannot read *)
(* reads as the one entry Corrupt.                                         *)
(***************************************************************************)
Footer(file) ==
    LET f == SubSeq(file, Len(file) - 47, Len(file))
        m1 == GetVarint64Ptr(f, 1, HandlesLength + 1)
        m2 == GetVarint64Ptr(f, m1.next, HandlesLength + 1)
        i1 == GetVarint64Ptr(f, m2.next, HandlesLength + 1)
        i2 == GetVarint64Ptr(f, i1.next, HandlesLength + 1)
    IN [ok |-> Len(file) >= 48 /\ m1.ok /\ m2.ok /\ i1.ok /\ i2.ok
                /\ SubSeq(f, HandlesLength + 1, 48) = MagicBytes,
        metaindex |-> [offset |-> m1.value, size |-> m2.value],
        index |-> [offset |-> i1.value, size |-> i2.value]]

(* A handle's value bytes decoded.                                          *)
DecodeHandle(bytes) ==
    LET o == GetVarint64Ptr(bytes, 1, Len(bytes) + 1)
        s == GetVarint64Ptr(bytes, o.next, Len(bytes) + 1)
    IN [offset |-> o.value, size |-> s.value]

BlockAt(file, h) == SubSeq(file, h.offset + 1, h.offset + h.size)

(* The block lies before the footer and its trailer matches.               *)
BlockValid(file, h) ==
    /\ h.offset + h.size + kBlockTrailerSize <= Len(file) - 48
    /\ SubSeq(file, h.offset + h.size + 1, h.offset + h.size + kBlockTrailerSize)
         = Trailer(BlockAt(file, h))

(* The index: one record per data block, its separator and its entries.   *)
IndexOf(file) ==
    LET ft == Footer(file)
        idx == Data!BlockEntries(BlockAt(file, ft.index))
    IN [i \in DOMAIN idx |->
          [sep |-> idx[i].key, handle |-> DecodeHandle(idx[i].value),
           entries |-> Data!BlockEntries(BlockAt(file, DecodeHandle(idx[i].value)))]]

(* The filter block the metaindex names under FilterKey.                   *)
FilterHandles(file) ==
    LET meta == Data!BlockEntries(BlockAt(file, Footer(file).metaindex))
    IN {DecodeHandle(meta[i].value) : i \in {j \in DOMAIN meta : meta[j].key = FilterKey}}

FileReadable(file) ==
    /\ Footer(file).ok
    /\ BlockValid(file, Footer(file).index)
    /\ BlockValid(file, Footer(file).metaindex)
    /\ \A i \in DOMAIN IndexOf(file) : BlockValid(file, IndexOf(file)[i].handle)
    /\ Cardinality(FilterHandles(file)) = 1
    /\ \A h \in FilterHandles(file) : BlockValid(file, h)

ReadTable(file) ==
    IF FileReadable(file)
    THEN FlattenSeq([i \in DOMAIN IndexOf(file) |-> IndexOf(file)[i].entries])
    ELSE <<Data!Corrupt>>

FinishedOk == outcome = "finished" /\ r.status = "ok" /\ ~r.aborted

-----------------------------------------------------------------------------
(***************************************************************************)
(* file_size() is the number of bytes in the file while the status is ok *)
(* (spec.md 4.3: after a successful finish() it equals the total bytes    *)
(* written).  Every handle is taken from offset, so a write that moves    *)
(* the file without offset, or offset without the file, misplaces every   *)
(* later block.  After a failed append the two may differ.                *)
(***************************************************************************)
OffsetIsFileSize == r.status = "ok" => r.offset = Len(r.file)

(***************************************************************************)
(* The index separates the blocks (spec.md 3): each data block's          *)
(* separator is at or after the block's last key and before the next      *)
(* block's first key, and no data block is empty.  A lookup that follows  *)
(* the index to the first separator >= key lands in the only block that   *)
(* can hold it.  This is the contract find_shortest_separator and         *)
(* find_short_successor must keep at every flush boundary.                *)
(***************************************************************************)
IndexSeparatesBlocks ==
    FinishedOk =>
      LET ix == IndexOf(r.file)
      IN \A i \in DOMAIN ix :
           /\ ix[i].entries # <<>>
           /\ ~LexLess(ix[i].sep, Last(ix[i].entries).key)
           /\ i < Len(ix) => LexLess(ix[i].sep, ix[i + 1].entries[1].key)

=============================================================================
