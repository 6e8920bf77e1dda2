----------------------------- MODULE FilterBlock -----------------------------
(***************************************************************************)
(* FilterBlockBuilder and FilterBlockReader                               *)
(* (src/src/table/filter_block.rs).  The builder receives the call        *)
(* sequence "start_block, then add_key any number of times", repeated,    *)
(* then finish, from the table builder, and emits one filter per         *)
(* FILTER_BASE bytes of data-block offsets:                               *)
(*   [filter_0] .. [filter_k-1] [offset_0] .. [offset_k-1] [array_offset] *)
(*   [FILTER_BASE_LG]                                                      *)
(* The reader parses that block and answers key_may_match(offset, key).   *)
(*                                                                         *)
(* The builder's state is the record fb (keys, start, result and          *)
(* filter_offsets of the struct).  The policy is a parameter.  History    *)
(* variables: cur, the offset of the last start_block (NoBlock before the *)
(* first), added, the sequence of <<offset, key>> pairs added, and done,  *)
(* set by finish (after which the builder takes no call).                 *)
(***************************************************************************)
EXTENDS Naturals, Sequences, SequencesExt, Coding

CONSTANTS
    BlockOffsets,             \* data-block offsets start_block may get
    Keys,                     \* byte strings add_key may get
    MaxKeys,                  \* bound on add_key calls
    CreateFilter(_),          \* policy.create_filter(keys)
    PolicyKeyMayMatch(_, _),  \* policy.key_may_match(key, filter)
    NoBlock                   \* cur before the first start_block

ASSUME BlockOffsets \subseteq Nat /\ MaxKeys \in Nat /\ NoBlock \notin Nat

FILTER_BASE_LG == 11
FILTER_BASE == 2^FILTER_BASE_LG

VARIABLES fb, cur, added, done

vars == <<fb, cur, added, done>>

(* FilterBlockBuilder::new                                                 *)
EmptyFilterBuilder == [keys |-> <<>>, start |-> <<>>, result |-> <<>>,
                       filter_offsets |-> <<>>]

Init ==
    /\ fb = EmptyFilterBuilder
    /\ cur = NoBlock
    /\ added = <<>>
    /\ done = FALSE

(* Fault variant of GenerateFilter: the filter's offset taken after the   *)
(* policy has appended it.                                                 *)
GenerateFilterLateOffset(st) ==
    IF st.start = <<>>
    THEN [st EXCEPT !.filter_offsets = Append(@, Len(st.result))]
    ELSE LET start == Append(st.start, Len(st.keys))
             tmp_keys == [i \in DOMAIN st.start |->
                             SubSeq(st.keys, 1, start[i + 1] - start[1])]
             result == st.result \o CreateFilter(tmp_keys)
         IN [keys |-> <<>>, start |-> <<>>, result |-> result,
             filter_offsets |-> Append(st.filter_offsets, Len(result))]

(***************************************************************************)
(* generate_filter: with no pending key, record an empty filter.  Else    *)
(* push keys.len() onto start and hand policy.create_filter the keys; the *)
(* i-th is built as Slice::from_raw(keys.as_ptr(), start[i+1] - start[0]),*)
(* i.e. the flat buffer from its beginning, not from start[i].            *)
(***************************************************************************)
GenerateFilter(st) ==
    IF st.start = <<>>
    THEN [st EXCEPT !.filter_offsets = Append(@, Len(st.result))]
    ELSE LET start == Append(st.start, Len(st.keys))
             tmp_keys == [i \in DOMAIN st.start |->
                             SubSeq(st.keys, 1, start[i + 1] - start[1])]
         IN [keys |-> <<>>, start |-> <<>>,
             result |-> st.result \o CreateFilter(tmp_keys),
             filter_offsets |-> Append(st.filter_offsets, Len(st.result))]

(* start_block's loop: generate until one filter per earlier range.        *)
RECURSIVE GenerateUpTo(_, _)
GenerateUpTo(st, filter_index) ==
    IF filter_index > Len(st.filter_offsets)
    THEN GenerateUpTo(GenerateFilter(st), filter_index)
    ELSE st

(* The builder after start_block(block_offset).                             *)
FilterStartBlock(st, block_offset) == GenerateUpTo(st, block_offset \div FILTER_BASE)

(* start_block(block_offset).  The table builder passes increasing        *)
(* offsets, so the assert filter_index >= filter_offsets.len() holds.     *)
StartBlock(block_offset) ==
    /\ ~done
    /\ IF cur = NoBlock THEN TRUE ELSE block_offset > cur
    /\ block_offset \div FILTER_BASE >= Len(fb.filter_offsets)
    /\ fb' = FilterStartBlock(fb, block_offset)
    /\ cur' = block_offset
    /\ UNCHANGED <<added, done>>

(* add_key(key): record its start and append its bytes.                    *)
FilterAddKey(st, key) ==
    [st EXCEPT !.start = Append(@, Len(st.keys)), !.keys = @ \o key]

AddKey(key) ==
    /\ ~done
    /\ cur # NoBlock
    /\ Len(added) < MaxKeys
    /\ fb' = FilterAddKey(fb, key)
    /\ added' = Append(added, <<cur, key>>)
    /\ UNCHANGED <<cur, done>>

(* finish's condition for a last generate_filter: start.is_empty().       *)
FinishGenerates(st) == st.start = <<>>

(* Fault variant of FinishLayout: array_offset taken after the offsets.   *)
FinishLayoutLateArrayOffset(st) ==
    LET offsets == FlattenSeq([i \in DOMAIN st.filter_offsets |->
                                  EncodeFixed32(st.filter_offsets[i])])
    IN PutFixed32(st.result \o offsets, Len(st.result \o offsets))
           \o <<FILTER_BASE_LG>>

(* Fault variant of FinishLayout: FILTER_BASE saved instead of its log.   *)
FinishLayoutBase(st) ==
    LET offsets == FlattenSeq([i \in DOMAIN st.filter_offsets |->
                                  EncodeFixed32(st.filter_offsets[i])])
    IN PutFixed32(st.result \o offsets, Len(st.result)) \o <<FILTER_BASE>>

(* The offsets array, array_offset and FILTER_BASE_LG appended to result.  *)
FinishLayout(st) ==
    LET array_offset == Len(st.result)
        offsets == FlattenSeq([i \in DOMAIN st.filter_offsets |->
                                  EncodeFixed32(st.filter_offsets[i])])
    IN PutFixed32(st.result \o offsets, array_offset) \o <<FILTER_BASE_LG>>

(* finish(): the builder whose result is the finished filter block.       *)
FilterFinish(st) ==
    LET st2 == IF FinishGenerates(st) THEN GenerateFilter(st) ELSE st
    IN [st2 EXCEPT !.result = FinishLayout(st2)]

Finish ==
    /\ ~done
    /\ fb' = FilterFinish(fb)
    /\ done' = TRUE
    /\ UNCHANGED <<cur, added>>

Next ==
    \/ \E o \in BlockOffsets : StartBlock(o)
    \/ \E k \in Keys : AddKey(k)
    \/ Finish

Spec == Init /\ [][Next]_vars

-----------------------------------------------------------------------------
(***************************************************************************)
(* FilterBlockReader::new(contents): fewer than 5 bytes, or an array      *)
(* start past n - 5, leaves num = 0 (every lookup answers TRUE).          *)
(***************************************************************************)
ReaderNew(contents) ==
    LET n == Len(contents)
        last_word == IF n < 5 THEN 0 ELSE DecodeFixed32(contents, n - 4)
    IN IF n < 5 THEN [base_lg |-> 0, offset |-> 0, num |-> 0]
       ELSE IF last_word > n - 5
            THEN [base_lg |-> contents[n], offset |-> 0, num |-> 0]
            ELSE [base_lg |-> contents[n], offset |-> last_word,
                  num |-> (n - 5 - last_word) \div 4]

(* key_may_match(block_offset, key) on a reader r over contents.           *)
ReaderKeyMayMatch(r, contents, block_offset, key) ==
    LET index == block_offset \div (2^r.base_lg)
    IN IF index < r.num
       THEN LET start == DecodeFixed32(contents, r.offset + 4 * index + 1)
                limit == DecodeFixed32(contents, r.offset + 4 * index + 5)
            IN IF start <= limit /\ limit <= r.offset
               THEN PolicyKeyMayMatch(key, SubSeq(contents, start + 1, limit))
               ELSE IF start = limit THEN FALSE ELSE TRUE
       ELSE TRUE

KeyMayMatch(block_offset, key) ==
    ReaderKeyMayMatch(ReaderNew(fb.result), fb.result, block_offset, key)

-----------------------------------------------------------------------------
TypeOK ==
    /\ fb.keys \in Seq(0..255)
    /\ fb.start \in Seq(Nat)
    /\ fb.result \in Seq(0..255)
    /\ fb.filter_offsets \in Seq(Nat)
    /\ cur \in BlockOffsets \cup {NoBlock}
    /\ added \in Seq(BlockOffsets \X Keys)
    /\ done \in BOOLEAN

(* Filter range of a block offset.                                          *)
RangeOf(o) == o \div FILTER_BASE

(***************************************************************************)
(* The reader parses what finish() wrote: base_lg is FILTER_BASE_LG, one  *)
(* offset per generated filter, each read back as recorded.  This is the  *)
(* agreement between finish()'s array_offset and the reader's use of the  *)
(* word after the last offset as the last filter's limit.                 *)
(***************************************************************************)
ReaderSeesBuilderLayout ==
    done =>
      LET r == ReaderNew(fb.result)
      IN /\ r.base_lg = FILTER_BASE_LG
         /\ r.num = Len(fb.filter_offsets)
         /\ \A i \in 1..r.num :
              DecodeFixed32(fb.result, r.offset + 4 * (i - 1) + 1)
                = fb.filter_offsets[i]

(***************************************************************************)
(* A filter range that received no key (start_block was never called in   *)
(* it, or only with no add_key after it) and that has a filter answers    *)
(* FALSE for every key at every offset in the range.  Breaks if           *)
(* generate_filter records filters out of index alignment.                *)
(***************************************************************************)
EmptyRangeNeverMatches ==
    done =>
      \A o \in BlockOffsets, k \in Keys :
        /\ RangeOf(o) < ReaderNew(fb.result).num
        /\ \A i \in DOMAIN added : RangeOf(added[i][1]) # RangeOf(o)
        => ~KeyMayMatch(o, k)

(***************************************************************************)
(* No false negatives (the point of a filter): after finish(), every key  *)
(* added under a block offset may match at that offset.                   *)
(***************************************************************************)
NoFalseNegatives ==
    done => \A i \in DOMAIN added : KeyMayMatch(added[i][1], added[i][2])

(***************************************************************************)
(* Every range has its filter: finish() generates a final filter, so the  *)
(* reader has one filter per range up to the last start_block's (one for *)
(* an empty builder), and no added key is left to the out-of-range        *)
(* default answer.                                                        *)
(***************************************************************************)
FinalRangeFiltered ==
    done =>
      ReaderNew(fb.result).num = IF cur = NoBlock THEN 1 ELSE RangeOf(cur) + 1

=============================================================================
