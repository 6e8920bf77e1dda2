---------------------------- MODULE BlockBuilder ----------------------------
(***************************************************************************)
(* BlockBuilder (src/src/table/block_builder.rs): accumulates sorted      *)
(* key/value pairs into one prefix-compressed block with restart points.  *)
(*                                                                         *)
(* An entry is varint32(shared) varint32(non_shared) varint32(value_len)  *)
(* followed by the unshared key suffix and the value; every              *)
(* RestartInterval entries the key is stored whole and its offset is     *)
(* recorded.  finish() appends the restart offsets and their count as    *)
(* fixed32 words.                                                          *)
(*                                                                         *)
(* The caller is the table builder, which adds keys in increasing order   *)
(* (the documented REQUIRES).  add() checks that order itself with the    *)
(* injected comparator Compare; when that assertion fails the program     *)
(* panics, which the model records in the flag aborted: a panicked        *)
(* program takes no further step.  added is a history variable: the pairs *)
(* added since the last reset, in order.                                  *)
(***************************************************************************)
EXTENDS Naturals, Sequences, SequencesExt, Coding, Comparator

CONSTANTS
    RestartInterval,  \* options.block_restart_interval
    Keys,             \* byte strings the caller may add as keys
    Values,           \* byte strings the caller may add as values
    Compare(_, _),    \* options.comparator.compare, three-way
    MaxEntries        \* bound on the entries added between two resets

ASSUME RestartInterval \in Nat \ {0}
ASSUME MaxEntries \in Nat

VARIABLES
    buffer,    \* destination buffer (bytes)
    restarts,  \* restart points (offsets into buffer)
    counter,   \* entries emitted since the last restart
    finished,  \* has finish() been called?
    last_key,  \* the key most recently added
    aborted,   \* an assertion of add() has panicked
    added      \* history: the <<key, value>> pairs added since reset

vars == <<buffer, restarts, counter, finished, last_key, aborted, added>>
builderVars == <<buffer, restarts, counter, finished, last_key>>

Entry(k, v) == [key |-> k, value |-> v]

(* The builder's fields other than finished, as a record: the table      *)
(* builder holds its blocks as such records.                              *)
Builder == [buffer |-> buffer, restarts |-> restarts, counter |-> counter,
            last_key |-> last_key]

(* BlockBuilder::new and reset(): one restart point at offset 0.            *)
EmptyBuilder == [buffer |-> <<>>, restarts |-> <<0>>, counter |-> 0,
                 last_key |-> <<>>]

Init ==
    /\ buffer = EmptyBuilder.buffer
    /\ restarts = EmptyBuilder.restarts
    /\ counter = EmptyBuilder.counter
    /\ finished = FALSE
    /\ last_key = EmptyBuilder.last_key
    /\ aborted = FALSE
    /\ added = <<>>

Reset ==
    /\ ~aborted
    /\ buffer' = EmptyBuilder.buffer
    /\ restarts' = EmptyBuilder.restarts
    /\ counter' = EmptyBuilder.counter
    /\ finished' = FALSE
    /\ last_key' = EmptyBuilder.last_key
    /\ added' = <<>>
    /\ UNCHANGED aborted

(* empty(): no entry since the last reset.                                  *)
Empty(b) == b.buffer = <<>>

(* Caller contract of add(): not finished, key above every key added.      *)
CallerMayAdd(key) ==
    /\ ~finished
    /\ IF added = <<>> THEN TRUE ELSE LexLess(Last(added).key, key)

(* The assertion of add(): first entry, or key > last_key per Compare.     *)
AddAssertion(b, key) == b.buffer = <<>> \/ Compare(key, b.last_key) > 0

(* Fault variant of RestartDue: restart one entry late (counter >).      *)
RestartDueLate(b) == b.counter > RestartInterval

(* Restart due: the counter has reached the restart interval.              *)
RestartDue(b) == b.counter >= RestartInterval

(* Fault variant of SharedBytes: prefix sharing kept at restart points.   *)
SharedBytesAtRestart(b, key) == SharedPrefixLen(b.last_key, key)

(* shared: prefix shared with last_key, 0 at a restart point.              *)
SharedBytes(b, key) == IF RestartDue(b) THEN 0 ELSE SharedPrefixLen(b.last_key, key)

(* Fault variant of EncodeEntry: the whole key written, not its suffix.   *)
EncodeEntryWholeKey(key, value, shared) ==
    EncodeVarint32(shared) \o EncodeVarint32(Len(key) - shared)
        \o EncodeVarint32(Len(value)) \o key \o value

(* Encoded entry: <shared><non_shared><value_size> key_delta value.        *)
EncodeEntry(key, value, shared) ==
    EncodeVarint32(shared) \o EncodeVarint32(Len(key) - shared)
        \o EncodeVarint32(Len(value)) \o SubSeq(key, shared + 1, Len(key))
        \o value

(* last_key.resize(shared) followed by extending it with the key delta.    *)
NewLastKey(b, key, shared) ==
    SubSeq(b.last_key, 1, shared) \o SubSeq(key, shared + 1, Len(key))

(* The builder after add(key, value) once its assertion has passed.        *)
BlockAdd(b, key, value) ==
    LET shared == SharedBytes(b, key)
    IN [buffer |-> b.buffer \o EncodeEntry(key, value, shared),
        restarts |-> IF RestartDue(b) THEN Append(b.restarts, Len(b.buffer))
                     ELSE b.restarts,
        counter |-> IF RestartDue(b) THEN 1 ELSE b.counter + 1,
        last_key |-> NewLastKey(b, key, shared)]

(* add(key, value): the whole method, assertion panic included.            *)
Add(key, value) ==
    /\ ~aborted
    /\ CallerMayAdd(key)
    /\ Len(added) < MaxEntries
    /\ \/ /\ ~AddAssertion(Builder, key)
          /\ aborted' = TRUE
          /\ UNCHANGED <<builderVars, added>>
       \/ /\ AddAssertion(Builder, key)
          /\ LET nb == BlockAdd(Builder, key, value)
             IN /\ buffer' = nb.buffer
                /\ restarts' = nb.restarts
                /\ counter' = nb.counter
                /\ last_key' = nb.last_key
          /\ added' = Append(added, Entry(key, value))
          /\ UNCHANGED <<finished, aborted>>

(* The bytes finish() appends: each restart offset, then their count.      *)
FinishBytes(buf, rs) ==
    PutFixed32(buf \o FlattenSeq([i \in DOMAIN rs |-> EncodeFixed32(rs[i])]),
               Len(rs))

(* finish() has no check of its own: a second call appends the restart    *)
(* array again.  The table builder calls it once per block.               *)
Finish ==
    /\ ~aborted
    /\ buffer' = FinishBytes(buffer, restarts)
    /\ finished' = TRUE
    /\ UNCHANGED <<restarts, counter, last_key, aborted, added>>

(* current_size_estimate(): buffer, restart array and its length word.     *)
CurrentSizeEstimate(b) == Len(b.buffer) + 4 * Len(b.restarts) + 4

(* Caller contract of finish(): once per block, before the next reset.    *)
CallerMayFinish == ~finished

Next ==
    \/ \E k \in Keys, v \in Values : Add(k, v)
    \/ CallerMayFinish /\ Finish
    \/ Reset

Spec == Init /\ [][Next]_vars

-----------------------------------------------------------------------------
TypeOK ==
    /\ buffer \in Seq(0..255)
    /\ restarts \in Seq(Nat)
    /\ counter \in 0..RestartInterval
    /\ finished \in BOOLEAN
    /\ last_key \in Seq(0..255)
    /\ aborted \in BOOLEAN
    /\ added \in Seq([key : Keys, value : Values])

(***************************************************************************)
(* Reference reader: the decoding contract of the format.  The trailer    *)
(* gives the restart count and array; entries are read from a position,   *)
(* each key rebuilt from the shared prefix of the previous one.  A        *)
(* malformed entry yields Corrupt.                                         *)
(***************************************************************************)
Corrupt == [key |-> <<>>, value |-> <<256>>]

RECURSIVE DecodeEntries(_, _, _, _)
DecodeEntries(blk, p, limit, prev) ==
    IF p >= limit THEN <<>>
    ELSE
      LET s  == GetVarint32Ptr(blk, p, limit)
          ns == GetVarint32Ptr(blk, s.next, limit)
          vl == GetVarint32Ptr(blk, ns.next, limit)
          k0 == vl.next
          v0 == k0 + ns.value
          nx == v0 + vl.value
      IN IF ~(s.ok /\ ns.ok /\ vl.ok) \/ nx > limit \/ s.value > Len(prev)
         THEN <<Corrupt>>
         ELSE LET key == SubSeq(prev, 1, s.value) \o SubSeq(blk, k0, v0 - 1)
              IN <<Entry(key, SubSeq(blk, v0, nx - 1))>>
                     \o DecodeEntries(blk, nx, limit, key)

NumRestarts(blk) == DecodeFixed32(blk, Len(blk) - 3)
RestartOffset(blk) == Len(blk) - 4 * (1 + NumRestarts(blk))
RestartArray(blk) ==
    [i \in 1..NumRestarts(blk) |->
        DecodeFixed32(blk, RestartOffset(blk) + 1 + 4 * (i - 1))]

(* All entries of a finished block, read from the start.                   *)
BlockEntries(blk) == DecodeEntries(blk, 1, RestartOffset(blk) + 1, <<>>)

(* The block finish() returns now, or has returned.                        *)
Contents == IF finished THEN buffer ELSE FinishBytes(buffer, restarts)

(***************************************************************************)
(* Round trip: at any moment, the block finish() produces (or produced)   *)
(* reads back as exactly the pairs added, in order.  Covers add()'s       *)
(* prefix compression against its own last_key bookkeeping and finish()'s *)
(* trailer.                                                                *)
(***************************************************************************)
BlockRoundTrip == ~aborted => BlockEntries(Contents) = added

(***************************************************************************)
(* Restart points are self-contained: reading from the i-th restart       *)
(* offset with no previous key yields exactly the entries from the        *)
(* ((i-1)*RestartInterval+1)-th on.  This is what a reader's binary       *)
(* search over restart points relies on; it breaks if add() shares a      *)
(* prefix at a restart or records the wrong offset.                       *)
(***************************************************************************)
RestartsSelfContained ==
    ~aborted =>
      LET blk == Contents
          rs == RestartArray(blk)
      IN /\ Len(rs) = Len(restarts)
         /\ \A i \in DOMAIN rs :
              DecodeEntries(blk, rs[i] + 1, RestartOffset(blk) + 1, <<>>)
                = SubSeq(added, (i - 1) * RestartInterval + 1, Len(added))

(***************************************************************************)
(* A caller that honours add()'s contract (strictly increasing keys in    *)
(* byte order) never trips add()'s ordering assertion.                    *)
(***************************************************************************)
NoAbortOnSortedInput == ~aborted

=============================================================================
