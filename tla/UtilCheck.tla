------------------------------ MODULE UtilCheck ------------------------------
(***************************************************************************)
(* Checks the pure helpers the table format rests on against reference    *)
(* definitions over bounded inputs: the comparator's key shortening       *)
(* (module Comparator), the codings (Coding), snappy's varint and bit     *)
(* helpers (Snappy), the Park-Miller generator (Random), the Status       *)
(* encoding (Status), decimal parsing (Logging) and the hash (Hash).      *)
(* It also checks LRUCache's list calls (Cache) from every configuration  *)
(* of three handles that the comments' list invariant admits: the code   *)
(* cannot build a cache (new does not compile; insert, lookup, release   *)
(* and erase are declarations), so no reachable state exists to start    *)
(* from, and the invariant is checked inductively, one call at a time.   *)
(* The state is one test case, a record whose kind says which helpers it *)
(* is for; every step moves to an arbitrary case.                         *)
(***************************************************************************)
EXTENDS Integers, Coding, Comparator, Snappy, Random, Status, Logging, Hash, Cache, SnappyInternal, SnappySinkSource

CONSTANTS Alphabet, MaxKeyLen, MaxLog

(* Keys of at most MaxKeyLen bytes over Alphabet.                          *)
TestKeys == UNION {[1..n -> Alphabet] : n \in 0..MaxKeyLen}

(* 0 and the values next to every power of two up to 2^MaxLog.             *)
TestValues == {0} \cup {2^k + d : k \in 0..MaxLog, d \in {-1, 0, 1}}

(* "", "foo" and 200 bytes "x", whose length takes a two-byte varint.     *)
TestStrings == {<<>>, <<102, 111, 111>>, [i \in 1..200 |-> 120]}

(* Seeds: the two fixed points, the bounds of Schrage's split, and values *)
(* whose product makes the first reduction of next() exceed M.             *)
TestSeeds == {0, 1, 2, 16807, 127773, 127774, 65535, 65536, 2^30,
              M - 1, M, 868985321, 1737970642}

(* Status messages "", "a" and "bc"; fill is what an over-read finds.      *)
TestMessages == {<<>>, <<97>>, <<98, 99>>}

(* The decimal digits of a small natural, <<>> for 0.                     *)
RECURSIVE Decimal(_)
Decimal(k) == IF k = 0 THEN <<>> ELSE Append(Decimal(k \div 10), k % 10)

(* The numbers of logging_test.cc's round trips, the hundred numbers from *)
(* u64::MAX - 15 to u64::MAX + 84 (those of its overflow tests among      *)
(* them), u64::MAX / 10, twenty nines, and u64::MAX * 10.                 *)
TestNumbers ==
    {Decimal(k) : k \in {0, 1, 9, 10, 11, 19, 99, 100, 109, 123, 190}}
    \cup {SubSeq(MAX_U64, 1, 18) \o <<x, y>> : x, y \in 0..9}
    \cup {MAX_U64_DIV_10, [i \in 1..20 |-> 9], MAX_U64 \o <<0>>}

(* Paddings after the digits: none, " ", "abc", "\0", "-".               *)
TestPaddings == {<<>>, <<32>>, <<97, 98, 99>>, <<0>>, <<45>>}

(* Inputs with no leading digit: those paddings and " 123", "a123".       *)
TestNoDigits == TestPaddings \cup {<<32, 49, 50, 51>>, <<97, 49, 50, 51>>}

(* hash_test.cc's vectors: data, seed and expected hash as [hi, lo]       *)
(* 16-bit limbs (seeds 0xbc9f1d34 and 0x12345678).                        *)
HashData5 == [i \in 1..48 |->
    CASE i = 1 -> 1 [] i = 2 -> 192 [] i = 17 -> 20 [] i = 23 -> 4
      [] i = 28 -> 20 [] i = 32 -> 24 [] i = 33 -> 40 [] i = 41 -> 2
      [] OTHER -> 0]
HashVectors ==
    {<<<<>>, <<48287, 7476>>, <<48287, 7476>>>>,
     <<<<98>>, <<48287, 7476>>, <<61203, 17860>>>>,
     <<<<195, 151>>, <<48287, 7476>>, <<23398, 14356>>>>,
     <<<<226, 153, 165>>, <<48287, 7476>>, <<12860, 1935>>>>,
     <<<<225, 128, 185, 50>>, <<48287, 7476>>, <<60705, 25402>>>>,
     <<HashData5, <<4660, 22136>>, <<62259, 55995>>>>}

(* Three handles.  A configuration puts each on lru (refs 1), on in_use  *)
(* (refs 2 or 3) or out of the cache but still held (refs 1 or 2), and   *)
(* orders each list.                                                      *)
CacheEntries == {3, 4, 5}

CacheConfigs ==
    LET ConfigsOf(onLru, onUse) ==
          {CacheOf(lru, use, CacheEntries \ (onLru \cup onUse), refs) :
             lru \in SetToSeqs(onLru), use \in SetToSeqs(onUse),
             refs \in {r \in [CacheEntries -> 1..3] :
                         \A e \in CacheEntries :
                            r[e] \in IF e \in onLru THEN {1}
                                     ELSE IF e \in onUse THEN {2, 3} ELSE {1, 2}}}
    IN  UNION {UNION {ConfigsOf(onLru, onUse) : onUse \in SUBSET (CacheEntries \ onLru)} :
                 onLru \in SUBSET CacheEntries}

(* The calls a caller may make on a configuration: ref on a cached       *)
(* handle (lookup's hit), unref on a handle a client holds (release),    *)
(* and dropping the cache.                                                *)
CacheCalls(c) ==
    {[op |-> "ref", e |-> e, before |-> c] : e \in OnLru(c) \cup OnInUse(c)}
    \cup {[op |-> "unref", e |-> e, before |-> c] :
            e \in {x \in EntriesOf(c) : c.refs[x] > (IF c.in_cache[x] THEN 1 ELSE 0)}}
    \cup {[op |-> "drop", e |-> 0, before |-> c]}

NoCall == [op |-> "none", e |-> 0, before |-> CacheOf(<<>>, <<>>, {}, <<>>)]

(* Pumping a three-byte ByteArraySource into an UncheckedByteArraySink,  *)
(* as snappy's callers do per the Sink comments.  A plan splits the      *)
(* source into chunks; chunk 10 * n + mode moves n bytes by one of the   *)
(* five ways the Sink offers: 0 append from the source itself, 1 write   *)
(* into get_append_buffer's buffer and append it, 2 hand over a caller-  *)
(* owned heap copy with append_and_take_ownership, 3 hand over the       *)
(* get_append_buffer buffer with append_and_take_ownership, 4 write into *)
(* get_append_buffer_variable's buffer (hint n) and append it; 5, 6 and  *)
(* 7 do as 1, 2 and 4 through the trait's default methods, whose buffer  *)
(* is the caller's three-byte scratch.                                    *)
SinkSourceBytes == <<7, 8, 9>>

SinkPlans ==
    UNION {{[i \in 1..Len(c) |-> 10 * c[i] + m[i]] : m \in [1..Len(c) -> 0..7]} :
             c \in {<<3>>, <<1, 2>>, <<2, 1>>, <<1, 1, 1>>}}

Scratch == Ptr("scratch", 0)

PumpInit ==
    [src |-> ByteArraySourceNew(Ptr("src", 0), Len(SinkSourceBytes)),
     sink |-> UncheckedByteArraySinkNew(
                [src |-> SinkSourceBytes, out |-> <<0, 0, 0>>,
                 heap |-> <<0, 0, 0>>, scratch |-> <<0, 0, 0>>],
                Ptr("out", 0))]

(* The caller writes n bytes from from into buf.                          *)
WriteInto(sink, buf, from, n) == [sink EXCEPT !.mem = MemCopy(@, buf, from, n)]

ViaBuffer(sink, buf, from, n) == append(WriteInto(sink, buf, from, n), buf, n)

Handover(sink, buf, from, n) == append_and_take_ownership(WriteInto(sink, buf, from, n), buf, n)

DefaultHandover(sink, buf, from, n) ==
    Sink_append_and_take_ownership(WriteInto(sink, buf, from, n), buf, n)

(* The caller writes its n bytes, or allocated_size if that is less.      *)
ViaVariable(sink, b, from, n) ==
    append(WriteInto(sink, b.buf, from, IF n <= b.allocated_size THEN n ELSE b.allocated_size), b.buf, n)

PumpChunk(sink, from, n, mode) ==
    CASE mode = 0 -> append(sink, from, n)
      [] mode = 1 -> ViaBuffer(sink, get_append_buffer(sink, n, Scratch), from, n)
      [] mode = 2 -> Handover(sink, Ptr("heap", from.off), from, n)
      [] mode = 3 -> Handover(sink, get_append_buffer(sink, n, Scratch), from, n)
      [] mode = 4 -> ViaVariable(sink, get_append_buffer_variable(sink, n, n, Scratch, 0), from, n)
      [] mode = 5 -> ViaBuffer(sink, Sink_get_append_buffer(sink, n, Scratch), from, n)
      [] mode = 6 -> DefaultHandover(sink, Ptr("heap", from.off), from, n)
      [] mode = 7 -> ViaVariable(sink, Sink_get_append_buffer_variable(sink, n, n, Scratch, 3), from, n)

PumpStep(p, n, mode) ==
    [src |-> skip(p.src, n), sink |-> PumpChunk(p.sink, peek(p.src).ptr, n, mode)]

RECURSIVE Pump(_, _)
Pump(p, plan) ==
    IF plan = <<>> THEN p
    ELSE Pump(PumpStep(p, Head(plan) \div 10, Head(plan) % 10), Tail(plan))

Case(kind, a, b, v, w, str) ==
    [kind |-> kind, a |-> a, b |-> b, v |-> v, w |-> w, str |-> str, call |-> NoCall]

Cases ==
    {Case("keys", x, y, 0, 0, <<>>) : x, y \in TestKeys}
    \cup {Case("values", <<>>, <<>>, x, y, z) :
            x \in TestValues, y \in {0, 300}, z \in TestStrings}
    \cup {Case("seed", <<>>, <<>>, x, 0, <<>>) : x \in TestSeeds}
    \cup {Case("status", m1, m2, c, f, <<>>) :
            c \in Codes, m1, m2 \in TestMessages, f \in {0, 255}}
    \cup {Case("decimal", pad, n, 0, 0, zeros \o NumberToString(n)) :
            n \in TestNumbers, pad \in TestPaddings, zeros \in {<<>>, <<48, 48>>}}
    \cup {Case("decimal", pad, <<>>, 0, 0, <<>>) : pad \in TestNoDigits}
    \cup {Case("hash", vec[3], vec[2], 0, 0, vec[1]) : vec \in HashVectors}
    \cup {Case("sink", plan, <<>>, 0, 0, <<>>) : plan \in SinkPlans}
    \cup {Case("tag", <<>>, <<>>, tag, 0, <<>>) : tag \in 0..255}
    \cup {[Case("cache", <<>>, <<>>, 0, 0, <<>>) EXCEPT !.call = k] :
            k \in UNION {CacheCalls(c) : c \in CacheConfigs}}

VARIABLE t

Init == t \in Cases

Pick == t' \in Cases

Spec == Init /\ [][Pick]_t

-----------------------------------------------------------------------------
(***************************************************************************)
(* find_shortest_separator honours its contract: for start < limit the    *)
(* result lies in [start, limit) and is no longer than start, so an index *)
(* block keyed by it still routes every key of the block to it and no key *)
(* of the next block.                                                     *)
(***************************************************************************)
SeparatorInRange ==
    t.kind = "keys" /\ LexLess(t.a, t.b) =>
      LET sep == FindShortestSeparator(t.a, t.b)
      IN ~LexLess(sep, t.a) /\ LexLess(sep, t.b) /\ Len(sep) <= Len(t.a)

(* find_short_successor returns a key >= its input, no longer than it.     *)
SuccessorNotBelow ==
    t.kind = "keys" =>
      LET succ == FindShortSuccessor(t.a)
      IN ~LexLess(succ, t.a) /\ Len(succ) <= Len(t.a)

(***************************************************************************)
(* The codings read back, as the coding tests state it: a value put after *)
(* put_varint32 is read back by get_varint32 with the slice advanced to   *)
(* the next value, varint_length agrees with the bytes used, no strict    *)
(* prefix of an encoding parses, fixed32 and fixed64 words read back, and *)
(* length-prefixed slices read back in sequence, a cut one failing.       *)
(***************************************************************************)
CodingRoundTrip ==
    t.kind = "values" =>
    LET v == t.v
        w == t.w
        enc == PutVarint32(PutVarint32(<<>>, v), w)
        first == GetVarint32(enc)
        second == GetVarint32(first.rest)
    IN /\ first.ok /\ first.value = v
       /\ second.ok /\ second.value = w /\ second.rest = <<>>
       /\ VarintLength(v) = Len(EncodeVarint32(v))
       /\ \A n \in 0..(VarintLength(v) - 1) :
            ~GetVarint32Ptr(EncodeVarint32(v), 1, n + 1).ok
       /\ DecodeFixed32(EncodeFixed32(v), 1) = v
       /\ DecodeFixed64(PutFixed64(EncodeFixed64(w), v), 9) = v
       /\ GetVarint64Ptr(PutVarint64(<<>>, v), 1, VarintLength(v) + 1).value = v
       /\ LET buf == PutLengthPrefixedSlice(PutLengthPrefixedSlice(<<>>, t.str),
                                            <<v % 256>>)
              one == GetLengthPrefixedSlice(buf)
              two == GetLengthPrefixedSlice(one.rest)
          IN /\ one.ok /\ one.result = t.str
             /\ two.ok /\ two.result = <<v % 256>> /\ two.rest = <<>>
             /\ ~GetLengthPrefixedSlice(SubSeq(buf, 1, Len(buf) - 3)).ok

(***************************************************************************)
(* get_varint64 advances its slice past the parsed value, as the comment  *)
(* on the Get.. routines says: two values put one after the other are     *)
(* both read back.                                                        *)
(***************************************************************************)
Varint64StreamDecodes ==
    t.kind = "values" =>
    LET enc == EncodeVarint64(t.v) \o EncodeVarint64(t.w)
        first == GetVarint64(enc)
        second == GetVarint64(first.rest)
    IN first.ok /\ first.value = t.v /\ second.ok /\ second.value = t.w

(***************************************************************************)
(* snappy's varint agrees with the table format's: append32 writes the    *)
(* bytes put_varint32 writes, parse32_with_limit reads the value back and *)
(* stops before the next one, and refuses every strict prefix.            *)
(***************************************************************************)
SnappyVarintRoundTrip ==
    t.kind = "values" =>
    LET enc == Append32(Append32(<<>>, t.v), t.w)
        first == Parse32WithLimit(enc, 1, Len(enc) + 1)
    IN /\ Append32(<<>>, t.v) = EncodeVarint32(t.v)
       /\ first.ok /\ first.value = t.v
       /\ first.next = Len(EncodeVarint32(t.v)) + 1
       /\ Parse32WithLimit(enc, first.next, Len(enc) + 1).value = t.w
       /\ \A n \in 1..(first.next - 1) :
            ~Parse32WithLimit(enc, 1, n).ok

(* Bits::log2_floor(n) is the k with 2^k <= n < 2^(k+1), and -1 for 0.     *)
Log2FloorIsFloorLog ==
    t.kind = "values" =>
      Log2Floor(t.v) = IF t.v = 0 THEN -1
                       ELSE CHOOSE k \in 0..30 : 2^k <= t.v /\ (k = 30 \/ t.v < 2^(k + 1))

(***************************************************************************)
(* Random::new and Random::next keep the seed in the cycle [1, M - 1] of  *)
(* the Park-Miller generator, and next() computes seed * A mod M, the     *)
(* bit-split reduction the code uses agreeing with Schrage's method, for  *)
(* three successive calls.                                                *)
(***************************************************************************)
RandomStaysInCycle ==
    t.kind = "seed" =>
      LET s0 == RandomNew(t.v)
          s1 == RandomNext(s0)
          s2 == RandomNext(s1)
      IN /\ s0 \in 1..(M - 1)
         /\ s1 = ParkMiller(s0) /\ s2 = ParkMiller(s1)
         /\ RandomNext(s2) = ParkMiller(s2)
         /\ s1 \in 1..(M - 1) /\ s2 \in 1..(M - 1)

(***************************************************************************)
(* A Status keeps its code through the byte state: an error status is not *)
(* ok(), code() and exactly one is_...() report the code it was built      *)
(* with, clone() reproduces the state byte for byte (copy_state's size + 5*)
(* read from the first word), to_string() picks the prefix of that code   *)
(* and copies as many bytes as the message holds, and an OK status stays  *)
(* OK through a clone.                                                     *)
(***************************************************************************)
StatusCodeReadsBack ==
    t.kind = "status" =>
      LET s == ErrorStatus(t.v, t.a, t.b, t.w)
          expected == Len(t.a) + (IF t.b # <<>> THEN 2 + Len(t.b) ELSE 0)
      IN /\ ~IsOk(s) /\ StatusCode(s) = t.v
         /\ {c \in Codes : IsCode(s, c)} = {t.v}
         /\ Clone(s) = s /\ StatusCode(Clone(s)) = t.v
         /\ StatusToString(s).prefix = t.v /\ Len(StatusToString(s).text) = expected
         /\ IsOk(Clone(StatusOK)) /\ StatusToString(StatusOK).prefix = "ok"

(***************************************************************************)
(* to_string() of an error built from msg and msg2 shows "msg: msg2" (or  *)
(* just msg when msg2 is empty), as the C++ original and the constructor  *)
(* names promise.                                                          *)
(***************************************************************************)
StatusMessageReadsBack ==
    t.kind = "status" =>
      StatusToString(ErrorStatus(t.v, t.a, t.b, t.w)).text
        = t.a \o (IF t.b # <<>> THEN <<58, 32>> \o t.b ELSE <<>>)

(***************************************************************************)
(* consume_decimal_number reads back what number_to_string wrote, as       *)
(* logging_test.cc states it: a number up to u64::MAX, with leading zeros *)
(* or padding, is consumed with the slice left at the padding; one past   *)
(* u64::MAX is refused however the overflow shows (a 20th digit above 5,  *)
(* or a 21st digit); text with no leading digit is refused and the slice  *)
(* left whole.                                                             *)
(***************************************************************************)
DecimalRoundTrip ==
    t.kind = "decimal" =>
      LET in == t.str \o t.a
          r == ConsumeDecimalNumber(in)
      IN IF t.str = <<>> THEN ~r.ok /\ r.rest = in
         ELSE /\ r.ok = ~NumLess(MAX_U64, t.b)
              /\ r.ok => r.val = t.b /\ r.rest = t.a

(***************************************************************************)
(* The limb-wise hash reproduces hash_test.cc's vectors, and on them no   *)
(* tail "+=" overflows.                                                    *)
(***************************************************************************)
HashMatchesVectors ==
    t.kind = "hash" =>
      LET r == Hash(t.str, [hi |-> t.b[1], lo |-> t.b[2]])
      IN r.val = [hi |-> t.a[1], lo |-> t.a[2]] /\ ~r.over

-----------------------------------------------------------------------------
(***************************************************************************)
(* ref and unref keep LRUCache's lists as its comments describe them, in *)
(* LRU order: starting from a configuration the invariant admits, a ref *)
(* of a handle on lru (lookup's hit) moves it to the newest end of       *)
(* in_use, an unref that leaves only the cache's reference moves it to   *)
(* the newest end of lru (lru.prev), any other call leaves both lists    *)
(* as they were, and an unref that drops the last reference of an       *)
(* erased handle runs its deleter once.  Both lists stay rings with prev *)
(* the inverse of next, lru holding exactly the cached handles with     *)
(* refs = 1 and in_use those with refs >= 2.  The pointer surgery of    *)
(* lru_remove/lru_append and the conditions in ref and unref (cache.rs  *)
(* 335-359) must agree for this to hold.                                *)
(***************************************************************************)
CacheCallKeepsLists ==
    t.kind = "cache" /\ t.call.op \in {"ref", "unref"} =>
    LET c == t.call.before
        e == t.call.e
        d == IF t.call.op = "ref" THEN ref(c, e) ELSE unref(c, e)
        lru == ListOf(c, Lru)
        use == ListOf(c, InUse)
        toUse == t.call.op = "ref" /\ e \in OnLru(c)
        toLru == t.call.op = "unref" /\ c.in_cache[e] /\ c.refs[e] = 2
        freed == t.call.op = "unref" /\ ~c.in_cache[e] /\ c.refs[e] = 1
    IN  /\ WellFormed(c)
        /\ WellFormed(d)
        /\ ListOf(d, Lru) = IF toUse THEN Remove(lru, e)
                            ELSE IF toLru THEN Append(lru, e) ELSE lru
        /\ ListOf(d, InUse) = IF toLru THEN Remove(use, e)
                              ELSE IF toUse THEN Append(use, e) ELSE use
        /\ d.deleted[e] = IF freed THEN 1 ELSE 0
        /\ d.live[e] = ~freed

(***************************************************************************)
(* Dropping an LRUCache frees exactly the handles on lru, each once, and *)
(* leaves handles that clients still hold after an erase alone; with a  *)
(* handle still on in_use it panics (the assert that the caller has     *)
(* released everything).  Drop's loop takes e.next before unref frees e *)
(* (cache.rs 370-377); reading it afterwards follows a freed handle.    *)
(***************************************************************************)
DropReleasesCache ==
    t.kind = "cache" /\ t.call.op = "drop" =>
    LET c == t.call.before
        d == Drop(c)
    IN  IF OnInUse(c) # {} THEN d.panic
        ELSE /\ ~d.panic /\ ~d.ub
             /\ \A e \in EntriesOf(c) :
                    /\ d.deleted[e] = IF e \in OnLru(c) THEN 1 ELSE 0
                    /\ d.live[e] = (e \notin OnLru(c))

-----------------------------------------------------------------------------
(* What a tag byte means in the snappy format: its low two bits are the  *)
(* element type.  A literal of length up to 60 keeps length - 1 in the   *)
(* upper six bits; 60..63 there mean 1..4 extra length bytes.  A copy    *)
(* with a one-byte offset keeps length - 4 in bits 2..4 and offset / 256 *)
(* in bits 5..7; the other copies keep length - 1 and have 2 or 4 offset *)
(* bytes.                                                                 *)
FormatEntry(tag) ==
    LET kind == tag % 4
        hi == tag \div 4
    IN  CASE kind = LITERAL ->
               IF hi < 60 THEN [len |-> hi + 1, off |-> 0, extra |-> 0]
               ELSE [len |-> 1, off |-> 0, extra |-> hi - 59]
          [] kind = COPY_1_BYTE_OFFSET -> [len |-> 4 + (hi % 8), off |-> tag \div 32, extra |-> 1]
          [] kind = COPY_2_BYTE_OFFSET -> [len |-> hi + 1, off |-> 0, extra |-> 2]
          [] OTHER -> [len |-> hi + 1, off |-> 0, extra |-> 4]

(***************************************************************************)
(* Every entry of snappy's char_table decodes its tag byte as the format *)
(* defines it: the length, the copy offset's high bits and the count of  *)
(* extra bytes packed into the entry are the tag's, and a tag with its   *)
(* extra bytes never exceeds MAXIMUM_TAG_LENGTH.  The table is 256 hand- *)
(* written constants (snappy-internal.rs 370-397); the boundary at       *)
(* literal lengths 60..63, where lengths move to extra bytes, is where a *)
(* slip would hide.                                                       *)
(***************************************************************************)
CharTableMatchesFormat ==
    t.kind = "tag" =>
    LET entry == char_table[t.v + 1]
        fmt == FormatEntry(t.v)
    IN  /\ EntryLength(entry) = fmt.len
        /\ EntryCopyOffset(entry) = fmt.off
        /\ EntryExtraBytes(entry) = fmt.extra
        /\ 1 + EntryExtraBytes(entry) <= MAXIMUM_TAG_LENGTH

(***************************************************************************)
(* Pumping a source into an UncheckedByteArraySink, in any chunks and by *)
(* any mix of the Sink calls, leaves exactly the source's bytes in the   *)
(* destination, with current_destination just past them and the source  *)
(* drained; the deleter runs once for each caller-owned buffer handed   *)
(* over, and never for the sink's own buffer.  append and                *)
(* append_and_take_ownership skip the copy when the data already sits   *)
(* at dest (snappy-sinksource.rs 150-178), so their advancing of dest on *)
(* both paths is what keeps the chunks from overwriting one another.     *)
(***************************************************************************)
SinkReceivesSource ==
    t.kind = "sink" =>
    LET p == Pump(PumpInit, t.a)
    IN  /\ p.sink.mem.out = SinkSourceBytes
        /\ current_destination(p.sink) = Ptr("out", Len(SinkSourceBytes))
        /\ available(p.src) = 0
        /\ p.sink.deleted = Cardinality({i \in DOMAIN t.a : t.a[i] % 10 \in {2, 6}})

=============================================================================
