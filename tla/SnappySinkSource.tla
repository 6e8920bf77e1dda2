--------------------------- MODULE SnappySinkSource ---------------------------
(***************************************************************************)
(* src/snappy/snappy-sinksource.rs: ByteArraySource, which yields a flat  *)
(* array, and UncheckedByteArraySink, which writes to one and skips the  *)
(* copy when the caller wrote in place into the buffer get_append_buffer *)
(* handed out.                                                            *)
(*                                                                         *)
(* Memory is a record of named buffers, each a sequence of bytes.  A     *)
(* pointer is a buffer name and a 0-based offset into it, so the code's  *)
(* pointer comparison data != self.dest is a comparison of records.      *)
(* deleted counts the deleter calls of append_and_take_ownership.        *)
(*                                                                         *)
(* The port does not build as written (peek's signature differs from the *)
(* trait's, and get_append_buffer_variable assigns allocated_suze); the  *)
(* model follows the evident intent, which is the C++ original's.         *)
(***************************************************************************)
EXTENDS Naturals, Sequences

Ptr(buf, off) == [buf |-> buf, off |-> off]

(* dest.copy_from(src, n): bytes dest[0, n) := src[0, n).                 *)
MemCopy(mem, dest, src, n) ==
    [mem EXCEPT ![dest.buf] =
        [i \in DOMAIN mem[dest.buf] |->
            IF dest.off < i /\ i <= dest.off + n
            THEN mem[src.buf][src.off + i - dest.off]
            ELSE mem[dest.buf][i]]]

-----------------------------------------------------------------------------
(* The default methods of trait Sink, for a sink whose append is append.  *)
(* get_append_buffer and get_append_buffer_variable hand out the caller's *)
(* scratch buffer; append_and_take_ownership appends, then always runs   *)
(* the deleter.                                                           *)
Sink_get_append_buffer(st, length, scratch) == scratch

Sink_get_append_buffer_variable(st, min_size, desired_size_hint, scratch, scratch_size) ==
    [buf |-> scratch, allocated_size |-> scratch_size]

-----------------------------------------------------------------------------
(* ByteArraySource.                                                       *)
ByteArraySourceNew(ptr, left) == [ptr |-> ptr, left |-> left]

available(src) == src.left

(* peek: the whole rest of the array, as a pointer and its length.        *)
peek(src) == [ptr |-> src.ptr, len |-> src.left]

(* skip: REQUIRES available() >= n; left is a usize.                      *)
skip(src, n) == [src EXCEPT !.left = @ - n, !.ptr.off = @ + n]

-----------------------------------------------------------------------------
(* UncheckedByteArraySink; st is [mem, dest, deleted].                     *)
UncheckedByteArraySinkNew(mem, dest) == [mem |-> mem, dest |-> dest, deleted |-> 0]

current_destination(st) == st.dest

(* A mutant of append: the in-place path forgets to advance dest.         *)
AppendInPlaceStays(st, data, n) ==
    IF data # st.dest
    THEN [st EXCEPT !.mem = MemCopy(st.mem, st.dest, data, n), !.dest.off = @ + n]
    ELSE st

append(st, data, n) ==
    [st EXCEPT !.mem = IF data # st.dest THEN MemCopy(st.mem, st.dest, data, n) ELSE @,
               !.dest.off = @ + n]

get_append_buffer(st, len, scratch) == st.dest

append_and_take_ownership(st, bytes, n) ==
    IF bytes # st.dest
    THEN [st EXCEPT !.mem = MemCopy(st.mem, st.dest, bytes, n),
                    !.deleted = @ + 1, !.dest.off = @ + n]
    ELSE [st EXCEPT !.dest.off = @ + n]

(* The trait's default, over this sink's append.                           *)
Sink_append_and_take_ownership(st, bytes, n) ==
    [append(st, bytes, n) EXCEPT !.deleted = @ + 1]

(* The buffer and its capacity: the capacity is the caller's hint.        *)
get_append_buffer_variable(st, min_size, desired_size_hint, scratch, scratch_size) ==
    [buf |-> st.dest, allocated_size |-> desired_size_hint]

=============================================================================
