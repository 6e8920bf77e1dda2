------------------------------- MODULE Arena -------------------------------
(***************************************************************************)
(* Arena (src/src/util/arena.rs): bump allocation out of BLOCK_SIZE        *)
(* blocks, requests above a quarter block getting a block of their own.   *)
(*                                                                         *)
(* An address is a pair <<block, offset>>: the index of the block in      *)
(* blocks (1-based) and the offset in it; <<0, 0>> is the null alloc_ptr  *)
(* of a new arena.  Blocks come from the global allocator, whose results  *)
(* the code takes to be aligned ("AllocateFallback always returned        *)
(* aligned memory"); the model takes every block base to be a multiple   *)
(* of ALIGN, so an address is aligned when its offset is.  History        *)
(* variable allocs: the <<address, size>> of every allocation returned.   *)
(* An assertion failure of allocate_aligned sets aborted (a panic).       *)
(***************************************************************************)
EXTENDS Naturals, Sequences, SequencesExt, FiniteSets

CONSTANT Requests   \* sizes allocate and allocate_aligned may get (all > 0)

ASSUME Requests \subseteq Nat \ {0}

BLOCK_SIZE == 4096
(* size_of::<*const c_void>() is 8 on the 64-bit targets built for.        *)
ALIGN == 8
(* size_of::<c_char>(), which allocate_new_block adds to memory_usage.     *)
CHAR_SIZE == 1

VARIABLES
    alloc_ptr,              \* <<block, offset>>
    alloc_bytes_remaining,
    blocks,                 \* block sizes, in allocation order
    memory_usage,
    allocs,                 \* history: <<address, size>> returned
    aborted

vars == <<alloc_ptr, alloc_bytes_remaining, blocks, memory_usage, allocs,
          aborted>>

(* Arena::new                                                              *)
Init ==
    /\ alloc_ptr = <<0, 0>>
    /\ alloc_bytes_remaining = 0
    /\ blocks = <<>>
    /\ memory_usage = 0
    /\ allocs = <<>>
    /\ aborted = FALSE

Advance(addr, n) == <<addr[1], addr[2] + n>>

(* allocate_new_block(block_bytes): the new block's address.               *)
NewBlock == <<Len(blocks) + 1, 0>>

AllocateFallback(bytes, res) ==
    /\ blocks' = Append(blocks, IF bytes > BLOCK_SIZE \div 4 THEN bytes
                                                         ELSE BLOCK_SIZE)
    /\ memory_usage' = memory_usage + blocks'[Len(blocks')] + CHAR_SIZE
    /\ res = NewBlock
    /\ IF bytes > BLOCK_SIZE \div 4
       THEN UNCHANGED <<alloc_ptr, alloc_bytes_remaining>>
       ELSE /\ alloc_ptr' = Advance(NewBlock, bytes)
            /\ alloc_bytes_remaining' = BLOCK_SIZE - bytes

(* Fault variant of Allocate: alloc_ptr not advanced past the result.    *)
AllocateNoAdvance(bytes) ==
    /\ ~aborted
    /\ \E res \in {alloc_ptr, NewBlock} :
         /\ IF bytes <= alloc_bytes_remaining
            THEN /\ res = alloc_ptr
                 /\ alloc_bytes_remaining' = alloc_bytes_remaining - bytes
                 /\ UNCHANGED <<alloc_ptr, blocks, memory_usage>>
            ELSE AllocateFallback(bytes, res)
         /\ allocs' = Append(allocs, <<res, bytes>>)
    /\ UNCHANGED aborted

(* allocate(bytes)                                                         *)
Allocate(bytes) ==
    /\ ~aborted
    /\ \E res \in {alloc_ptr, NewBlock} :
         /\ IF bytes <= alloc_bytes_remaining
            THEN /\ res = alloc_ptr
                 /\ alloc_ptr' = Advance(alloc_ptr, bytes)
                 /\ alloc_bytes_remaining' = alloc_bytes_remaining - bytes
                 /\ UNCHANGED <<blocks, memory_usage>>
            ELSE AllocateFallback(bytes, res)
         /\ allocs' = Append(allocs, <<res, bytes>>)
    /\ UNCHANGED aborted

(* Fault variant of Slop: current_mod used as the padding itself.          *)
SlopMod(addr) == addr[2] % ALIGN

(* slop: bytes to skip to reach the next multiple of ALIGN.                *)
Slop(addr) ==
    LET current_mod == addr[2] % ALIGN
    IN IF current_mod = 0 THEN 0 ELSE ALIGN - current_mod

(* allocate_aligned(bytes), its closing assert included.                   *)
AllocateAligned(bytes) ==
    /\ ~aborted
    /\ \E res \in {Advance(alloc_ptr, Slop(alloc_ptr)), NewBlock} :
         /\ IF bytes + Slop(alloc_ptr) <= alloc_bytes_remaining
            THEN /\ res = Advance(alloc_ptr, Slop(alloc_ptr))
                 /\ alloc_ptr' = Advance(alloc_ptr, bytes + Slop(alloc_ptr))
                 /\ alloc_bytes_remaining' =
                        alloc_bytes_remaining - (bytes + Slop(alloc_ptr))
                 /\ UNCHANGED <<blocks, memory_usage>>
            ELSE AllocateFallback(bytes, res)
         /\ allocs' = Append(allocs, <<res, bytes>>)
         /\ aborted' = (res[2] % ALIGN # 0)

Next ==
    \/ \E n \in Requests : Allocate(n)
    \/ \E n \in Requests : AllocateAligned(n)

Spec == Init /\ [][Next]_vars

-----------------------------------------------------------------------------
(***************************************************************************)
(* Every allocation lies inside its block, and no two allocations share a *)
(* byte: the bump pointer, the remaining count and the two fallback paths *)
(* (a dedicated block must not move alloc_ptr, a fresh block must) agree  *)
(* over any sequence of plain and aligned requests.                       *)
(***************************************************************************)
AllocationsDisjoint ==
    /\ \A i \in DOMAIN allocs :
         LET a == allocs[i] IN
           /\ a[1][1] \in DOMAIN blocks
           /\ a[1][2] + a[2] <= blocks[a[1][1]]
    /\ \A i, j \in DOMAIN allocs :
         i < j /\ allocs[i][1][1] = allocs[j][1][1] =>
           \/ allocs[i][1][2] + allocs[i][2] <= allocs[j][1][2]
           \/ allocs[j][1][2] + allocs[j][2] <= allocs[i][1][2]

(* The end of the last allocation in block b (0 if none).                *)
UsedEnd(b) ==
    Max({allocs[i][1][2] + allocs[i][2] : i \in {j \in DOMAIN allocs : allocs[j][1][1] = b}} \cup {0})

AlignedNeverPanics == ~aborted

=============================================================================
