------------------------------- MODULE MCArena -------------------------------
EXTENDS Arena

(* Bound on the allocations explored: 4 lets a 1024-byte request fill a   *)
(* block exactly and an aligned request follow an odd-sized one.          *)
MaxAllocs == 4
AllocBound == Len(allocs) <= MaxAllocs

=============================================================================
