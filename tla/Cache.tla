------------------------------- MODULE Cache -------------------------------
(***************************************************************************)
(* The list discipline of LRUCache (src/util/cache.rs): the two dummy-    *)
(* headed circular doubly linked lists lru and in_use, and the calls that *)
(* move handles between them (lru_remove, lru_append, ref, unref) or free *)
(* them (unref, Drop).                                                    *)
(*                                                                         *)
(* A cache is a record c.  Its nodes are the two dummy heads and the      *)
(* entries (handles); the link fields next and prev, and the per-handle  *)
(* fields refs and in_cache, are functions over the nodes.  live and     *)
(* deleted record the handle's allocation and how often its deleter ran; *)
(* panic records a failed assert!.  A freed handle's link fields read as *)
(* Dangling, a value that is no node: following one is undefined        *)
(* behaviour, recorded as ub.                                            *)
(***************************************************************************)
EXTENDS Naturals, Sequences, SequencesExt, Functions

\* Dummy head of the lru list: lru.next is the oldest entry, lru.prev the newest.
Lru == 1

\* Dummy head of the in_use list.
InUse == 2

\* What the link fields of a deallocated handle read as.
Dangling == 0

EntriesOf(c) == DOMAIN c.refs \ {Lru, InUse}

Panic(c) == [c EXCEPT !.panic = TRUE]

-----------------------------------------------------------------------------
(* lru_remove: unlink e from whichever list holds it.  e's own links are  *)
(* left as they were.                                                      *)
lru_remove(c, e) ==
    [c EXCEPT !.prev[c.next[e]] = c.prev[e],
              !.next[c.prev[e]] = c.next[e]]

(* The last two statements of lru_append: link e's neighbours to e.      *)
LinkNeighbours(c, e) ==
    [c EXCEPT !.next[c.prev[e]] = e, !.prev[c.next[e]] = e]

(* lru_append: make e the newest entry of list by inserting it just      *)
(* before the head.                                                       *)
lru_append(c, list, e) ==
    LinkNeighbours([c EXCEPT !.next[e] = list, !.prev[e] = c.prev[list]], e)

MoveTo(c, list, e) == lru_append(lru_remove(c, e), list, e)

(* ref: a handle on the lru list (refs = 1, in cache) moves to in_use;   *)
(* then the count goes up.                                                *)
ref(c, e) ==
    LET moved == IF c.refs[e] = 1 /\ c.in_cache[e] THEN MoveTo(c, InUse, e) ELSE c
    IN  [moved EXCEPT !.refs[e] = @ + 1]

(* Run the deleter and free the handle.                                   *)
Dealloc(c, e) ==
    [c EXCEPT !.deleted[e] = @ + 1, !.live[e] = FALSE,
              !.next[e] = Dangling, !.prev[e] = Dangling]

(* A mutant of UnrefDecremented: the in_cache test of the move dropped.  *)
UnrefDecrementedAnyHandle(c, e) ==
    IF c.refs[e] = 0
    THEN IF c.in_cache[e] THEN Panic(c) ELSE Dealloc(c, e)
    ELSE IF c.refs[e] = 1 THEN MoveTo(c, Lru, e) ELSE c

(* unref after the decrement: free at zero (which asserts the handle has *)
(* left the cache), and move back to lru when only the cache holds it.   *)
UnrefDecremented(c, e) ==
    IF c.refs[e] = 0
    THEN IF c.in_cache[e] THEN Panic(c) ELSE Dealloc(c, e)
    ELSE IF c.in_cache[e] /\ c.refs[e] = 1 THEN MoveTo(c, Lru, e) ELSE c

unref(c, e) ==
    IF c.refs[e] = 0 THEN Panic(c)
    ELSE UnrefDecremented([c EXCEPT !.refs[e] = @ - 1], e)

-----------------------------------------------------------------------------
(* Drop for LRUCache: assert in_use is empty, then walk lru from its     *)
(* oldest entry, taking next before unref frees the handle.              *)
Follow(c, e) ==
    e \notin EntriesOf(c) \/ ~c.live[e]

(* A mutant of DropLoop: the next handle is read after unref.            *)
RECURSIVE DropLoopNextAfterUnref(_, _)
DropLoopNextAfterUnref(c, e) ==
    IF c.panic \/ c.ub \/ e = Lru THEN c
    ELSE IF Follow(c, e) THEN [c EXCEPT !.ub = TRUE]
    ELSE IF ~c.in_cache[e] \/ c.refs[e] # 1 THEN Panic(c)
    ELSE LET d == unref([c EXCEPT !.in_cache[e] = FALSE], e)
         IN  DropLoopNextAfterUnref(d, d.next[e])

RECURSIVE DropLoop(_, _)
DropLoop(c, e) ==
    IF c.panic \/ c.ub \/ e = Lru THEN c
    ELSE IF Follow(c, e) THEN [c EXCEPT !.ub = TRUE]
    ELSE IF ~c.in_cache[e] \/ c.refs[e] # 1 THEN Panic(c)
    ELSE DropLoop(unref([c EXCEPT !.in_cache[e] = FALSE], e), c.next[e])

Drop(c) ==
    IF c.next[InUse] # InUse THEN Panic(c) ELSE DropLoop(c, c.next[Lru])

-----------------------------------------------------------------------------
(***************************************************************************)
(* Reading the lists back, and the configurations the comments on        *)
(* LRUCacheGuardedData admit.                                             *)
(***************************************************************************)

(* The nodes met walking next from x, stopping at a head or a non-node,  *)
(* at most fuel of them.                                                  *)
RECURSIVE Walk(_, _, _)
Walk(c, x, fuel) ==
    IF fuel = 0 \/ x \notin EntriesOf(c) THEN <<>>
    ELSE <<x>> \o Walk(c, c.next[x], fuel - 1)

ListOf(c, head) == Walk(c, c.next[head], Cardinality(EntriesOf(c)))

(* head, s[1], ..., s[n] form a ring through next, with prev its inverse. *)
LinkedAs(c, head, s) ==
    LET ring == <<head>> \o s
        succ(i) == ring[(i % Len(ring)) + 1]
    IN  \A i \in 1..Len(ring) : c.next[ring[i]] = succ(i) /\ c.prev[succ(i)] = ring[i]

OnLru(c) == {e \in EntriesOf(c) : c.live[e] /\ c.in_cache[e] /\ c.refs[e] = 1}

OnInUse(c) == {e \in EntriesOf(c) : c.live[e] /\ c.in_cache[e] /\ c.refs[e] >= 2}

(* The comments' invariant: lru holds exactly the cached handles with    *)
(* refs = 1, in_use exactly those with refs >= 2, each list a ring.      *)
WellFormed(c) ==
    /\ ~c.panic /\ ~c.ub
    /\ LinkedAs(c, Lru, ListOf(c, Lru)) /\ LinkedAs(c, InUse, ListOf(c, InUse))
    /\ IsInjective(ListOf(c, Lru)) /\ IsInjective(ListOf(c, InUse))
    /\ ToSet(ListOf(c, Lru)) = OnLru(c)
    /\ ToSet(ListOf(c, InUse)) = OnInUse(c)

(* next and prev of a ring through head and the entries of s.            *)
RingLinks(head, s) ==
    LET ring == <<head>> \o s
        n == Len(ring)
        pos(x) == CHOOSE i \in 1..n : ring[i] = x
    IN  [nx |-> [x \in ToSet(ring) |-> ring[(pos(x) % n) + 1]],
         pv |-> [x \in ToSet(ring) |-> ring[((pos(x) + n - 2) % n) + 1]]]

(* The cache whose lru list is lru (oldest first), whose in_use list is  *)
(* use, and whose other live handles (erased but still held) are out;    *)
(* refs gives every handle's count.                                      *)
CacheOf(lru, use, out, refs) ==
    LET l == RingLinks(Lru, lru)
        u == RingLinks(InUse, use)
        nodes == {Lru, InUse} \cup DOMAIN refs
    IN  [next |-> l.nx @@ u.nx @@ [x \in out |-> Dangling],
         prev |-> l.pv @@ u.pv @@ [x \in out |-> Dangling],
         refs |-> [x \in nodes |-> IF x \in DOMAIN refs THEN refs[x] ELSE 0],
         in_cache |-> [x \in nodes |-> x \notin out /\ x \in DOMAIN refs],
         live |-> [x \in nodes |-> x \in DOMAIN refs],
         deleted |-> [x \in nodes |-> 0],
         panic |-> FALSE,
         ub |-> FALSE]

=============================================================================
