------------------------------ MODULE Allocator ------------------------------
(***************************************************************************)
(* What malloc() and free() of CommonCode/heap.c promise their callers,    *)
(* with nothing of how they do it: a set of live allocations, none of      *)
(* which overlaps another.  Module Heap is shown to implement it.          *)
(***************************************************************************)
EXTENDS Integers

CONSTANT MaxUnits           \* size of the heap's address range, in BLOCK_SIZE units

VARIABLE live               \* live[p]: units promised at p, 0 when p is not allocated

Units == 0 .. MaxUnits - 1

Range(p, n) == p .. p + n - 1

Init == live = [u \in Units |-> 0]

(* An allocation may be placed anywhere that is not promised to somebody.  *)
Allocate ==
    \E p \in Units, n \in 1 .. MaxUnits :
        /\ Range(p, n) \subseteq Units
        /\ \A q \in Units : Range(p, n) \cap Range(q, live[q]) = {}
        /\ live' = [live EXCEPT ![p] = n]

Release ==
    \E p \in Units :
        /\ live[p] # 0
        /\ live' = [live EXCEPT ![p] = 0]

Next == Allocate \/ Release

Spec == Init /\ [][Next]_live
=============================================================================
