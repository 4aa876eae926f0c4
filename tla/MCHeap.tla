------------------------------- MODULE MCHeap -------------------------------
(* Instances of Heap for TLC: pages of three units, so that a block can be *)
(* smaller than, as large as and larger than what is left of a page.       *)
EXTENDS Heap

CONSTANTS c1, c2          \* callers

OneCaller == {c1}
TwoCallers == {c1, c2}
=============================================================================
