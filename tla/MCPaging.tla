------------------------------ MODULE MCPaging ------------------------------
(* Instances of Paging for TLC.  Processes, pages and what pages hold are  *)
(* interchangeable; frames are not, MM_AllocPhys() prefers some.           *)
EXTENDS Paging, TLC

CONSTANTS p1, p2, p3, v1, v2, x1, x2

TwoPids == {p1, p2}
ThreePids == {p1, p2, p3}
TwoPages == {v1, v2}
TwoValues == {x1, x2}

Symmetry == Permutations(Pids) \cup Permutations(VPages) \cup Permutations(Values)
=============================================================================
