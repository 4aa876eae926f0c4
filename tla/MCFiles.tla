------------------------------ MODULE MCFiles ------------------------------
(* Instances of Files for TLC: tables grow by a page of one handle.        *)
EXTENDS Files, TLC

CONSTANTS p1, p2, f1, f2, f3, c1, c2, c3

TwoProcs == {p1, p2}
ThreeFiles == {f1, f2, f3}
ThreeCells == {c1, c2, c3}

Symmetry == Permutations(Procs) \cup Permutations(Files) \cup Permutations(Cells)
=============================================================================
