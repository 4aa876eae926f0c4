--------------------------- MODULE MCKernelRanges ---------------------------
(***************************************************************************)
(* An instance of KernelRanges for TLC.                                    *)
(***************************************************************************)
EXTENDS KernelRanges, TLC

(* A frame buffer of one page and one of two.                              *)
MCDevices == {[phys |-> Total, count |-> 1], [phys |-> Total + 1, count |-> 2]}

MCSymmetry == Permutations(Procs) \cup Permutations(Holders)
=============================================================================
