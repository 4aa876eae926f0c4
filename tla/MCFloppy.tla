------------------------------ MODULE MCFloppy ------------------------------
(* Instances of Floppy for TLC: a disk with one sector to a track, so that *)
(* sectors 0, 4 and 6 are on head 0 of cylinders 0, 2 and 3.               *)
EXTENDS Floppy

CONSTANTS r1, r2, d1, d2

TwoReaders == {r1, r2}
OneDisk == {d1}
DiskCalls == [fn : {"on", "off"}, disk : Disks]
TwoDisks == {d1, d2}
HeadZero == {0, 4, 6}
BothHeads == {0, 4, 7}
CylinderOne == {2}
LastOfTrack == {2}
=============================================================================
