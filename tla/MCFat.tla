------------------------------- MODULE MCFat -------------------------------
(***************************************************************************)
(* An instance of Fat for TLC: a FAT16 volume of clusters of one sector on *)
(* the first channel and a FAT32 volume of clusters of two on the second,  *)
(* with directories and files in several pieces and a long name across     *)
(* sectors.                                                                *)
(***************************************************************************)
EXTENDS Fat, TLC

MCSize == 0 :> 12 @@ 1 :> 1 @@ 2 :> 15
MCParts == 0 :> <<[lba |-> 1, length |-> 11]>> @@ 1 :> <<>> @@ 2 :> <<[lba |-> 0, length |-> 15]>>

MCVolumes ==
    [a |-> [disk |-> 0, part |-> 1, spc |-> 1, resv |-> 1, fats |-> 1, fatSz |-> 2, rootSects |-> 3, rootClust |-> 0, total |-> 11],
     c |-> [disk |-> 2, part |-> 1, spc |-> 2, resv |-> 1, fats |-> 1, fatSz |-> 2, rootSects |-> 0, rootClust |-> 2, total |-> 15]]

MCTable == [a |-> <<99, 99, 0, 4, 99, 99, 0>>, c |-> <<99, 99, 4, 0, 99, 6, 99, 0>>]

Is(t) == [t |-> t, name |-> None, cl |-> 0, size |-> 0, dir |-> FALSE, id |-> 0, last |-> FALSE]
File(n, c, s) == [Is("file") EXCEPT !.name = n, !.cl = c, !.size = s]
Dir(n, c) == [Is("file") EXCEPT !.name = n, !.cl = c, !.dir = TRUE]
Part(n, k, l) == [Is("lfn") EXCEPT !.name = n, !.id = k, !.last = l]

MCEntries ==
    [a |-> 3 :> <<Is("vol"), Part("yy", 2, TRUE)>> @@ 4 :> <<Part("xx", 1, FALSE), File("B~", 3, 2)>>
           @@ 5 :> <<Dir("D", 5), Is("end")>> @@ 9 :> <<Is("dot"), Is("end")>>,
     c |-> 3 :> <<Is("free"), Is("vol")>> @@ 4 :> <<Is("free"), Is("free")>>
           @@ 7 :> <<File("X", 5, 3), Is("end")>> @@ 8 :> <<Is("end"), Is("end")>>]

MCBelow == <<4, 6>>
(* The position of a handle nobody uses makes no difference: every one     *)
(* starts with a seek.  Nor does which volume was mounted first, or the    *)
(* order of the nodes behind the head.                                     *)
VolumeOf(i) == IF info[i] = None THEN <<i, None>> ELSE <<-1, info[i].vol>>
ByVolume(r) == [r EXCEPT !.i = VolumeOf(@)]
InUse(i) == \E p \in Procs : job[p].op # "idle" /\ job[p].i = i
MCView ==
    <<ideVars, count, Range(info), {<<VolumeOf(i), pos[i]>> : i \in {j \in Slots : InUse(j)}},
      [k \in DOMAIN lfn |-> ByVolume(lfn[k])],
      {ByVolume(nodes[k]) : k \in DOMAIN nodes}, IF nodes = <<>> THEN NoNode ELSE ByVolume(Head(nodes)),
      [p \in Procs |-> IF job[p].op = "idle" THEN job[p] ELSE ByVolume(job[p])]>>

MCSymmetry == Permutations(Procs)

(* What the theorems about reads and types assume of the volumes.          *)
ASSUME MCVolumesSound == VolumesSound
ASSUME MCDirectoriesSound == DirectoriesSound

(* The nodes of hdd_installFS() are those of the disks and partitions there*)
(* are, when no disk is missing before another and there is a partition    *)
(* after it.                                                               *)
ASSUME NodesRight ==
    \A n \in 1 .. 4 : \A parts \in [0 .. n - 1 -> 0 .. 2] :
        parts[n - 1] > 0 =>
            LET gi == Counts(parts)
            IN  {NodeAt(gi, i) : i \in 0 .. NodeCount(gi) - 1}
                   = UNION {{[disk |-> d, part |-> k] : k \in 0 .. parts[d]} : d \in 0 .. n - 1}

(* An unaligned read gives the bytes of the device when it starts on a     *)
(* sector or ends in the one it starts in.                                 *)
ASSUME UnalignedRight ==
    \A off \in 0 .. 7 : \A len \in 1 .. 12 :
        (off % 4 = 0 \/ (off % 4) + len <= 4) => \A j \in 0 .. len - 1 : Unaligned(4, off, len, j) = <<off + j>>
=============================================================================
