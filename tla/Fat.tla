-------------------------------- MODULE Fat --------------------------------
(***************************************************************************)
(* The FAT driver (CommonCode/fs_fat.c) on partitions of IDE disks: it     *)
(* mounts volumes, lists directories, finds names in them and reads files, *)
(* through one handle for each volume that every process moves.            *)
(*                                                                         *)
(* A unit of data is a sector.  What lies on the disks is given by Volumes,*)
(* Table and Entries; a sector that comes from a disk says which it is.    *)
(***************************************************************************)
EXTENDS Ide, Integers

CONSTANTS
    Volumes,        \* where a volume is and what its boot sector says
    Table,          \* Table[v]: the file allocation table of v
    Entries,        \* Entries[v]: the entries of its directory sectors
    Values,         \* values of the table in a sector, 256 in the code
    PerSector,      \* directory entries in a sector, 16 in the code
    Below,          \* clusters from which on it is FAT16, FAT32
    Eoc,            \* ends a chain
    None

Count(b) == (b.total - (b.resv + b.fats * b.fatSz + b.rootSects)) \div b.spc
Type(b) == IF Count(b) < Below[1] THEN 12 ELSE IF Count(b) < Below[2] THEN 16 ELSE 32

(* What is used of a boot sector, and the partition it is in; a volume with*)
(* no sectors in a cluster is not mounted.                                 *)
Volume == [disk : Disks, part : Nat, spc : Nat \ {0}, resv : Nat, fats : Nat, fatSz : Nat, rootSects : Nat,
           rootClust : Nat, total : Nat]

(* What FAT_InitDevice() notes of a volume.                                *)
Info == [vol : DOMAIN Volumes, root : Nat, data : Nat, fat : Seq(Nat)]

ASSUME FatConstants ==
    /\ Values \in Nat \ {0} /\ PerSector \in Nat \ {0} /\ Eoc \in Nat
    /\ IsFiniteSet(DOMAIN Volumes) /\ None \notin DOMAIN Volumes /\ None \notin Info
    /\ \A v \in DOMAIN Volumes :
          /\ Volumes[v] \in Volume
          /\ Volumes[v].part \in 1 .. Len(Parts[Volumes[v].disk])
          /\ Volumes[v].total <= Parts[Volumes[v].disk][Volumes[v].part].length
          /\ Table[v] \in Seq(Nat)
          /\ \A s \in DOMAIN Entries[v] : \A k \in 1 .. PerSector :
                Entries[v][s][k].cl \in Nat /\ Entries[v][s][k].size \in Nat

VARIABLES
    info,           \* fat_disks and fat_cache: what is known of the volumes
    count,          \* partCount
    pos,            \* pos[i]: position of the handle of volume i
    lfn,            \* fat_lfncache: a buffer for the long name in a directory
    nodes,          \* the inode cache, last node first
    job             \* what each process does here

fatVars == <<info, count, pos, lfn, nodes, job>>
vars == <<ideVars, fatVars>>

Slots == 0 .. Cardinality(DOMAIN Volumes) - 1
NoJob == [op |-> "idle", at |-> "", vol |-> None, i |-> 0, dir |-> 0, name |-> <<>>, dp |-> 0, off |-> 0,
          len |-> 0, cl |-> 0, left |-> 0, tail |-> <<>>, id |-> 0, out |-> None]
NoNode == [cl |-> 0, name |-> <<>>]

Init ==
    /\ IdeInit
    /\ info = [i \in Slots |-> None]
    /\ count = 0
    /\ pos = [i \in Slots |-> 0]
    /\ lfn = <<>>
    /\ nodes = <<>>
    /\ job = [p \in Procs |-> NoJob]
-----------------------------------------------------------------------------
(* The handle of the device                                                *)

(* vfs_seek() and the call of vfs_read(), ...                              *)
Asks(p, v, n) == Becomes(p, Request(FALSE, Volumes[v].disk, 0, n, "ask"))
SeekRead(p, v, i, s, n) == pos' = [pos EXCEPT ![i] = s] /\ Asks(p, v, n)

(* ... which takes the position it finds, reads no further than the        *)
(* partition goes, and moves the position when it has read.                *)
Ask(p) ==
    LET b == Volumes[job[p].vol]
        at == pos[job[p].i]
        length == Parts[b.disk][b.part].length
        n == Min({io[p].n, length - at})
    IN  /\ io[p].pc = "ask"
        /\ Becomes(p, IF at >= length \/ ~ Fits(b.disk, b.part, at, n)
                      THEN Request(FALSE, b.disk, 0, 0, "done")
                      ELSE Request(FALSE, b.disk, Lba(b.disk, b.part, at), n, "setup"))
        /\ UNCHANGED <<disk, regs, stream, asks, fatVars>>

After(p) == pos[job[p].i] + io[p].n
ReadOn(p, n) == pos' = [pos EXCEPT ![job[p].i] = After(p)] /\ Asks(p, job[p].vol, n)
Ends(p) == pos' = [pos EXCEPT ![job[p].i] = After(p)] /\ Becomes(p, NoIo)
Got(p, at) == io[p].pc = "done" /\ job[p].at = at
Moved(p, f) == job' = [job EXCEPT ![p] = f]
Here(v, s) == Len(s) = 3 /\ s[1] = Volumes[v].disk
Rel(v, s) == s[2] - Lba(Volumes[v].disk, Volumes[v].part, 0)

Idle(p) == job[p].op = "idle" /\ io[p].pc = "idle"
ideRest == <<disk, regs, stream, asks>>
-----------------------------------------------------------------------------
(* FAT_InitDevice()                                                        *)

Mount(p, v) ==
    /\ Idle(p)
    /\ count \in Slots
    /\ \A i \in Slots : info[i] # None => info[i].vol # v
    /\ \A q \in Procs : job[q].op = "mount" => job[q].vol # v
    /\ SeekRead(p, v, count, 0, 1)
    /\ Moved(p, [NoJob EXCEPT !.op = "mount", !.at = "boot", !.vol = v, !.i = count])
    /\ UNCHANGED <<ideRest, info, count, lfn, nodes>>

FirstData(b) == b.resv + b.fats * b.fatSz + b.rootSects
RootOffset(b) == IF Type(b) = 32 THEN b.rootClust ELSE (b.fatSz * b.fats) \div b.spc
Chunk(b) == IF Type(b) = 12 THEN 3 ELSE 1
Cached(b) == IF Type(b) = 12 THEN 2 * (Count(b) \div 2) ELSE Count(b)

MountBoot(p) ==
    LET b == Volumes[job[p].vol]
    IN  /\ Got(p, "boot")
        /\ SeekRead(p, job[p].vol, job[p].i, b.resv, Chunk(b))
        /\ info' = [info EXCEPT ![job[p].i] =
                      [vol |-> job[p].vol, root |-> RootOffset(b), data |-> FirstData(b), fat |-> <<>>]]
        /\ job' = [job EXCEPT ![p].at = "fat"]
        /\ UNCHANGED <<ideRest, count, lfn, nodes>>

(* The table is kept: a value for each of the clusters, from number 0 on,  *)
(* and so none for the last two.  The next sectors are read when the ones  *)
(* before are used up, and maybe not needed.                               *)
Value(v, s, k) ==
    LET r == Rel(v, s) - Volumes[v].resv
    IN  IF Here(v, s) /\ r \in 0 .. Volumes[v].fatSz - 1 /\ r * Values + k < Len(Table[v])
        THEN Table[v][r * Values + k + 1] ELSE 0

MountFat(p) ==
    LET v == job[p].vol
        b == Volumes[v]
        more == Chunk(b) * Values
        end == Min({job[p].dp + more, Cached(b)})
    IN  /\ Got(p, "fat")
        /\ info' = [info EXCEPT ![job[p].i].fat =
                      @ \o [k \in 1 .. end - job[p].dp |-> Value(v, io[p].got[(k - 1) \div Values + 1], (k - 1) % Values)]]
        /\ IF job[p].dp + more <= Cached(b)
           THEN /\ ReadOn(p, Chunk(b))
                /\ job' = [job EXCEPT ![p].dp = @ + more]
                /\ UNCHANGED count
           ELSE /\ Ends(p)
                /\ Moved(p, NoJob)
                /\ count' = count + 1
        /\ UNCHANGED <<ideRest, lfn, nodes>>

Known(i) == info[i] # None /\ i < count
B(i) == Volumes[info[i].vol]
-----------------------------------------------------------------------------
(* Clusters                                                                *)

(* FAT_int_GetFatValue(); behind the table there is anything, which is     *)
(* taken for the end.                                                      *)
GetFatValue(i, c) == IF c < Len(info[i].fat) THEN info[i].fat[c + 1] ELSE Eoc

Skip(i, c, n) ==
    LET f[k \in 0 .. n] == IF k = 0 THEN c ELSE GetFatValue(i, f[k - 1])
    IN  f[n]

(* The mark of FAT32 it looks for is not the one there is.                 *)
IsEnd(i, c) == Type(B(i)) # 32 /\ c = Eoc

SectorOf(i, c) == info[i].data + (c - 2) * B(i).spc
IsRoot(i, dir) == Type(B(i)) # 32 /\ dir = info[i].root

(* FAT_int_ReadCluster()                                                   *)
ReadCluster(p, i, c) == SeekRead(p, info[i].vol, i, SectorOf(i, c), B(i).spc)
-----------------------------------------------------------------------------
(* FAT_Read(), of a file that starts at cluster c, for a vfs_read() that   *)
(* goes no further than the file.                                          *)

Piece(got, a, n) == [j \in 1 .. n |-> IF a + j <= Len(got) THEN got[a + j] ELSE Junk]
ClustersFilled(off, len, spc) == ((off % spc) + len) \div spc

(* One more than are filled, whether or not something is left for it.      *)
Clusters(off, len, spc) == ((off % spc) + len) \div spc + 1

Read(p, i, c, off, len) ==
    LET spc == B(i).spc
        first == Skip(i, c, IF off + len < spc THEN 0 ELSE off \div spc)
    IN  /\ Idle(p)
        /\ Known(i)
        /\ ReadCluster(p, i, first)
        /\ Moved(p, [NoJob EXCEPT !.op = "read", !.at = "first", !.vol = info[i].vol, !.i = i, !.dir = c, !.off = off,
                                  !.len = len, !.cl = first, !.left = Clusters(off, len, spc) - 1, !.out = <<>>])
        /\ UNCHANGED <<ideRest, info, count, lfn, nodes>>

(* The part of the first cluster, ...                                      *)
OnTo(p, i, c, out) ==
    /\ ReadCluster(p, i, c)
    /\ job' = [job EXCEPT ![p].at = "rest", ![p].cl = c, ![p].out = out]
Returns(p, out) ==
    /\ Ends(p)
    /\ job' = [job EXCEPT ![p].at = "ready", ![p].out = out]

ReadFirst(p) ==
    LET i == job[p].i
        skip == job[p].off % B(i).spc
        out == Piece(io[p].got, skip, Min({B(i).spc - skip, job[p].len}))
    IN  /\ Got(p, "first")
        /\ IF job[p].left = 0 THEN Returns(p, out) ELSE OnTo(p, i, GetFatValue(i, job[p].cl), out)
        /\ UNCHANGED <<ideRest, info, count, lfn, nodes>>

(* ... all of those between, unless the chain ends, and the rest of the    *)
(* last one.                                                               *)
ReadRest(p) ==
    LET i == job[p].i
        last == job[p].left = 1
        out == job[p].out \o Piece(io[p].got, 0, IF last THEN job[p].len - Len(job[p].out) ELSE B(i).spc)
        next == GetFatValue(i, job[p].cl)
    IN  /\ Got(p, "rest")
        /\ IF last \/ IsEnd(i, next) THEN Returns(p, out)
           ELSE /\ ReadCluster(p, i, next)
                /\ job' = [job EXCEPT ![p].cl = next, ![p].left = @ - 1, ![p].out = out]
        /\ UNCHANGED <<ideRest, info, count, lfn, nodes>>
-----------------------------------------------------------------------------
(* Names and nodes                                                         *)

(* FAT_int_GetLFN(): the buffer of a directory, made when there is none.   *)
Of(i, dir) == {k \in DOMAIN lfn : lfn[k].i = i /\ lfn[k].dir = dir}
NewBuffer(i, dir) == <<[i |-> i, dir |-> dir, name |-> <<>>]>> \o lfn

(* The one there is, or a new one.                                         *)
WithBuffer(i, dir) == IF Of(i, dir) # {} THEN lfn ELSE NewBuffer(i, dir)
Buffer(i, dir) == IF Of(i, dir) # {} THEN lfn[Min(Of(i, dir))].name ELSE <<>>
Noted(i, dir, name) ==
    [k \in DOMAIN WithBuffer(i, dir) |->
        LET e == WithBuffer(i, dir)[k] IN IF e.i = i /\ e.dir = dir THEN [e EXCEPT !.name = name] ELSE e]

(* FAT_int_DelLFN(): the only one goes, whosever it is, or else the one    *)
(* after that of the directory.                                            *)
WithoutBuffer(i, dir) ==
    IF Len(lfn) = 1 THEN <<>>
    ELSE LET at == {k \in Of(i, dir) : k < Len(lfn)} IN IF at = {} THEN lfn ELSE RemoveAt(lfn, Min(at) + 1)

(* inode_getCache(), inode_cacheNode() and inode_uncacheNode(): see Files. *)
At(s, i, c) == {k \in DOMAIN s : s[k].i = i /\ s[k].cl = c}
NodeOf(s, i, c) == s[Min(At(s, i, c))]
WithNode(i, e, name) ==
    IF At(nodes, i, e.cl) # {} THEN nodes
    ELSE <<[i |-> i, cl |-> e.cl, dir |-> e.dir, name |-> IF name # <<>> THEN name ELSE <<e.name>>]>> \o nodes
WithoutNode(s, i, c) ==
    LET at == At(s, i, c) \ {1} IN IF at = {} THEN s ELSE RemoveAt(s, Min(at))

(* FAT_CloseFile(), of a node somebody has open.                           *)
Close(i, n) ==
    LET left == WithoutNode(nodes, i, n.cl)
    IN  /\ nodes' = left
        /\ lfn' = IF n.dir /\ At(left, i, n.cl) = {} THEN WithoutBuffer(i, n.cl) ELSE lfn
        /\ UNCHANGED <<ideVars, info, count, pos, job>>

EntryAt(v, s, k) ==
    IF Here(v, s) /\ Rel(v, s) \in DOMAIN Entries[v] THEN Entries[v][Rel(v, s)][k + 1]
    ELSE [t |-> "end", name |-> None, cl |-> 0, size |-> 0, dir |-> FALSE, id |-> 0, last |-> FALSE]
-----------------------------------------------------------------------------
(* vfs_readdir() and FAT_ReadDir(), from entry dp of directory dir.        *)

(* The sector entry dp is in, or None at the end of the chain.  When a     *)
(* cluster is one sector the sectors before are skipped twice, and in the  *)
(* root of FAT12 and FAT16 the first cluster comes again after the first.  *)
DirSector(i, dir, dp) ==
    LET spc == B(i).spc
        sect == dp \div PerSector
        c == IF IsRoot(i, dir) THEN dir ELSE Skip(i, dir, sect \div spc)
        base == IF IsRoot(i, c) THEN B(i).resv + c * spc ELSE SectorOf(i, c)
    IN  IF IsEnd(i, c) \/ c > Count(B(i)) + 2 THEN None
        ELSE base + (IF spc = 1 THEN sect ELSE sect % spc)

ListFrom(p, i, dir, dp, j) ==
    LET s == DirSector(i, dir, dp)
    IN  IF s = None
        THEN Becomes(p, NoIo) /\ UNCHANGED pos /\ Moved(p, [j EXCEPT !.at = "listed", !.dp = dp, !.out = NoNode])
        ELSE SeekRead(p, info[i].vol, i, s, 1) /\ Moved(p, [j EXCEPT !.at = "list", !.dp = dp])

List(p, i, dir, dp) ==
    /\ Idle(p)
    /\ Known(i)
    /\ ListFrom(p, i, dir, dp, [NoJob EXCEPT !.op = "list", !.vol = info[i].vol, !.i = i, !.dir = dir, !.off = dp])
    /\ UNCHANGED <<ideRest, info, count, lfn, nodes>>

ListGot(p) ==
    IF io[p].got = <<>> THEN EntryAt(job[p].vol, Junk, 0)
    ELSE EntryAt(job[p].vol, io[p].got[1], job[p].dp % PerSector)

(* Nothing more, ...                                                       *)
ListEnd(p) ==
    /\ Got(p, "list")
    /\ ListGot(p).t = "end"
    /\ Ends(p)
    /\ job' = [job EXCEPT ![p].at = "listed", ![p].out = NoNode]
    /\ UNCHANGED <<ideRest, info, count, lfn, nodes>>

(* ... an entry to skip, of which a part of a long name is kept, ...       *)
LongerYet(p, e) == <<e.name>> \o Buffer(job[p].i, job[p].dir)

Longer(p, e) == <<e.name>> \o (IF e.last THEN <<>> ELSE Buffer(job[p].i, job[p].dir))
ListSkip(p) ==
    LET i == job[p].i
        e == ListGot(p)
    IN  /\ Got(p, "list")
        /\ e.t \in {"free", "lfn", "vol", "dot"}
        /\ lfn' = IF e.t = "free" THEN lfn
                  ELSE IF e.t = "lfn" THEN Noted(i, job[p].dir, Longer(p, e))
                  ELSE WithBuffer(i, job[p].dir)
        /\ ListFrom(p, i, job[p].dir, job[p].dp + 1, job[p])
        /\ UNCHANGED <<ideRest, info, count, nodes>>

(* ... or a file: its node, cached or made, whose name is copied before    *)
(* vfs_readdir() closes it again.  What is in the buffer is the name, and  *)
(* it is left there when the node was cached.                              *)
ListFile(p) ==
    LET i == job[p].i
        dir == job[p].dir
        e == ListGot(p)
        known == At(nodes, i, e.cl) # {}
        made == WithNode(i, e, Buffer(i, dir))
        left == WithoutNode(made, i, e.cl)
    IN  /\ Got(p, "list")
        /\ e.t = "file"
        /\ Ends(p)
        /\ job' = [job EXCEPT ![p].at = "listed", ![p].dp = @ + 1,
                              ![p].out = [cl |-> e.cl, name |-> NodeOf(made, i, e.cl).name]]
        /\ nodes' = left
        /\ lfn' = IF e.dir /\ At(left, i, e.cl) = {} THEN WithoutBuffer(i, e.cl)
                  ELSE IF known THEN WithBuffer(i, dir) ELSE Noted(i, dir, <<>>)
        /\ UNCHANGED <<ideRest, info, count>>
-----------------------------------------------------------------------------
(* FAT_FindDir()                                                           *)

Find(p, i, dir, name) ==
    /\ Idle(p)
    /\ Known(i)
    /\ lfn' = WithBuffer(i, dir)
    /\ SeekRead(p, info[i].vol, i, IF IsRoot(i, dir) THEN B(i).resv + dir * B(i).spc ELSE SectorOf(i, dir), 1)
    /\ Moved(p, [NoJob EXCEPT !.op = "find", !.at = "find", !.vol = info[i].vol, !.i = i, !.dir = dir, !.name = name,
                              !.cl = dir, !.id = -1])
    /\ UNCHANGED <<ideRest, info, count, nodes>>

(* Once it has looked at an entry it goes to the next: in the sector it    *)
(* has, in the next sector, or in the next cluster.                        *)
FindOn(p, j) ==
    LET i == j.i
        dp == j.dp + 1
        next == GetFatValue(i, j.cl)
    IN  IF dp % PerSector # 0 THEN Moved(p, [j EXCEPT !.dp = dp]) /\ UNCHANGED <<pos, io>>
        ELSE IF (dp \div PerSector) % B(i).spc # 0 \/ IsRoot(i, j.cl)
        THEN Moved(p, [j EXCEPT !.dp = dp]) /\ ReadOn(p, 1)
        ELSE Moved(p, [j EXCEPT !.dp = dp, !.cl = next]) /\ SeekRead(p, j.vol, i, SectorOf(i, next), 1)

FindEnd(p) ==
    /\ Got(p, "find")
    /\ ListGot(p).t = "end"
    /\ Ends(p)
    /\ job' = [job EXCEPT ![p].at = "found", ![p].out = NoNode]
    /\ UNCHANGED <<ideRest, info, count, lfn, nodes>>

(* Parts of a long name are put before one another behind the buffer's     *)
(* end, and moved to its start with the first part.                        *)
FindPart(p) ==
    LET e == ListGot(p)
        tail == <<e.name>> \o (IF e.last THEN <<>> ELSE job[p].tail)
        front == IF e.id = 1 THEN tail ELSE IF e.last THEN <<>> ELSE Buffer(job[p].i, job[p].dir)
    IN  /\ Got(p, "find")
        /\ e.t = "lfn"
        /\ lfn' = Noted(job[p].i, job[p].dir, front)
        /\ FindOn(p, [job[p] EXCEPT !.tail = tail, !.id = IF e.id = 1 THEN job[p].dp + 1 ELSE @])
        /\ UNCHANGED <<ideRest, info, count, nodes>>

(* "Remove LFN if it does not apply"                                       *)
Applies(p) == IF job[p].id = job[p].dp THEN Buffer(job[p].i, job[p].dir) ELSE <<>>
Matches(p, e) == job[p].name \in {<<e.name>>, Applies(p)}

FindFree(p) ==
    /\ Got(p, "find")
    /\ ListGot(p).t = "free"
    /\ FindOn(p, job[p])
    /\ UNCHANGED <<ideRest, info, count, lfn, nodes>>

FindOther(p) ==
    LET e == ListGot(p)
    IN  /\ Got(p, "find")
        /\ e.t \in {"file", "vol", "dot"} /\ ~ Matches(p, e)
        /\ lfn' = Noted(job[p].i, job[p].dir, Applies(p))
        /\ FindOn(p, job[p])
        /\ UNCHANGED <<ideRest, info, count, nodes>>

FindThis(p) ==
    LET i == job[p].i
        e == ListGot(p)
        made == WithNode(i, e, Applies(p))
    IN  /\ Got(p, "find")
        /\ e.t \in {"file", "vol", "dot"} /\ Matches(p, e)
        /\ Ends(p)
        /\ nodes' = made
        /\ lfn' = Noted(i, job[p].dir, <<>>)
        /\ job' = [job EXCEPT ![p].at = "found", ![p].out = [cl |-> e.cl, name |-> NodeOf(made, i, e.cl).name]]
        /\ UNCHANGED <<ideRest, info, count>>
-----------------------------------------------------------------------------
(* A disk that has no volume is read and written through its own node.     *)
Raw(p, w, d, l) ==
    /\ Idle(p)
    /\ Parts[d] = <<>>
    /\ Fits(d, 0, l, 1)
    /\ Becomes(p, Request(w, d, Lba(d, 0, l), 1, "setup"))
    /\ UNCHANGED <<ideRest, fatVars>>

Answered(p) ==
    /\ \/ job[p].at \in {"ready", "listed", "found"}
       \/ io[p].pc = "put_done"
       \/ io[p].pc = "done" /\ job[p].op = "idle"
    /\ Becomes(p, NoIo)
    /\ Moved(p, NoJob)
    /\ UNCHANGED <<ideRest, info, count, pos, lfn, nodes>>
-----------------------------------------------------------------------------
(* What is on the disks                                                    *)

Chain(v, c) ==
    LET f[k \in 1 .. Len(Table[v])] == IF k = 1 THEN c ELSE IF f[k - 1] = Eoc THEN Eoc ELSE Table[v][f[k - 1] + 1]
        ends == {k \in 1 .. Len(Table[v]) : f[k] = Eoc} \cup {Len(Table[v]) + 1}
    IN  [k \in 1 .. Min(ends) - 1 |-> f[k]]
ChainSectors(v, c) ==
    LET b == Volumes[v]
    IN  [k \in 1 .. Len(Chain(v, c)) * b.spc |->
            FirstData(b) + (Chain(v, c)[(k - 1) \div b.spc + 1] - 2) * b.spc + ((k - 1) % b.spc)]
Root(v) == RootOffset(Volumes[v])
DirSectors(v, dir) ==
    LET b == Volumes[v]
    IN  IF Type(b) # 32 /\ dir = Root(v) THEN [k \in 1 .. b.rootSects |-> b.resv + b.fats * b.fatSz + k - 1]
        ELSE ChainSectors(v, dir)
DirEntries(v, dir) == FlattenSeq([k \in DOMAIN DirSectors(v, dir) |-> Entries[v][DirSectors(v, dir)[k]]])
All(v) == UNION {{Entries[v][s][k] : k \in 1 .. PerSector} : s \in DOMAIN Entries[v]}
Dirs(v) == {Root(v)} \cup {e.cl : e \in {f \in All(v) : f.t = "file" /\ f.dir}}
Listing == [v \in DOMAIN Volumes |-> [dir \in Dirs(v) |-> DirEntries(v, dir)]]
Files(v, dir) == {k \in 1 .. Len(Listing[v][dir]) : Listing[v][dir][k].t = "file"}

(* The volumes a file system check finds nothing wrong with: the table has *)
(* a value for every cluster whose value is kept, and a file as many       *)
(* clusters as it needs, of the ones there are.  It may end in a cluster   *)
(* whose value is not kept, but not go on from there.                      *)
ChainSound(v, c) ==
    LET s == Chain(v, c)
    IN  /\ Len(s) < Len(Table[v])
        /\ \A k \in 1 .. Len(s) : s[k] \in 2 .. Count(Volumes[v]) + 1
        /\ \A k \in 1 .. Len(s) - 1 : s[k] < Cached(Volumes[v])

VolumesSound ==
    \A v \in DOMAIN Volumes :
        LET b == Volumes[v]
        IN  /\ b.fats > 0 /\ FirstData(b) <= b.total /\ Count(b) + 1 < Eoc
            /\ Cached(b) <= Len(Table[v]) /\ Len(Table[v]) <= b.fatSz * Values
            /\ \A e \in All(v) : e.t = "file" /\ ~ e.dir =>
                  ChainSound(v, e.cl) /\ e.size <= Len(Chain(v, e.cl)) * b.spc

(* ... and their directories, of which the root of FAT12 and FAT16 is not  *)
(* in clusters.                                                            *)
Fixed(v, dir) == Type(Volumes[v]) # 32 /\ dir = Root(v)
DirectoriesSound == \A v \in DOMAIN Volumes : \A dir \in Dirs(v) : Fixed(v, dir) \/ ChainSound(v, dir)

(* The name of the file at k: the parts in front of it, from the one next  *)
(* to it on, or the short one.                                             *)
NameAt(es, k) ==
    LET first == {j \in 1 .. k - 1 : es[j].t = "lfn" /\ es[j].last /\ \A m \in j .. k - 1 : es[m].t = "lfn"}
    IN  IF first = {} THEN <<es[k].name>> ELSE [m \in 1 .. k - Max(first) |-> es[k - m].name]

(* The files of a directory in order: where each is, its name, short name  *)
(* and first cluster.                                                      *)
Contents ==
    [v \in DOMAIN Volumes |-> [dir \in Dirs(v) |->
        LET es == Listing[v][dir]
        IN  {[at |-> k, name |-> NameAt(es, k), short |-> <<es[k].name>>, cl |-> es[k].cl, dir |-> es[k].dir] :
                k \in Files(v, dir)}]]
NextFile(v, dir, dp) == {f \in Contents[v][dir] : f.at > dp /\ \A g \in Contents[v][dir] : g.at > dp => f.at <= g.at}
Named(v, dir, name) == {f \in Contents[v][dir] : name \in {f.short, f.name}}
FirstOf(S) == {f \in S : \A g \in S : f.at <= g.at}
AsNode(f) == [cl |-> f.cl, name |-> f.name]
FileSectors ==
    [v \in DOMAIN Volumes |-> [c \in {e.cl : e \in {f \in All(v) : f.t = "file"}} |-> ChainSectors(v, c)]]

(* What can be asked of a volume: to read a part of a file, also of no     *)
(* length at its end; to list on from the start or after a file; to find a *)
(* file by either name, or one that is not there.                          *)
Missing == <<"missing">>
ReadArgs ==
    [v \in DOMAIN Volumes |->
        UNION {UNION {{<<e.cl, off, len>> : len \in IF off = e.size THEN {0} ELSE 1 .. e.size - off} : off \in 0 .. e.size} :
                e \in {f \in All(v) : f.t = "file" /\ ~ f.dir}}]
ListArgs == [v \in DOMAIN Volumes |-> UNION {{dir} \X ({0} \cup {f.at : f \in Contents[v][dir]}) : dir \in Dirs(v)}]
FindArgs ==
    [v \in DOMAIN Volumes |->
        UNION {{dir} \X ({Missing} \cup UNION {{f.name, f.short} : f \in Contents[v][dir]}) : dir \in Dirs(v)}]
-----------------------------------------------------------------------------
Reads(p, i) == \E a \in ReadArgs[info[i].vol] : Read(p, i, a[1], a[2], a[3])
Lists(p, i) == \E a \in ListArgs[info[i].vol] : List(p, i, a[1], a[2])
Closes == \E k \in DOMAIN nodes : Close(nodes[k].i, nodes[k])
Finds(p, i) == \E a \in FindArgs[info[i].vol] : Find(p, i, a[1], a[2])

FatSteps(p) ==
    \/ MountBoot(p) \/ MountFat(p)
    \/ ReadFirst(p) \/ ReadRest(p)
    \/ ListEnd(p) \/ ListSkip(p) \/ ListFile(p)
    \/ FindEnd(p) \/ FindPart(p) \/ FindFree(p) \/ FindOther(p) \/ FindThis(p)
    \/ Answered(p)

Next ==
    \/ \E p \in Procs :
          \/ \E v \in DOMAIN Volumes : Mount(p, v)
          \/ \E i \in Slots : Known(i) /\ (Reads(p, i) \/ Lists(p, i) \/ Finds(p, i))
          \/ \E d \in Disks : \E l \in 0 .. Size[d] - 1 : \E w \in BOOLEAN : Raw(p, w, d, l)
          \/ FatSteps(p)
          \/ Ask(p)
          \/ Moves(p) /\ UNCHANGED fatVars
    \/ Closes

Spec == Init /\ [][Next]_vars

(* The cases it handles: one process at a time in the driver and on a      *)
(* channel; no buffer holds an old name when a short one is listed; and    *)
(* only disks of the first channel are written to.                         *)
DiskOf(q) == IF job[q].vol = None THEN io[q].disk ELSE Volumes[job[q].vol].disk
Alone(p, d) == \A q \in Procs \ {p} : Idle(q) \/ Channel(DiskOf(q)) # Channel(d)
Quiet == \A p \in Procs : job[p].op = "idle"

Plain(i, dir, dp) ==
    \A f \in NextFile(info[i].vol, dir, dp) : f.name = f.short /\ At(nodes, i, f.cl) = {} => Buffer(i, dir) = <<>>
QuietLists(p, i) == \E a \in ListArgs[info[i].vol] : Plain(i, a[1], a[2]) /\ List(p, i, a[1], a[2])

QuietNext ==
    \/ \E p \in Procs :
          \/ \E v \in DOMAIN Volumes : Quiet /\ Alone(p, Volumes[v].disk) /\ Mount(p, v)
          \/ \E i \in Slots :
                /\ Known(i) /\ Quiet /\ Alone(p, B(i).disk)
                /\ Reads(p, i) \/ QuietLists(p, i) \/ Finds(p, i)
          \/ \E d \in {d \in Disks : Channel(d) = 0} :
                Alone(p, d) /\ \E l \in 0 .. Size[d] - 1 : \E w \in BOOLEAN : Raw(p, w, d, l)
          \/ FatSteps(p)
          \/ Ask(p)
          \/ QuietMoves(p) /\ UNCHANGED fatVars
    \/ Quiet /\ Closes

QuietSpec == Init /\ [][QuietNext]_vars
-----------------------------------------------------------------------------
TypeOK ==
    /\ IdeTypeOK
    /\ count \in 0 .. Cardinality(DOMAIN Volumes)
    /\ \A i \in Slots : info[i] # None => info[i].vol \in DOMAIN Volumes /\ Len(info[i].fat) <= Count(Volumes[info[i].vol])
    /\ \A i \in Slots : pos[i] \in Nat
    /\ \A k, m \in DOMAIN lfn : k # m => lfn[k].i # lfn[m].i \/ lfn[k].dir # lfn[m].dir
    /\ \A k, m \in DOMAIN nodes : k # m => nodes[k].i # nodes[m].i \/ nodes[k].cl # nodes[m].cl
    /\ \A p \in Procs :
          /\ job[p].op \in {"idle", "mount", "read", "list", "find"}
          /\ job[p].op # "idle" => job[p].i \in Slots

(* A read that is over gives the sectors of the file from where it was     *)
(* asked to read, as many as asked, whichever clusters they are in.        *)
ReadRight ==
    \A p \in Procs : job[p].at = "ready" =>
        LET b == Volumes[job[p].vol]
            s == FileSectors[job[p].vol][job[p].dir]
        IN  job[p].out = [j \in 1 .. job[p].len |-> <<b.disk, Lba(b.disk, b.part, s[job[p].off + j]), 0>>]

(* A listing comes to the next file of the directory and calls it by its   *)
(* name, and a name is found where there is a file of that name, under its *)
(* long or its short one.                                                  *)
Expected(j) ==
    IF j.at = "listed" THEN NextFile(j.vol, j.dir, j.off) ELSE FirstOf(Named(j.vol, j.dir, j.name))
NamesRight ==
    \A p \in Procs : job[p].at \in {"listed", "found"} =>
        {job[p].out} \ {NoNode} = {AsNode(f) : f \in Expected(job[p])}
=============================================================================
