-------------------------------- MODULE Files --------------------------------
(***************************************************************************)
(* Open files of CommonCode/vfs.c: the handle tables, the inode cache, and *)
(* the nodes of a FAT directory (CommonCode/fs_fat.c) that live in it.     *)
(*                                                                         *)
(* Every process has a table of handles at the same address, in memory of  *)
(* its own that fork() copies; the number of handles they are scanned up   *)
(* to is one global.  Handles the kernel opens for itself, to load a       *)
(* program, are in one table all processes share.                          *)
(*                                                                         *)
(* A node is a piece of heap memory: a cell.  What it holds stays there    *)
(* after it is freed, until the cell is used for another file.             *)
(*                                                                         *)
(* vfs_open() picks a handle, walks the path and fills the handle in: three*)
(* steps, as the timer can strike between them.  One call of the inode     *)
(* cache is one step.  Paths, permissions and what files hold are left out.*)
(***************************************************************************)
EXTENDS Integers, Sequences, SequencesExt, FiniteSets

CONSTANTS
    Procs,          \* processes
    Kernel,         \* the kernel's own table of handles
    Files,          \* files of the directory
    Dir,            \* the directory: the root node of its file system, not cached
    Cells,          \* memory for cache entries
    PerPage,        \* handles in a page
    MaxPages,       \* bound: pages of a handle table
    None

ASSUME FilesConstants ==
    /\ Kernel \notin Procs
    /\ Dir # None /\ {Dir, None} \cap (Files \cup Cells) = {}
    /\ PerPage \in Nat \ {0}
    /\ MaxPages \in Nat

VARIABLES
    alive,          \* processes that exist
    last,           \* giVfsLastFile and giVfsLastKFile
    paged,          \* paged[t]: slots of table t with memory behind them
    node,           \* node[t][i]: the node pointer of handle i of table t
    cache,          \* inode_cache: the cells on the list, first the head
    inode,          \* inode[c]: the file whose node cell c holds
    op,             \* what each process is doing in vfs_open(), or with the kernel's handle
    fault           \* the kernel used memory that is not there

vars == <<alive, last, paged, node, cache, inode, op, fault>>

Tables == Procs \cup {Kernel}
Slots == 0 .. MaxPages * PerPage - 1
Nodes == Cells \cup {Dir}
LastOf(t) == IF t = Kernel THEN last.kernel ELSE last.user

Op == [pc : {"idle", "walk", "store", "using"}, table : Tables \cup {None},
       slot : Slots \cup {None}, node : Nodes \cup {None}]
Idle == [pc |-> "idle", table |-> None, slot |-> None, node |-> None]

NoHandles == [i \in Slots |-> None]

Init ==
    /\ \E p \in Procs : alive = {p}
    /\ last = [user |-> 0, kernel |-> 0]
    /\ paged = [t \in Tables |-> {}]
    /\ node = [t \in Tables |-> NoHandles]
    /\ cache = <<>>
    /\ inode = [c \in Cells |-> None]
    /\ op = [p \in Procs |-> Idle]
    /\ fault = FALSE

Idles(p) == ~ fault /\ p \in alive /\ op[p].pc = "idle"

Faults ==
    /\ fault' = TRUE
    /\ UNCHANGED <<alive, last, paged, node, cache, inode, op>>

-----------------------------------------------------------------------------
(* The inode cache                                                         *)

(* inode_getCache()                                                        *)
Entry(f) == {c \in Range(cache) : inode[c] = f}
Cached(f) == Entry(f) # {}

(* The node of f, as finddir and readdir get it: from the cache, or made   *)
(* and put on the top of the list.                                         *)
Found(f, c) == IF Cached(f) THEN c \in Entry(f) ELSE c \notin Range(cache)
Pushed(f, c) == IF Cached(f) THEN cache ELSE <<c>> \o cache
Filled(f, c) == IF Cached(f) THEN inode ELSE [inode EXCEPT ![c] = f]

(* The entry after the one that is looked for goes.                        *)
UncachedNext(s, f) ==
    LET at == {i \in 1 .. Len(s) - 1 : inode[s[i]] = f}
    IN  IF at = {} THEN s ELSE RemoveAt(s, (CHOOSE i \in at : TRUE) + 1)

(* inode_uncacheNode(): references are never counted beyond the first, and *)
(* the head of the list is never taken off, the test for it being wrong.   *)
Uncached(s, f) ==
    LET at == {i \in 2 .. Len(s) : inode[s[i]] = f}
    IN  IF at = {} THEN s
        ELSE RemoveAt(s, CHOOSE i \in at : \A j \in at : i <= j)
-----------------------------------------------------------------------------
(* vfs_open()                                                              *)

FreeSlots(t) == {i \in 0 .. LastOf(t) - 1 : node[t][i] = None}

(* Any handle will do.                                                     *)
SlotZero(t) == 0

(* "Check for free entry", or else the first one of a new page.            *)
Slot(t) ==
    IF FreeSlots(t) = {} THEN LastOf(t)
    ELSE CHOOSE i \in FreeSlots(t) : \A j \in FreeSlots(t) : i <= j

(* A page more than the handles use.                                       *)
PageOfTwo(i) == (i \div PerPage) * PerPage .. (i \div PerPage + 2) * PerPage - 1

PageOf(i) == {j \in Slots : j \div PerPage = i \div PerPage}

(* The handles looked at on the way have memory behind them.               *)
Scanned(t) == 0 .. Slot(t) - (IF FreeSlots(t) = {} THEN 1 ELSE 0)

OpenSlot(p, t) ==
    /\ Idles(p)
    /\ t \in {p, Kernel}
    /\ Slot(t) \in Slots
    /\ IF ~ Scanned(t) \subseteq paged[t] THEN Faults
       ELSE /\ op' = [op EXCEPT ![p] = [pc |-> "walk", table |-> t, slot |-> Slot(t), node |-> None]]
            /\ IF FreeSlots(t) # {} THEN UNCHANGED <<last, paged>>
               ELSE /\ last' = IF t = Kernel THEN [last EXCEPT !.kernel = @ + PerPage]
                               ELSE [last EXCEPT !.user = @ + PerPage]
                    /\ paged' = [paged EXCEPT ![t] = @ \cup PageOf(Slot(t))]
            /\ UNCHANGED <<alive, node, cache, inode, fault>>

(* The path ends at a file, ...                                            *)
OpenFind(p, f) ==
    \E c \in Cells :
        /\ ~ fault
        /\ op[p].pc = "walk"
        /\ Found(f, c)
        /\ cache' = Pushed(f, c)
        /\ inode' = Filled(f, c)
        /\ op' = [op EXCEPT ![p].pc = "store", ![p].node = c]
        /\ UNCHANGED <<alive, last, paged, node, fault>>

(* ... at the directory itself, ...                                        *)
OpenDir(p) ==
    /\ ~ fault
    /\ op[p].pc = "walk"
    /\ op' = [op EXCEPT ![p].pc = "store", ![p].node = Dir]
    /\ UNCHANGED <<alive, last, paged, node, cache, inode, fault>>

(* ... or nowhere; or the process is not permitted to open what it found,  *)
(* which then stays in the cache.                                          *)
OpenFails(p) ==
    /\ ~ fault
    /\ op[p].pc \in {"walk", "store"}
    /\ op' = [op EXCEPT ![p] = Idle]
    /\ UNCHANGED <<alive, last, paged, node, cache, inode, fault>>

(* "Set handle info".  A handle of the kernel is used by the process that  *)
(* opened it, until it closes it.                                          *)
OpenStore(p) ==
    /\ ~ fault
    /\ op[p].pc = "store"
    /\ node' = [node EXCEPT ![op[p].table][op[p].slot] = op[p].node]
    /\ op' = [op EXCEPT ![p] = IF op[p].table = Kernel THEN [op[p] EXCEPT !.pc = "using"]
                               ELSE Idle]
    /\ UNCHANGED <<alive, last, paged, cache, inode, fault>>

-----------------------------------------------------------------------------
(* vfs_close(), with FAT_CloseFile()                                       *)
CloseNode(t, i) ==
    LET c == node[t][i]
    IN  /\ cache' = IF c \in Cells THEN Uncached(cache, inode[c]) ELSE cache
        /\ node' = [node EXCEPT ![t][i] = None]
        /\ UNCHANGED <<alive, last, paged, inode, fault>>

Close(p, i) ==
    /\ Idles(p)
    /\ node[p][i] # None
    /\ CloseNode(p, i)
    /\ UNCHANGED op

(* Binary_Load() is through with the file.                                 *)
KernelClose(p) ==
    /\ ~ fault
    /\ op[p].pc = "using"
    /\ CloseNode(Kernel, op[p].slot)
    /\ op' = [op EXCEPT ![p] = Idle]

(* It leaves a file open that is not an executable it can load.            *)
KernelLeaves(p) ==
    /\ ~ fault
    /\ op[p].pc = "using"
    /\ op' = [op EXCEPT ![p] = Idle]
    /\ UNCHANGED <<alive, last, paged, node, cache, inode, fault>>

(* vfs_stat() of a handle that is not open: vfs_getFileHandle() lets pass  *)
(* any up to the last, and one more.                                       *)
Stat(p, i) ==
    /\ Idles(p)
    /\ i <= last.user
    /\ node[p][i] = None
    /\ Faults

(* vfs_readdir() comes to f, and closes the node it read the name from.    *)
Readdir(p, i, f) ==
    \E c \in Cells :
        /\ Idles(p)
        /\ node[p][i] = Dir
        /\ Found(f, c)
        /\ inode' = Filled(f, c)
        /\ cache' = Uncached(Pushed(f, c), f)
        /\ UNCHANGED <<alive, last, paged, node, op, fault>>

-----------------------------------------------------------------------------
(* Processes                                                               *)

(* The memory of the tables is part of what fork() copies.                 *)
Fork(p, q) ==
    /\ Idles(p)
    /\ q \notin alive
    /\ alive' = alive \cup {q}
    /\ paged' = [paged EXCEPT ![q] = paged[p]]
    /\ node' = [node EXCEPT ![q] = node[p]]
    /\ UNCHANGED <<last, cache, inode, op, fault>>

(* Nothing is closed for a process that ends.                              *)
Exit(p) ==
    /\ Idles(p)
    /\ alive # {p}
    /\ alive' = alive \ {p}
    /\ paged' = [paged EXCEPT ![p] = {}]
    /\ node' = [node EXCEPT ![p] = NoHandles]
    /\ UNCHANGED <<last, cache, inode, op, fault>>
-----------------------------------------------------------------------------
(* The system as it is.                                                    *)
Next ==
    \E p \in Procs :
        \/ \E t \in Tables : OpenSlot(p, t)
        \/ \E f \in Files : OpenFind(p, f)
        \/ OpenDir(p)
        \/ OpenFails(p)
        \/ OpenStore(p)
        \/ KernelClose(p)
        \/ KernelLeaves(p)
        \/ \E i \in Slots : Close(p, i) \/ Stat(p, i) \/ \E f \in Files : Readdir(p, i, f)
        \/ \E q \in Procs : Fork(p, q)
        \/ Exit(p)

Spec == Init /\ [][Next]_vars

(* The nodes somebody has a pointer to.                                    *)
Referred == (UNION {{node[t][i] : i \in Slots} : t \in Tables}) \cup {op[p].node : p \in Procs}
InUse(f) == \E c \in Referred \cap Cells : inode[c] = f

(* The cases it handles: a file is opened by one at a time, and not listed *)
(* meanwhile, nor inherited by a child, ...                                *)
QuietFind(p, f) == ~ InUse(f) /\ OpenFind(p, f)
QuietReaddir(p, i, f) == ~ InUse(f) /\ Readdir(p, i, f)
QuietFork(p, q) == Fork(p, q) /\ \A i \in Slots : node[p][i] \notin Cells

(* ... a table has all the pages the others have, and nobody else is       *)
(* opening a file for the kernel.                                          *)
QuietSlot(p, t) ==
    /\ 0 .. LastOf(t) - 1 \subseteq paged[t]
    /\ t = Kernel => \A q \in Procs \ {p} : op[q].table # Kernel \/ op[q].pc = "using"
    /\ OpenSlot(p, t)

QuietNext ==
    \E p \in Procs :
        \/ \E t \in Tables : QuietSlot(p, t)
        \/ \E f \in Files : QuietFind(p, f)
        \/ OpenDir(p)
        \/ OpenFails(p)
        \/ OpenStore(p)
        \/ KernelClose(p)
        \/ KernelLeaves(p)
        \/ \E i \in Slots : Close(p, i) \/ \E f \in Files : QuietReaddir(p, i, f)
        \/ \E q \in Procs : QuietFork(p, q)
        \/ Exit(p)

QuietSpec == Init /\ [][QuietNext]_vars

(* Each of the cases taken back in.                                        *)
SharedSpec == Init /\ [][QuietNext \/ \E p \in Procs, f \in Files : OpenFind(p, f)]_vars
ListSpec ==
    Init /\ [][QuietNext \/ \E p \in Procs, i \in Slots, f \in Files : Readdir(p, i, f)]_vars
ForkSpec == Init /\ [][QuietNext \/ \E p, q \in Procs : Fork(p, q)]_vars
TableSpec == Init /\ [][QuietNext \/ \E p \in Procs : OpenSlot(p, p)]_vars
RaceSpec == Init /\ [][QuietNext \/ \E p \in Procs : OpenSlot(p, Kernel)]_vars
-----------------------------------------------------------------------------
TypeOK ==
    /\ alive \subseteq Procs
    /\ last \in [user : Nat, kernel : Nat]
    /\ paged \in [Tables -> SUBSET Slots]
    /\ node \in [Tables -> [Slots -> Nodes \cup {None}]]
    /\ cache \in Seq(Cells)
    /\ inode \in [Cells -> Files \cup {None}]
    /\ op \in [Procs -> Op]
    /\ fault \in BOOLEAN

(* Whatever is opened, closed and listed, a node that a handle leads to, or*)
(* that vfs_open() has in hand, is not freed.                              *)
NodesLive == Referred \cap Cells \subseteq Range(cache)

(* The cache has one node for a file, and a node one entry.                *)
OneEntry ==
    \A i, j \in DOMAIN cache :
        i # j => cache[i] # cache[j] /\ inode[cache[i]] # inode[cache[j]]

(* Open handles have memory behind them, and no table is scanned beyond    *)
(* its end.                                                                *)
HandlesHaveMemory ==
    /\ ~ fault
    /\ \A t \in Tables, i \in Slots : node[t][i] # None => i \in paged[t] /\ i < LastOf(t)

(* What handles lead to is there: nodes that live, one for each file, and  *)
(* memory for the handles themselves.                                      *)
HandlesSound == NodesLive /\ OneEntry /\ HandlesHaveMemory

(* A handle means the file it was opened for until it is closed.           *)
Promise == INSTANCE FileTable WITH
    Things <- Files \cup {Dir},
    Closed <- None,
    opened <- [t \in Tables |-> [i \in Slots |->
                  IF node[t][i] \in Cells THEN inode[node[t][i]] ELSE node[t][i]]]
HandlesKept == Promise!Spec
=============================================================================
