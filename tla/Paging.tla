------------------------------- MODULE Paging -------------------------------
(***************************************************************************)
(* The user half of the address spaces of AcessOS/mm2.c: page tables,      *)
(* reference counted frames, fork by copy-on-write, exec and exit.         *)
(*                                                                         *)
(* An address space has a page directory, and here one page table, each in *)
(* a frame of its own.  Faults, fork and exit run with interrupts off and  *)
(* are one step.  mm_alloc() and the MM_Clear() of exec run in a system    *)
(* call, whose gate is a trap gate, so that the timer can strike inside of *)
(* them: they are several steps.                                           *)
(*                                                                         *)
(* Not here: the bitmap behind MM_AllocPhys(), the kernel half and the     *)
(* frames of a process's local storage.                                    *)
(***************************************************************************)
EXTENDS Integers, FiniteSets

CONSTANTS
    Pids,           \* slots of page_directories
    VPages,         \* user pages of an address space
    Frames,         \* physical pages
    Values,         \* what a page can hold
    None

ASSUME PagingConstants ==
    /\ None \notin Frames \cup Values
    /\ Frames # {}
    /\ IsFiniteSet(Pids) /\ IsFiniteSet(VPages)

VARIABLES
    free,           \* frames whose bit in the allocation bitmap is clear
    ref,            \* giRefCount
    dir,            \* dir[p]: frame of p's page directory (page_directories)
    tab,            \* tab[p]: frame of p's page table
    pte,            \* pte[p][v]: entry of p's page table
    content,        \* content[f]: what frame f holds, None if it is no page of anybody
    op,             \* what p is doing inside the kernel
    halted          \* the kernel ran out of memory and panicked

vars == <<free, ref, dir, tab, pte, content, op, halted>>

(* "write" is FLAG_WRITEABLE, "cow" FLAG_CPYONWRITE without it.            *)
Entry == [frame : Frames \cup {None}, mode : {"write", "cow"}]
Absent == [frame |-> None, mode |-> "write"]

Ops == [pc : {"run", "table", "frame", "clear", "drop"},
        page : VPages \cup {None}, frame : Frames \cup {None}]
Running == [pc |-> "run", page |-> None, frame |-> None]

(* MM_AllocPhys() returns a free page.                                     *)
Grab(s) == CHOOSE f \in s : TRUE

Mapped(p) == {v \in VPages : pte[p][v].frame # None}
FramesOf(p) == {pte[p][v].frame : v \in Mapped(p)}

Alive(p) == dir[p] # None
Runs(p) == ~ halted /\ Alive(p) /\ op[p].pc = "run"

Halt ==
    /\ halted' = TRUE
    /\ UNCHANGED <<free, ref, dir, tab, pte, content, op>>

Init ==
    \E p \in Pids : LET f == Grab(Frames) IN
        /\ free = Frames \ {f}
        /\ ref = [g \in Frames |-> IF g = f THEN 1 ELSE 0]
        /\ dir = [q \in Pids |-> IF q = p THEN f ELSE None]
        /\ tab = [q \in Pids |-> None]
        /\ pte = [q \in Pids |-> [v \in VPages |-> Absent]]
        /\ content = [g \in Frames |-> None]
        /\ op = [q \in Pids |-> Running]
        /\ halted = FALSE

-----------------------------------------------------------------------------
(* mm_alloc()                                                              *)

(* The directory has no table: it gets one.                                *)
AllocTable(p, v) ==
    /\ Runs(p)
    /\ tab[p] = None
    /\ IF free = {} THEN Halt
       ELSE LET f == Grab(free)
            IN  /\ free' = free \ {f}
                /\ ref' = [ref EXCEPT ![f] = @ + 1]
                /\ tab' = [tab EXCEPT ![p] = f]
                /\ op' = [op EXCEPT ![p] = [pc |-> "table", page |-> v, frame |-> None]]
                /\ UNCHANGED <<dir, pte, content, halted>>

(* A frame is taken from the bitmap, but not yet counted.                  *)
AllocFrame(p, v) ==
    /\ ~ halted
    /\ tab[p] # None
    /\ Runs(p) \/ (op[p].pc = "table" /\ op[p].page = v)
    /\ pte[p][v] = Absent
    /\ IF free = {} THEN Halt
       ELSE LET f == Grab(free)
            IN  /\ free' = free \ {f}
                /\ op' = [op EXCEPT ![p] = [pc |-> "frame", page |-> v, frame |-> f]]
                /\ UNCHANGED <<ref, dir, tab, pte, content, halted>>

(* The frame is counted and mapped, with whatever was left in it.          *)
AllocMap(p) ==
    /\ ~ halted
    /\ op[p].pc = "frame"
    /\ \E x \in Values : content' = [content EXCEPT ![op[p].frame] = x]
    /\ ref' = [ref EXCEPT ![op[p].frame] = @ + 1]
    /\ pte' = [pte EXCEPT ![p][op[p].page] = [frame |-> op[p].frame, mode |-> "write"]]
    /\ op' = [op EXCEPT ![p] = Running]
    /\ UNCHANGED <<free, dir, tab, halted>>

-----------------------------------------------------------------------------
(* MM_CloneCurrent()                                                       *)

(* A parent that keeps on writing to the pages it shares.                  *)
CowedNot(p) == pte[p]

(* "Set Copy-On-Write for old table"                                       *)
Cowed(p) == [v \in VPages |-> IF v \in Mapped(p) THEN [pte[p][v] EXCEPT !.mode = "cow"]
                              ELSE Absent]

(* Every page that is mapped is referenced once more, and so are the frames*)
(* the new address space is made of.                                       *)
Referenced(p, taken) ==
    [f \in Frames |-> IF f \in taken \cup FramesOf(p) THEN ref[f] + 1 ELSE ref[f]]

(* The new directory takes one frame, the copy of the table another.       *)
Fork(p, q) ==
    LET d == Grab(free)
        t == Grab(free \ {d})
        taken == IF tab[p] = None THEN {d} ELSE {d, t}
    IN  /\ Runs(p)
        /\ ~ Alive(q)
        /\ IF free = {} \/ (tab[p] # None /\ free \ {d} = {}) THEN Halt
           ELSE /\ free' = free \ taken
                /\ ref' = Referenced(p, taken)
                /\ dir' = [dir EXCEPT ![q] = d]
                /\ tab' = [tab EXCEPT ![q] = IF tab[p] = None THEN None ELSE t]
                /\ pte' = [pte EXCEPT ![p] = Cowed(p), ![q] = Cowed(p)]
                /\ UNCHANGED <<content, op, halted>>

-----------------------------------------------------------------------------
(* User code, and MM_PageFault()                                           *)

Store(p, v, x) ==
    /\ Runs(p)
    /\ v \in Mapped(p)
    /\ pte[p][v].mode = "write"
    /\ content' = [content EXCEPT ![pte[p][v].frame] = x]
    /\ UNCHANGED <<free, ref, dir, tab, pte, op, halted>>

SharedByThree(f) == ref[f] > 2
Shared(f) == ref[f] > 1

(* A write to a copy-on-write page: "Get and fill new page" if it has      *)
(* other references, or else reuse it.                                     *)
PageFault(p, v) ==
    LET f == pte[p][v].frame
        g == Grab(free)
    IN  /\ Runs(p)
        /\ v \in Mapped(p)
        /\ pte[p][v].mode = "cow"
        /\ CASE Shared(f) /\ free = {} -> Halt
             [] Shared(f) /\ free # {} ->
                    /\ free' = free \ {g}
                    /\ content' = [content EXCEPT ![g] = content[f]]
                    /\ ref' = [ref EXCEPT ![g] = @ + 1, ![f] = @ - 1]
                    /\ pte' = [pte EXCEPT ![p][v] = [frame |-> g, mode |-> "write"]]
                    /\ UNCHANGED <<dir, tab, op, halted>>
             [] ~ Shared(f) ->
                    /\ pte' = [pte EXCEPT ![p][v].mode = "write"]
                    /\ UNCHANGED <<free, ref, dir, tab, content, op, halted>>

(* The kernel, on behalf of p, stores to a page of p.  CR0.WP is never set:*)
(* the processor does not look at FLAG_WRITEABLE, and nothing faults.      *)
KernelStore(p, v, x) ==
    /\ Runs(p)
    /\ v \in Mapped(p)
    /\ content' = [content EXCEPT ![pte[p][v].frame] = x]
    /\ UNCHANGED <<free, ref, dir, tab, pte, op, halted>>

-----------------------------------------------------------------------------
(* Giving memory back                                                      *)

(* A page dereferenced once too often.                                     *)
LessTwo(n) == n - 2

(* MM_DerefPage() stops at zero.                                           *)
Less(n) == IF n > 0 THEN n - 1 ELSE 0

(* "Dereference and free if unused", for every frame of a set.             *)
Dropped(s) == [f \in Frames |-> IF f \in s THEN Less(ref[f]) ELSE ref[f]]
Unused(s) == {f \in s : Less(ref[f]) = 0}

(* What a free frame holds is not kept track of.                           *)
FreePhys(s) ==
    /\ free' = free \cup s
    /\ content' = [f \in Frames |-> IF f \in s THEN None ELSE content[f]]

(* What an address space consists of.                                      *)
Own(p) == (FramesOf(p) \cup {dir[p], tab[p]}) \ {None}

(* mm_remove(), by the process itself or by the one that kills it.         *)
Remove(p) ==
    /\ ref' = Dropped(Own(p))
    /\ FreePhys(Unused(Own(p)))
    /\ dir' = [dir EXCEPT ![p] = None]
    /\ tab' = [tab EXCEPT ![p] = None]
    /\ pte' = [pte EXCEPT ![p] = [v \in VPages |-> Absent]]
    /\ op' = [op EXCEPT ![p] = Running]
    /\ UNCHANGED halted

Exit(p) == Runs(p) /\ Remove(p)

(* Proc_Kill() does not look at what its victim is doing.                  *)
Kill(p) == ~ halted /\ Alive(p) /\ op[p].pc # "run" /\ Remove(p)

(* MM_Clear(), the first thing exec does: it goes over the pages, ...      *)
ClearDeref(p, v) ==
    /\ ~ halted
    /\ Runs(p) \/ op[p].pc = "clear"
    /\ v \in Mapped(p)
    /\ ref' = Dropped({pte[p][v].frame})
    /\ op' = [op EXCEPT ![p] = [pc |-> "drop", page |-> v, frame |-> pte[p][v].frame]]
    /\ UNCHANGED <<free, dir, tab, pte, content, halted>>

(* ... frees each that has no references left, ...                         *)
ClearFree(p) ==
    /\ ~ halted
    /\ op[p].pc = "drop"
    /\ FreePhys({op[p].frame} \cap {f \in Frames : ref[f] = 0})
    /\ pte' = [pte EXCEPT ![p][op[p].page] = Absent]
    /\ op' = [op EXCEPT ![p] = [pc |-> "clear", page |-> None, frame |-> None]]
    /\ UNCHANGED <<ref, dir, tab, halted>>

(* ... and drops the page table at the end.                                *)
ClearTable(p) ==
    /\ ~ halted
    /\ Runs(p) \/ op[p].pc = "clear"
    /\ tab[p] # None
    /\ Mapped(p) = {}
    /\ ref' = Dropped({tab[p]})
    /\ FreePhys(Unused({tab[p]}))
    /\ tab' = [tab EXCEPT ![p] = None]
    /\ op' = [op EXCEPT ![p] = Running]
    /\ UNCHANGED <<dir, pte, halted>>

(* mm_dealloc(), for a brk() that shrinks the heap: the frame is freed     *)
(* whatever its reference count.                                           *)
Dealloc(p, v) ==
    LET f == pte[p][v].frame
    IN  /\ Runs(p)
        /\ v \in Mapped(p)
        /\ FreePhys({f})
        /\ ref' = Dropped({f})
        /\ pte' = [pte EXCEPT ![p][v] = Absent]
        /\ UNCHANGED <<dir, tab, op, halted>>

-----------------------------------------------------------------------------
Step(p) ==
    \/ \E v \in VPages :
           \/ AllocTable(p, v)
           \/ AllocFrame(p, v)
           \/ \E x \in Values : Store(p, v, x)
           \/ PageFault(p, v)
           \/ ClearDeref(p, v)
    \/ AllocMap(p)
    \/ \E q \in Pids : Fork(p, q)
    \/ Exit(p)
    \/ ClearFree(p)
    \/ ClearTable(p)

(* The system as it is.                                                    *)
Next ==
    \E p \in Pids :
        \/ Step(p)
        \/ Kill(p)
        \/ \E v \in VPages : Dealloc(p, v) \/ \E x \in Values : KernelStore(p, v, x)

Spec == Init /\ [][Next]_vars

(* What it gets wrong left out: nobody runs between a dereference of       *)
(* MM_Clear() and the test that follows it, nobody is killed inside the    *)
(* kernel, ...                                                             *)
Undisturbed(p) == \A q \in Pids : q # p => op[q].pc # "drop"

(* ... brk() only gives back pages that are not shared, and system calls   *)
(* only write to pages their process could write to itself.                *)
QuietNext ==
    \E p \in Pids :
        /\ Undisturbed(p)
        /\ \/ Step(p)
           \/ \E v \in VPages :
                  \/ Dealloc(p, v) /\ ~ Shared(pte[p][v].frame)
                  \/ \E x \in Values : KernelStore(p, v, x) /\ pte[p][v].mode = "write"

QuietSpec == Init /\ [][QuietNext]_vars

(* Each of the three taken back in.                                        *)
PreemptSpec == Init /\ [][\E p \in Pids : Step(p) \/ Kill(p)]_vars

BrkSpec == Init /\ [][QuietNext \/ \E p \in Pids, v \in VPages : Dealloc(p, v)]_vars

KernelSpec ==
    Init /\ [][QuietNext \/ \E p \in Pids, v \in VPages, x \in Values : KernelStore(p, v, x)]_vars
-----------------------------------------------------------------------------
TypeOK ==
    /\ free \subseteq Frames
    /\ ref \in [Frames -> Nat]
    /\ dir \in [Pids -> Frames \cup {None}]
    /\ tab \in [Pids -> Frames \cup {None}]
    /\ pte \in [Pids -> [VPages -> Entry]]
    /\ content \in [Frames -> Values \cup {None}]
    /\ op \in [Pids -> Ops]
    /\ halted \in BOOLEAN

(* The frames p holds on to: what it maps, and what mm_alloc() took for it.*)
Held(p) == (FramesOf(p) \cup {dir[p], tab[p], op[p].frame}) \ {None}

(* No frame is both free and in use: what one process frees is never still *)
(* mapped by another.                                                      *)
NoDanglingMap == \A p \in Pids : free \cap Held(p) = {}

(* Whatever the order of forks, faults, execs and exits, a frame nobody    *)
(* uses any more is free again.                                            *)
NoFrameLost == Frames \subseteq free \cup UNION {Held(p) : p \in Pids}

(* A page that can be written without a fault is mapped nowhere else.      *)
WritableIsPrivate ==
    \A p, q \in Pids : \A v \in Mapped(p), w \in Mapped(q) :
        pte[p][v].mode = "write" /\ pte[p][v].frame = pte[q][w].frame =>
            p = q /\ v = w

(* giRefCount is the number of page table entries, tables and directories  *)
(* that lead to a frame; an entry MM_Clear() is about to unset counts no   *)
(* more.                                                                   *)
Counts(p, v, f) == pte[p][v].frame = f /\ ~ (op[p].pc = "drop" /\ op[p].page = v)
Entries(f) == {e \in Pids \X VPages : Counts(e[1], e[2], f)}
RefCountsExact ==
    \A f \in Frames :
        ref[f] = Cardinality(Entries(f)) + Cardinality({p \in Pids : dir[p] = f})
                                         + Cardinality({p \in Pids : tab[p] = f})

(* Whatever the order of forks, faults, execs, exits and brk()s: a frame   *)
(* is free exactly while nobody uses it, its count says by how many it is  *)
(* used, and what one can write without a fault nobody else reads.         *)
FramesExact == NoDanglingMap /\ NoFrameLost /\ RefCountsExact /\ WritableIsPrivate

(* Fork and copy-on-write implement processes with memory of their own.    *)
Private == INSTANCE PrivateMemory WITH
    NoPage <- None,
    alive  <- {p \in Pids : Alive(p)},
    memory <- [p \in Pids |-> [v \in VPages |->
                  IF v \in Mapped(p) THEN content[pte[p][v].frame] ELSE None]]
PrivateSpec == Private!Spec
=============================================================================
