---------------------------- MODULE KernelRanges ----------------------------
(***************************************************************************)
(* What the kernel maps for itself (AcessOS/mm2.c): ranges for modules,    *)
(* hardware and DMA buffers, the pages of a process's kernel data, and the *)
(* few slots in which a page that has no address is looked at for a while. *)
(*                                                                         *)
(* The pages given out come from PhysMem.  A slot is used by Binary_DoLoad *)
(* (CommonCode/binload.c), which reads a page of a program into it, and by *)
(* MM_Duplicate(), which needs two.                                        *)
(***************************************************************************)
EXTENDS PhysMem

CONSTANTS
    Procs,          \* processes
    Slots,          \* slots of temporary mappings, 7 in the code
    Tries,          \* times MM_MapTemp() looks for one, 10 in the code
    HW,             \* pages of the hardware range
    Holders,        \* drivers that map hardware
    Devices,        \* a device's memory: its first page and their number
    Local,          \* pages of kernel data in an address space
    None

ASSUME RangesConstants ==
    /\ Slots \in Nat /\ Local \in Nat /\ Tries \in Nat \ {0} /\ HW \in Nat /\ HW % (W * W) = 0
    /\ Devices \subseteq [phys : {d \in Nat : d >= Total}, count : 1 .. HW]
    /\ None \notin Nat

VARIABLES
    hwBits,         \* hwPageBitmap
    hwSupers,       \* hwSuperpageBitmap
    table,          \* table[v]: what page v of the hardware range is mapped to
    hw,             \* hw[h]: the mapping holder h made last and has not undone
    temp,           \* temp[i]: the page slot i is mapped to
    refs,           \* giRefCount, of pages that are mapped in slots
    dir,            \* dir[p]: page directory of process p
    local,          \* local[p]: the pages of its kernel data
    job             \* what each process does with slots

vars == <<bits, supers, used, given, state, hwBits, hwSupers, table, hw, temp, refs, dir, local, job>>
hwVars == <<hwBits, hwSupers, table, hw>>
spaceVars == <<dir, local>>
tempVars == <<temp, refs>>

Slot == 0 .. Slots - 1
HWPages == 0 .. HW - 1
NoJob == [pc |-> "idle", from |-> None, to |-> None, a |-> None, b |-> None, tries |-> 0, child |-> None, dir |-> None]
NoMap == [at |-> None, phys |-> None, count |-> 0]

Init ==
    /\ PhysInit
    /\ hwBits = {}
    /\ hwSupers = {}
    /\ table = [v \in HWPages |-> None]
    /\ hw = [h \in Holders |-> NoMap]
    /\ temp = [i \in Slot |-> None]
    /\ refs = [f \in Pages |-> 0]
    /\ \E p \in Procs : dir = [q \in Procs |-> IF q = p THEN 0 ELSE None]
    /\ local = [p \in Procs |-> [i \in 1 .. Local |-> IF dir[p] = 0 THEN 0 ELSE None]]
    /\ job = [p \in Procs |-> NoJob]

Runs(p) == state = "runs" /\ dir[p] # None
Goes(p, pc) == job' = [job EXCEPT ![p].pc = pc]
-----------------------------------------------------------------------------
(* Hardware ranges                                                         *)

(* The same two bitmaps for addresses, the same search: it starts again    *)
(* where it was if a page further on is taken.                             *)
HWOpen == {a \in 0 .. HW \div (W * W) - 1 : ~ WordsOf(a) \subseteq hwSupers}
HWFrom == First(PagesOf(First(WordsOf(First(HWOpen)) \ hwSupers)) \ hwBits)

FitsFrom(n) == Run(HWFrom, n) \cap hwBits = {}

HWMark(v, d, h) ==
    LET range == Run(v, d.count)
    IN  /\ table' = [x \in HWPages |-> IF x \in range THEN d.phys + x - v ELSE table[x]]
        /\ hwBits' = hwBits \cup range
        /\ hwSupers' = hwSupers \cup {w \in {x \div W : x \in range} : PagesOf(w) \subseteq hwBits'}
        /\ hw' = [hw EXCEPT ![h] = [at |-> v, phys |-> d.phys, count |-> d.count]]

(* MM_MapHW().  A range that would go beyond the end of the bitmap is bound*)
(* out: the code reads on in whatever lies behind it.                      *)
MapHW(h, d) ==
    /\ state = "runs"
    /\ hw[h] = NoMap
    /\ IF HWOpen = {} THEN FALSE
       ELSE Run(HWFrom, d.count) \subseteq HWPages /\ FitsFrom(d.count) /\ HWMark(HWFrom, d, h)
    /\ UNCHANGED <<physVars, tempVars, spaceVars, job>>

(* MM_UnmapHW(): the entries go.  The bits it clears are those of the page *)
(* number with the base of the range in it, far behind the bitmap: what was*)
(* mapped once stays marked.                                               *)
Unmapped(m) == [v \in HWPages |-> IF v \in Run(m.at, m.count) THEN None ELSE table[v]]

UnmapHW(h) ==
    /\ state = "runs"
    /\ hw[h] # NoMap
    /\ table' = Unmapped(hw[h])
    /\ hw' = [hw EXCEPT ![h] = NoMap]
    /\ UNCHANGED <<physVars, tempVars, spaceVars, hwBits, hwSupers, job>>

(* MM_AllocDMA(): a run of pages and addresses for it, ...                 *)
AllocDMA(h, n) ==
    \E f \in Pages :
        /\ hw[h] = NoMap
        /\ HWOpen # {}
        /\ Run(HWFrom, n) \subseteq HWPages /\ FitsFrom(n)
        /\ GrabRun(f, n)
        /\ HWMark(HWFrom, [phys |-> f, count |-> n], h)
        /\ UNCHANGED <<tempVars, spaceVars, job>>

(* ... or, when there are no addresses, neither: the run is freed again,   *)
(* page by page, though it was counted as one.  (Bounded: only while the   *)
(* count is right, and for runs that are not longer than what the kernel   *)
(* has itself, or it could wrap, which Uint does and integers do not.)     *)
UndoDMA(n) ==
    LET run == Run(First(OpenPages), n)
        filled == Full(run)
    IN  /\ state = "runs"
        /\ HWOpen = {}
        /\ Open # {} /\ OpenPages # {}
        /\ run \subseteq Pages \ bits
        /\ used = Cardinality(bits) /\ n <= Reserved + 1
        /\ used' = used + 1 - n
        /\ supers' = filled \ {f \div W : f \in {g \in run : PagesOf(g \div W) \cap bits = {}}}
        /\ UNCHANGED <<bits, given, state, hwVars, tempVars, spaceVars, job>>
-----------------------------------------------------------------------------
(* Temporary mappings                                                      *)

FreeSlots == {i \in Slot : temp[i] = None}

(* Slot 0 whether or not it is taken.                                      *)
SlotZero == 0

(* MM_MapTemp(): "Find a free page".                                       *)
FreeSlot == First(FreeSlots)

Fill(i, f) ==
    /\ temp' = [temp EXCEPT ![i] = f]
    /\ refs' = [refs EXCEPT ![f] = @ + 1]

(* MM_FreeTemp() takes back the count of whatever the slot is mapped to by *)
(* now.                                                                    *)
Less(r, S) == [f \in Pages |-> IF f \in {temp[i] : i \in S} /\ r[f] > 0 THEN r[f] - 1 ELSE r[f]]
Release(S) ==
    /\ temp' = [i \in Slot |-> IF i \in S THEN None ELSE temp[i]]
    /\ refs' = Less(refs, S)

(* Binary_DoLoad() takes a page to read into, ...                          *)
LoadPage(p) ==
    \E f \in Pages :
        /\ Runs(p)
        /\ job[p].pc = "idle"
        /\ Grab(f)
        /\ job' = [job EXCEPT ![p] = [NoJob EXCEPT !.pc = "map", !.to = f, !.tries = Tries]]
        /\ UNCHANGED <<hwVars, tempVars, spaceVars>>

(* ... looks for a slot, with interrupts on, ...                           *)
LoadFind(p) ==
    /\ Runs(p)
    /\ job[p].pc = "map"
    /\ FreeSlots # {}
    /\ job' = [job EXCEPT ![p].pc = "fill", ![p].a = FreeSlot]
    /\ UNCHANGED <<physVars, hwVars, tempVars, spaceVars>>

(* ... and uses it.                                                        *)
LoadFill(p) ==
    /\ Runs(p)
    /\ job[p].pc = "fill"
    /\ Fill(job[p].a, job[p].to)
    /\ Goes(p, "read")
    /\ UNCHANGED <<physVars, hwVars, spaceVars>>

(* Both at once.                                                           *)
LoadMap(p) ==
    /\ Runs(p)
    /\ job[p].pc = "map"
    /\ FreeSlots # {}
    /\ Fill(FreeSlot, job[p].to)
    /\ job' = [job EXCEPT ![p].pc = "read", ![p].a = FreeSlot]
    /\ UNCHANGED <<physVars, hwVars, spaceVars>>

(* The file is read into the slot, and the page is the list's.             *)
LoadRead(p) ==
    /\ Runs(p)
    /\ job[p].pc = "read"
    /\ Release({job[p].a})
    /\ job' = [job EXCEPT ![p] = NoJob]
    /\ UNCHANGED <<physVars, hwVars, spaceVars>>

(* All taken: it yields, and gives up after as many times.  It returns 0,  *)
(* and its caller writes there: to the user's first page.                  *)
Waits(p) ==
    /\ Runs(p)
    /\ job[p].pc \in {"map", "dup", "dup2"}
    /\ FreeSlots = {}
    /\ job[p].tries > 1
    /\ job' = [job EXCEPT ![p].tries = @ - 1]
    /\ UNCHANGED <<physVars, hwVars, tempVars, spaceVars>>

GivesUp(p) ==
    /\ Runs(p)
    /\ job[p].pc \in {"map", "dup", "dup2"}
    /\ FreeSlots = {}
    /\ job[p].tries = 1
    /\ Goes(p, "zero")
    /\ UNCHANGED <<physVars, hwVars, tempVars, spaceVars>>

(* MM_CloneKernel(): an address space with a directory ...                 *)
Clone(p, q) ==
    \E f \in Pages :
        /\ Runs(p)
        /\ job[p].pc = "idle"
        /\ dir[q] = None
        /\ \A r \in Procs : job[r].child # q
        /\ Grab(f)
        /\ job' = [job EXCEPT ![p] = [NoJob EXCEPT !.pc = "local", !.child = q, !.dir = f]]
        /\ UNCHANGED <<hwVars, tempVars, spaceVars>>

(* ... and copies of the pages of kernel data, of one after the other.     *)
ToCopy(q) == {i \in 1 .. Local : local[q][i] = None}
LocalPage(p) ==
    \E f \in Pages :
        /\ Runs(p)
        /\ job[p].pc = "local"
        /\ ToCopy(job[p].child) # {}
        /\ Grab(f)
        /\ job' = [job EXCEPT ![p].pc = "dup", ![p].to = f, ![p].tries = Tries,
                              ![p].from = local[p][First(ToCopy(job[p].child))]]
        /\ UNCHANGED <<hwVars, tempVars, spaceVars>>

(* MM_Duplicate(): both pages in slots, the copy, the slots free again.    *)
DupTo(p) ==
    /\ Runs(p)
    /\ job[p].pc = "dup"
    /\ FreeSlots # {}
    /\ Fill(FreeSlot, job[p].to)
    /\ job' = [job EXCEPT ![p].pc = "dup2", ![p].a = FreeSlot, ![p].tries = Tries]
    /\ UNCHANGED <<physVars, hwVars, spaceVars>>

DupFrom(p) ==
    /\ Runs(p)
    /\ job[p].pc = "dup2"
    /\ FreeSlots # {}
    /\ Fill(FreeSlot, job[p].from)
    /\ job' = [job EXCEPT ![p].pc = "copy", ![p].b = FreeSlot]
    /\ UNCHANGED <<physVars, hwVars, spaceVars>>

DupCopy(p) ==
    /\ Runs(p)
    /\ job[p].pc = "copy"
    /\ Release({job[p].a, job[p].b})
    /\ local' = [local EXCEPT ![job[p].child][First(ToCopy(job[p].child))] = job[p].to]
    /\ job' = [job EXCEPT ![p] = [NoJob EXCEPT !.pc = "local", !.child = job[p].child, !.dir = job[p].dir]]
    /\ UNCHANGED <<physVars, hwVars, dir>>

Cloned(p) ==
    /\ Runs(p)
    /\ job[p].pc = "local"
    /\ ToCopy(job[p].child) = {}
    /\ dir' = [dir EXCEPT ![job[p].child] = job[p].dir]
    /\ job' = [job EXCEPT ![p] = NoJob]
    /\ UNCHANGED <<physVars, hwVars, tempVars, local>>

(* mm_remove(): the pages of user space and the directory.  The pages of   *)
(* kernel data stay allocated, with nobody to know them.                   *)
Remove(p) ==
    /\ Runs(p)
    /\ dir[p] # 0
    /\ job[p].pc = "idle"
    /\ Free({dir[p]})
    /\ dir' = [dir EXCEPT ![p] = None]
    /\ local' = [local EXCEPT ![p] = [i \in 1 .. Local |-> None]]
    /\ UNCHANGED <<hwVars, tempVars, job>>

(* Somebody needs a page, or n in a row, when none is found.               *)
OutOfMemory ==
    /\ NoPage
    /\ Stop("panic")
    /\ UNCHANGED <<hwVars, tempVars, spaceVars, job>>

Hangs(n) ==
    /\ Spins(n)
    /\ Stop("hang")
    /\ UNCHANGED <<hwVars, tempVars, spaceVars, job>>
-----------------------------------------------------------------------------
Drivers ==
    \E h \in Holders :
        \/ \E d \in Devices : MapHW(h, d)
        \/ UnmapHW(h)
        \/ \E d \in Devices : AllocDMA(h, d.count)

Spaces(p) ==
    \/ \E q \in Procs : Clone(p, q)
    \/ LocalPage(p)
    \/ DupTo(p)
    \/ DupFrom(p)
    \/ DupCopy(p)
    \/ Cloned(p)
    \/ Remove(p)

Next ==
    \/ Drivers
    \/ \E d \in Devices : UndoDMA(d.count) \/ Hangs(d.count)
    \/ OutOfMemory
    \/ \E p \in Procs : Spaces(p) \/ LoadPage(p) \/ LoadFind(p) \/ LoadFill(p) \/ LoadRead(p)
                         \/ Waits(p) \/ GivesUp(p)

Spec == Init /\ [][Next]_vars

(* The cases it handles: nobody comes between finding a slot and filling   *)
(* it, nobody gives up, and runs of pages are asked for when there are any.*)
QuietNext ==
    \/ Drivers
    \/ \E d \in Devices : UndoDMA(d.count)
    \/ OutOfMemory
    \/ \E p \in Procs : Spaces(p) \/ LoadPage(p) \/ LoadMap(p) \/ LoadRead(p) \/ Waits(p)

QuietSpec == Init /\ [][QuietNext]_vars
-----------------------------------------------------------------------------
Opt(S) == S \cup {None}

TypeOK ==
    /\ PhysTypeOK
    /\ hwBits \subseteq HWPages
    /\ hwSupers \subseteq 0 .. HW \div W - 1
    /\ table \in [HWPages -> Opt(Nat)]
    /\ hw \in [Holders -> [at : Opt(HWPages), phys : Opt(Nat), count : 0 .. HW]]
    /\ temp \in [Slot -> Opt(Pages)]
    /\ refs \in [Pages -> Nat]
    /\ dir \in [Procs -> Opt(Pages)]
    /\ local \in [Procs -> [1 .. Local -> Opt(Pages)]]
    /\ job \in [Procs -> [pc : {"idle", "map", "fill", "read", "zero", "local", "dup", "dup2", "copy"},
                          from : Opt(Pages), to : Opt(Pages), a : Opt(Slot), b : Opt(Slot),
                          tries : 0 .. Tries, child : Opt(Procs), dir : Opt(Pages)]]

(* Until it is undone a mapping leads where it was made to: drivers keep   *)
(* their whole range, whoever maps and unmaps beside them, and what is read*)
(* or copied through a slot goes to the page it is meant for.  The counts  *)
(* of pages in slots are those of the slots.                               *)
MappingsKept ==
    /\ \A h \in Holders : \A i \in 0 .. hw[h].count - 1 : table[hw[h].at + i] = hw[h].phys + i
    /\ \A p \in Procs :
          /\ job[p].pc \in {"read", "dup2", "copy"} => temp[job[p].a] = job[p].to
          /\ job[p].pc = "copy" => temp[job[p].b] = job[p].from
          /\ job[p].pc # "zero"
    /\ \A f \in Pages : refs[f] = Cardinality({i \in Slot : temp[i] = f})
=============================================================================
