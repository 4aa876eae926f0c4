-------------------------------- MODULE Heap --------------------------------
(***************************************************************************)
(* The kernel heap of CommonCode/heap.c: a boundary-tag allocator.         *)
(*                                                                         *)
(* Addresses are counted from heapStart in units of BLOCK_SIZE (32 bytes); *)
(* every block is a whole number of units.  A block starts with a heap_head*)
(* (magic, size), the first 8 bytes of its first unit, and ends with a     *)
(* heap_foot (header, magic), the last 8 bytes of its last unit.  Both     *)
(* stay in memory when a block is absorbed by a neighbour, and the model   *)
(* keeps such stale tags too.                                              *)
(*                                                                         *)
(* The system call gate is a trap gate, so a timer interrupt may switch    *)
(* process in the middle of AllocAt(), which takes no lock: AllocAt() is a *)
(* sequence of steps of a caller, one for each block it walks over and one *)
(* for what it does at the end.  With one caller this is the sequential    *)
(* allocator; with two it is what two system calls do to it.               *)
(***************************************************************************)
EXTENDS Integers

CONSTANTS
    Callers,        \* threads of control that call malloc() and free()
    MaxUnits,       \* bound: units of address space the heap may grow to
    PageUnits,      \* units in a page (4096 / BLOCK_SIZE)
    MaxRequest      \* bound: units in the largest request

ASSUME HeapConstants ==
    /\ MaxUnits \in Nat \ {0}
    /\ PageUnits \in Nat \ {0}
    /\ MaxRequest \in Nat \ {0}
    /\ PageUnits =< MaxUnits

VARIABLES
    mem,            \* the tags in memory, and the end of the heap
    mapped,         \* pages of the heap backed by physical memory
    live,           \* live[p]: units requested by the allocation at p (history)
    call,           \* the locals of each caller's AllocAt()
    panic           \* "none", or why the kernel halted

vars == <<mem, mapped, live, call, panic>>

Units == 0 .. MaxUnits - 1
Magic == {"used", "free", "none"}       \* MAGIC, MAGIC_FREE, anything else

HeapHead == [magic : Magic, size : 0 .. MaxUnits]
HeapFoot == [header : Units, magic : Magic]

Memory == [head : [Units -> HeapHead], foot : [Units -> HeapFoot], end : 0 .. MaxUnits]

Idle == [pc |-> "idle", need |-> 0, cur |-> 0, close |-> 0, best |-> 0]
Begun(n) == [pc |-> "walk", need |-> n, cur |-> 0, close |-> 0, best |-> 0]
Call == [pc : {"idle", "walk"}, need : 0 .. MaxRequest, cur : 0 .. MaxUnits,
         close : 0 .. MaxUnits, best : Units]

PageOf(u) == u \div PageUnits
Free(m, u) == m.head[u].magic = "free"
LastUnit(m, b) == b + m.head[b].size - 1

-----------------------------------------------------------------------------
(* ExtendHeap()                                                            *)

(* The pages ExtendHeap() backs for a block of n units.  On a page         *)
(* boundary, all that the block needs; otherwise only if the test the code *)
(* calls "Crossing Page Boundaries" holds.                                 *)
PagesAdded(end, n) ==
    LET off  == end % PageUnits
        room == PageUnits - off
    IN  CASE off = 0 -> PageOf(end) .. PageOf(end + n - 1)
          [] off # 0 /\ n + room > PageUnits ->
                 PageOf(end) + 1 .. PageOf(end + n - 1)
          [] OTHER -> {}

(* The tags of the new block are written, one through an unmapped page.    *)
ExtendFaults(m, pages, n) ==
    ~ {PageOf(m.end), PageOf(m.end + n - 1)} \subseteq pages \cup PagesAdded(m.end, n)

(* The block before the end of the heap is free and takes the new one in.  *)
TailIsFree(m) ==
    /\ m.end # 0
    /\ m.foot[m.end - 1].magic = "used"
    /\ Free(m, m.foot[m.end - 1].header)

ExtendedBlock(m) == IF TailIsFree(m) THEN m.foot[m.end - 1].header ELSE m.end

(* Mutant: the heap ends where the enlarged block would, had it started    *)
(* at the old end.                                                         *)
ExtendHeapTwice(m, n) ==
    LET b    == ExtendedBlock(m)
        grow == IF b = m.end THEN n ELSE m.head[b].size + n
    IN  [head |-> [m.head EXCEPT ![m.end] = [magic |-> "free", size |-> n],
                                 ![b]     = [magic |-> "free", size |-> grow]],
         foot |-> [m.foot EXCEPT ![m.end + n - 1] = [header |-> b, magic |-> "used"]],
         end  |-> m.end + grow]

ExtendHeap(m, n) ==
    LET b    == ExtendedBlock(m)
        grow == IF b = m.end THEN n ELSE m.head[b].size + n
    IN  [head |-> [m.head EXCEPT ![m.end] = [magic |-> "free", size |-> n],
                                 ![b]     = [magic |-> "free", size |-> grow]],
         foot |-> [m.foot EXCEPT ![m.end + n - 1] = [header |-> b, magic |-> "used"]],
         end  |-> m.end + n]

-----------------------------------------------------------------------------
(* The ways AllocAt() turns a free block into an allocated one.            *)

(* Mutant: the block handed out keeps its tag.                             *)
TakeUntagged(m, b) == m

Take(m, b) == [m EXCEPT !.head[b].magic = "used"]

(* Mutant: the footer of the rest still points at the block handed out.    *)
SplitStaleFoot(m, b, n, size) ==
    [head |-> [m.head EXCEPT ![b]     = [magic |-> "used", size |-> n],
                             ![b + n] = [magic |-> "free", size |-> size - n]],
     foot |-> [m.foot EXCEPT ![b + n - 1] = [header |-> b, magic |-> "used"]],
     end  |-> m.end]

(* The first n units of the free block b, size units long, become a block  *)
(* of their own; the rest stays free.                                      *)
Split(m, b, n, size) ==
    [head |-> [m.head EXCEPT ![b]     = [magic |-> "used", size |-> n],
                             ![b + n] = [magic |-> "free", size |-> size - n]],
     foot |-> [m.foot EXCEPT ![b + n - 1] = [header |-> b, magic |-> "used"],
                             ![b + size - 1] = [header |-> b + n, magic |-> "used"]],
     end  |-> m.end]

(* A remainder of one unit is not worth a block.                           *)
WorthSplitting(size, n) == size - n > 1

-----------------------------------------------------------------------------
(* DeallocAt()                                                             *)

(* Mutant: free() believes every pointer.                                  *)
AllocatedAny(m, b) == TRUE

(* "Valid Heap Address"                                                    *)
Allocated(m, b) == m.head[b].magic = "used"

MarkFree(m, b) == [m EXCEPT !.head[b].magic = "free"]

(* Mutant: the footer of the block taken in is not updated.                *)
AbsorbStaleFoot(m, b, next) ==
    [m EXCEPT !.head[b].size = @ + m.head[next].size, !.head[next].magic = "none"]

(* The block at b takes in the block at next, right behind it.             *)
Absorb(m, b, next) ==
    [head |-> [m.head EXCEPT ![b].size = @ + m.head[next].size,
                             ![next].magic = "none"],
     foot |-> [m.foot EXCEPT ![LastUnit(m, next)].header = b],
     end  |-> m.end]

(* Mutant: the next block is taken in, free or not.                        *)
UnifyRightAny(m, b) ==
    LET next == b + m.head[b].size
    IN  IF next < m.end THEN Absorb(m, b, next) ELSE m

UnifyRight(m, b) ==
    LET next == b + m.head[b].size
    IN  IF next < m.end /\ Free(m, next) THEN Absorb(m, b, next) ELSE m

(* Mutant: the block before takes this one in, free or not.                *)
UnifyLeftAny(m, b) == IF b > 0 THEN Absorb(m, m.foot[b - 1].header, b) ELSE m

UnifyLeft(m, b) ==
    LET prev == m.foot[b - 1].header
    IN  IF b > 0 /\ Free(m, prev) THEN Absorb(m, prev, b) ELSE m

DeallocAt(m, b) == UnifyLeft(UnifyRight(MarkFree(m, b), b), b)

FreePanics(m, b) == b > 0 /\ m.foot[b - 1].magic # "used"

-----------------------------------------------------------------------------
(* Heap_Init() maps and formats the first page.                            *)
EmptyMemory == [head |-> [u \in Units |-> [magic |-> "none", size |-> 0]],
                foot |-> [u \in Units |-> [header |-> 0, magic |-> "none"]],
                end  |-> 0]

Init ==
    /\ mem = ExtendHeap(EmptyMemory, PageUnits)
    /\ mapped = PagesAdded(0, PageUnits)
    /\ live = [u \in Units |-> 0]
    /\ call = [c \in Callers |-> Idle]
    /\ panic = "none"

(* malloc(): a request of n units.  MaxUnits bounds the heap: a request    *)
(* the heap might have to grow for beyond it is not made.                  *)
AllocBegin(c, n) ==
    /\ panic = "none"
    /\ call[c].pc = "idle"
    /\ mem.end + n =< MaxUnits
    /\ call' = [call EXCEPT ![c] = Begun(n)]
    /\ UNCHANGED <<mem, mapped, live, panic>>

Walking(c) == panic = "none" /\ call[c].pc = "walk"

PerfectMatch(c) == LET u == call[c].cur IN
    u < mem.end /\ Free(mem, u) /\ mem.head[u].size = call[c].need

(* The sanity checks of the walk: a known magic and a footer that belongs. *)
Sane(m, u) ==
    /\ m.head[u].magic # "none"
    /\ m.foot[LastUnit(m, u)] = [header |-> u, magic |-> "used"]

Trashed ==
    /\ panic' = "trashed"
    /\ UNCHANGED <<mem, mapped, live, call>>

NextBlock(m, u) == u + m.head[u].size

AllocWalk(c) ==
    LET u == call[c].cur
        h == mem.head[u]
        better == /\ h.magic = "free"
                  /\ call[c].need < h.size
                  /\ call[c].close = 0 \/ h.size < call[c].close
    IN  /\ Walking(c)
        /\ u < mem.end
        /\ ~ PerfectMatch(c)
        /\ IF Sane(mem, u)
           THEN /\ call' = [call EXCEPT ![c] =
                                [pc |-> "walk", need |-> @.need, cur |-> NextBlock(mem, u),
                                 close |-> IF better THEN h.size ELSE @.close,
                                 best  |-> IF better THEN u ELSE @.best]]
                /\ UNCHANGED <<mem, mapped, live, panic>>
           ELSE Trashed

(* The caller gets block b for its request and leaves AllocAt().           *)
Return(c, b) ==
    /\ live' = [live EXCEPT ![b] = call[c].need]
    /\ call' = [call EXCEPT ![c] = Idle]
    /\ UNCHANGED panic

AllocPerfect(c) ==
    /\ Walking(c)
    /\ PerfectMatch(c)
    /\ mem' = Take(mem, call[c].cur)
    /\ Return(c, call[c].cur)
    /\ UNCHANGED mapped

WalkedAll(c) == Walking(c) /\ call[c].cur >= mem.end

(* No free block is large enough: the heap grows by the whole request, and *)
(* all of the block it grows to is handed out.                             *)
AllocExtend(c) ==
    LET n == call[c].need
    IN  /\ WalkedAll(c)
        /\ call[c].close = 0
        /\ mem.end + n =< MaxUnits
        /\ mapped' = mapped \cup PagesAdded(mem.end, n)
        /\ IF ExtendFaults(mem, mapped, n)
           THEN /\ mem' = [mem EXCEPT !.head[mem.end] = [magic |-> "free", size |-> n]]
                /\ panic' = "page fault"
                /\ UNCHANGED <<live, call>>
           ELSE /\ mem' = Take(ExtendHeap(mem, n), ExtendedBlock(mem))
                /\ Return(c, ExtendedBlock(mem))

(* The smallest of the larger blocks the walk found.  If it is not free    *)
(* any more, "Heap traversal seemed to have failed, suspect trashing".     *)
BestFit(c) == WalkedAll(c) /\ call[c].close # 0

HandOut(c, sound, m) ==
    IF Free(mem, call[c].best) /\ sound
    THEN mem' = m /\ Return(c, call[c].best) /\ UNCHANGED mapped
    ELSE Trashed

AllocSplit(c) ==
    /\ BestFit(c)
    /\ WorthSplitting(call[c].close, call[c].need)
    /\ HandOut(c, mem.foot[call[c].best + call[c].close - 1].magic = "used",
               Split(mem, call[c].best, call[c].need, call[c].close))

AllocWhole(c) ==
    /\ BestFit(c)
    /\ ~ WorthSplitting(call[c].close, call[c].need)
    /\ HandOut(c, TRUE, Take(mem, call[c].best))

(* free() of a live allocation.                                            *)
Dealloc(c, b) ==
    /\ panic = "none"
    /\ call[c].pc = "idle"
    /\ live[b] # 0
    /\ Allocated(mem, b)
    /\ live' = [live EXCEPT ![b] = 0]
    /\ IF FreePanics(mem, b)
       THEN /\ mem' = UnifyRight(MarkFree(mem, b), b)
            /\ panic' = "trashed"
       ELSE /\ mem' = DeallocAt(mem, b)
            /\ UNCHANGED panic
    /\ UNCHANGED <<mapped, call>>

(* free() of a pointer that was freed before, and whose memory belongs to  *)
(* nobody now: DeallocAt() returns at once unless it takes the tag for     *)
(* that of an allocated block.                                             *)
DeallocAgain(c, b) ==
    /\ panic = "none"
    /\ call[c].pc = "idle"
    /\ b < mem.end
    /\ live[b] = 0
    /\ \A q \in Units : live[q] # 0 => b \notin q .. LastUnit(mem, q)
    /\ IF Allocated(mem, b)
       THEN mem' = DeallocAt(mem, b)
       ELSE UNCHANGED mem
    /\ UNCHANGED <<mapped, live, call, panic>>

Malloc(c) ==
    \/ AllocWalk(c)
    \/ AllocPerfect(c)
    \/ AllocExtend(c)
    \/ AllocSplit(c)
    \/ AllocWhole(c)

Next ==
    \E c \in Callers :
        \/ \E n \in 1 .. MaxRequest : AllocBegin(c, n)
        \/ Malloc(c)
        \/ \E b \in Units : Dealloc(c, b) \/ DeallocAgain(c, b)

Spec == Init /\ [][Next]_vars

(* A caller inside AllocAt() is running code: it keeps taking steps.       *)
FairSpec == Spec /\ \A c \in Callers : WF_vars(Malloc(c))
-----------------------------------------------------------------------------
(* What the tags in memory must look like: B is the set of addresses at    *)
(* which a block starts.  The blocks tile the heap, and the footer of each *)
(* one points back at its header.  No tag left behind inside a block still *)
(* reads as that of an allocated block.                                    *)
Tiling(m, B) ==
    /\ 0 \in B
    /\ \A u \in Units : m.head[u].magic = "used" => u \in B
    /\ \A b \in B :
           /\ b < m.end
           /\ m.head[b].magic \in {"used", "free"}
           /\ m.head[b].size > 0
           /\ b + m.head[b].size \in B \cup {m.end}
           /\ \A x \in B : b < x => b + m.head[b].size =< x
           /\ m.foot[LastUnit(m, b)] = [header |-> b, magic |-> "used"]
    /\ \A x \in (B \ {0}) \cup {m.end} : \E b \in B : b + m.head[b].size = x

(* No two neighbouring blocks are both free.                               *)
Coalesced(m, B) ==
    \A b \in B : Free(m, b) /\ b + m.head[b].size \in B
                     => ~ Free(m, b + m.head[b].size)

(* The blocks tagged as used are the live allocations, each as long as was *)
(* asked for.                                                              *)
LiveAreUsed(m, B) ==
    /\ \A b \in B : m.head[b].magic = "used" => live[b] # 0
    /\ \A b \in Units : live[b] # 0 =>
           b \in B /\ m.head[b].magic = "used" /\ live[b] =< m.head[b].size

(* Every AllocAt() in progress stands on a block boundary, and the best    *)
(* fit it remembers is a free block of the size it remembers.              *)
WalkersOnBlocks(m, B) ==
    \A c \in Callers : call[c].pc = "walk" =>
        /\ call[c].need > 0
        /\ call[c].cur \in B \cup {m.end}
        /\ call[c].close # 0 =>
               /\ call[c].best \in B
               /\ Free(m, call[c].best)
               /\ m.head[call[c].best].size = call[c].close
               /\ call[c].need < call[c].close

TypeOK ==
    /\ mem \in Memory
    /\ mapped \subseteq Nat
    /\ live \in [Units -> 0 .. MaxRequest]
    /\ call \in [Callers -> Call]
    /\ panic \in {"none", "trashed", "page fault"}

(* The heap is well formed after every operation: what every sanity check  *)
(* of AllocAt() and DeallocAt() tests for one block, for all at once.      *)
WellFormed ==
    \E B \in SUBSET Units :
        /\ Tiling(mem, B)
        /\ LiveAreUsed(mem, B)
        /\ WalkersOnBlocks(mem, B)

(* "Unify Right", "Unify Left", "Combine with previous block": free space  *)
(* is never left in two neighbouring pieces, whatever the order of calls.  *)
FullyCoalesced == \E B \in SUBSET Units : Tiling(mem, B) /\ Coalesced(mem, B)

(* "Heap has been trashed" is never seen: no sanity check ever fails.      *)
NeverTrashed == panic # "trashed"

(* malloc() never hands out memory somebody else still owns: the blocks of *)
(* two live allocations have no unit in common.                            *)
LiveDisjoint ==
    \A p, q \in Units : p # q /\ live[p] # 0 /\ live[q] # 0 =>
        (p .. LastUnit(mem, p)) \cap (q .. LastUnit(mem, q)) = {}

(* "Already Freed?": a second free() of the same pointer changes nothing,  *)
(* whatever was freed, merged or split in between.                         *)
DoubleFreeIgnored ==
    [][\A c \in Callers, b \in Units : DeallocAgain(c, b) => UNCHANGED mem]_vars

(* An allocation keeps its header until its owner frees it: nothing done   *)
(* for other callers moves, shrinks or retags it.                          *)
OwnersUndisturbed ==
    [][\A p \in Units : live[p] # 0 /\ live'[p] = live[p] =>
           mem'.head[p] = mem.head[p]]_vars

(* ExtendHeap() backs every page of the block it creates.                  *)
ExtendBacksItsBlock == panic # "page fault"

(* A malloc() ends: the walk reaches the end of the heap.                  *)
MallocReturns ==
    \A c \in Callers : (call[c].pc = "walk") ~> (call[c].pc = "idle" \/ panic # "none")

(* What a caller can count on besides: free space never stays in two       *)
(* pieces, what is allocated stays as it is, and malloc() returns.         *)
CallersServed == []FullyCoalesced /\ OwnersUndisturbed /\ MallocReturns

(* The boundary tags implement the allocator of module Allocator.          *)
Promise == INSTANCE Allocator
Implements == Promise!Spec

=============================================================================
