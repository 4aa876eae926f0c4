------------------------------- MODULE Loader -------------------------------
(***************************************************************************)
(* Starting programs: CommonCode/binload.c, Proc_Execve() and Proc_Open()  *)
(* of AcessOS/proc.c, and what they do to address spaces.                  *)
(*                                                                         *)
(* An image is read once, put in a list, and mapped copy-on-write by every *)
(* process that runs it.  The calls run in system calls, which the timer   *)
(* can interrupt, and reading sleeps: every step below is one stretch that *)
(* touches what processes share.                                           *)
(***************************************************************************)
EXTENDS Elf, FiniteSets

CONSTANTS
    Pids,
    Boot,           \* the process kmain() forks,
    Shell,          \* and what it runs: gsInitProgram
    Frames,         \* physical pages
    Top,            \* pages of an address space are 0 .. Top
    Lowest, Highest, Gran,              \* BIN_LOWEST, BIN_HIGHEST, BIN_GRANUALITY, in pages
    ArgHome, StackTop, StackSize, StackCount

ASSUME LoaderConstants ==
    /\ Frames \subseteq Nat
    /\ 0 < Lowest /\ Lowest <= Highest /\ Highest <= Top
    /\ Shell \in Files /\ None \notin Frames

VARIABLES
    bins,           \* glLoadedBinaries, the oldest first
    used,           \* frames whose bit is set
    ref,            \* giRefCount
    mem,            \* mem[f][c]: cell c of frame f
    space,          \* space[p][v]: where page v of p is mapped to, and whether copy-on-write
    st,             \* what p does
    job,            \* the calls of Binary_Load() that p is in, the innermost last
    got,            \* what the last of them gave: base, and entry point
    prog,           \* the base and entry point p's program was started with
    halted          \* no page was left: the kernel panicked

vars == <<bins, used, ref, mem, space, st, job, got, prog, halted>>

Nothing == [base |-> 0, entry |-> 0]
Cells == 0 .. Page - 1
ImageFrames == UNION {Range(bins[i].frames) : i \in 1 .. Len(bins)}

Call(f) == [at |-> "find", file |-> f, bin |-> 0, base |-> 0, image |-> None]
Inner(p) == Last(job[p])
Calls(p, at) == ~ halted /\ st[p] # "clear" /\ job[p] # <<>> /\ Inner(p).at = at
With(p, call) == [job EXCEPT ![p] = Front(@) \o <<call>>]

(* p runs its program.                                                     *)
Runs(p) == ~ halted /\ st[p] = "main" /\ job[p] = <<>>

Free == Frames \ used
Take == Min(Free)

Panic ==
    /\ halted' = TRUE
    /\ UNCHANGED <<bins, used, ref, mem, space, st, job, got, prog>>

(* kmain() starts the shell.                                               *)
Init ==
    /\ bins = <<>>
    /\ used = {}
    /\ ref = [f \in Frames |-> 0]
    /\ mem = [f \in Frames |-> [c \in Cells |-> <<"old">>]]
    /\ space = [p \in Pids |-> <<>>]
    /\ st = [p \in Pids |-> IF p = Boot THEN "exec" ELSE "dead"]
    /\ job = [p \in Pids |-> IF p = Boot THEN <<Call(Shell)>> ELSE <<>>]
    /\ got = [p \in Pids |-> Nothing]
    /\ prog = [p \in Pids |-> Nothing]
    /\ halted = FALSE

-----------------------------------------------------------------------------
(* Memory                                                                  *)

Mappings(p, f) == Cardinality({v \in DOMAIN space[p] : space[p][v].frame = f})

(* Whatever p maps is given back.                                          *)
NotOfIt(p) == {f \in used : Mappings(p, f) = 0}
StillUsed(p) == {f \in used : Mappings(p, f) = 0 \/ ref[f] # Mappings(p, f)}

(* MM_Clear() and mm_remove(): a frame nobody maps any more is given back, *)
(* also one of an image in the list.                                       *)
Release(p) ==
    /\ ref' = [f \in Frames |-> ref[f] - Mappings(p, f)]
    /\ used' = StillUsed(p)
    /\ space' = [space EXCEPT ![p] = <<>>]

SharedByThree(f) == ref[f] > 2
Shared(f) == ref[f] > 1

Present(p, a) == a \div Page \in DOMAIN space[p]
At(p, a) == mem[space[p][a \div Page].frame][a % Page]

(* A store by user code, and MM_PageFault().                               *)
Store(p, a, x) ==
    LET v == a \div Page
        f == space[p][v].frame
    IN  IF ~ space[p][v].cow \/ ~ Shared(f)
        THEN /\ mem' = [mem EXCEPT ![f][a % Page] = x]
             /\ space' = [space EXCEPT ![p][v].cow = FALSE]
             /\ UNCHANGED <<used, ref, halted>>
        ELSE IF Free = {}
        THEN halted' = TRUE /\ UNCHANGED <<mem, space, used, ref>>
        ELSE /\ mem' = [mem EXCEPT ![Take] = [mem[f] EXCEPT ![a % Page] = x]]
             /\ space' = [space EXCEPT ![p][v] = [frame |-> Take, cow |-> FALSE]]
             /\ used' = used \cup {Take}
             /\ ref' = [ref EXCEPT ![f] = @ - 1, ![Take] = 1]
             /\ UNCHANGED halted

-----------------------------------------------------------------------------
(* Binary_Load()                                                           *)

Listed(f) == {i \in 1 .. Len(bins) : bins[i].file = f}

Fail(p) ==
    /\ job' = [job EXCEPT ![p] = <<>>]
    /\ got' = [got EXCEPT ![p] = Nothing]
    /\ UNCHANGED <<bins, used, ref, mem, space, st, prog, halted>>

(* VFS_GetTruePath() finds no such file, or the file is of no known type,  *)
(* and stays open.                                                         *)
LoadNothing(p) ==
    /\ Calls(p, "find")
    /\ LET f == Inner(p).file IN f \in Files => Listed(f) = {} /\ ~ Loadable(f)
    /\ Fail(p)

(* Binary_GetInfo(): the newest of them.                                   *)
Find(p) ==
    /\ Calls(p, "find")
    /\ LET f == Inner(p).file
       IN  /\ Listed(f) # {}
           /\ job' = With(p, [Inner(p) EXCEPT !.at = "map", !.bin = Max(Listed(f))])
    /\ UNCHANGED <<bins, used, ref, mem, space, st, got, prog, halted>>

(* Binary_DoLoad(), up to "Read Data".                                     *)
OpenImage(p) ==
    /\ Calls(p, "find")
    /\ LET f == Inner(p).file
       IN  /\ f \in Files /\ Listed(f) = {} /\ Loadable(f)
           /\ job' = With(p, [Inner(p) EXCEPT !.at = "read", !.image = ImageOf[f]])
    /\ UNCHANGED <<bins, used, ref, mem, space, st, got, prog, halted>>

(* A page of it: the frame is taken and filled.                            *)
ReadIn(p) ==
    /\ Calls(p, "read")
    /\ LET e == Inner(p).image
           k == Len(e.frames) + 1
       IN  /\ k <= Len(e.pages)
           /\ IF Free = {} THEN Panic
              ELSE /\ used' = used \cup {Take}
                   /\ mem' = [mem EXCEPT ![Take] = ReadPage(e.file, e.pages[k].from, @)]
                   /\ job' = With(p, [Inner(p) EXCEPT !.image.frames = Append(@, Take)])
                   /\ UNCHANGED <<bins, ref, space, st, got, prog, halted>>

(* "Add to the list"                                                       *)
AddImage(p) ==
    /\ Calls(p, "read")
    /\ LET e == Inner(p).image
       IN  /\ Len(e.frames) = Len(e.pages)
           /\ bins' = Append(bins, e)
           /\ job' = With(p, [Inner(p) EXCEPT !.at = "map", !.bin = Len(bins) + 1, !.image = None])
    /\ UNCHANGED <<used, ref, mem, space, st, got, prog, halted>>

(* The page that page k of an image is mapped to at base b.                *)
PageAt(e, k, b) == ((e.pages[k].virt \div Page) * Page - e.base + b * Page) \div Page
PagesAt(e, b) == {PageAt(e, k, b) : k \in 1 .. Len(e.pages)}
Fits(p, e, b) == PagesAt(e, b) \cap DOMAIN space[p] = {}

(* The first base that fits, from Highest down.                            *)
Bases == {b \in Lowest .. Highest : (Highest - b) % Gran = 0}
Place(p, e) ==
    LET own == e.base \div Page
        fitting == {b \in Bases : Fits(p, e, b)}
    IN  IF own # 0 /\ Fits(p, e, own) THEN IF own < Lowest THEN 0 ELSE own
        ELSE IF fitting = {} THEN 0 ELSE Max(fitting)

(* mm_map() and MM_SetCOW() of each page: where something is mapped already*)
(* that stays, and becomes copy-on-write.                                  *)
Mapped(p, e, b) ==
    LET frame(v) == e.frames[Min({k \in 1 .. Len(e.pages) : PageAt(e, k, b) = v})]
    IN  [v \in DOMAIN space[p] \cup PagesAt(e, b) |->
            [frame |-> IF v \in DOMAIN space[p] THEN space[p][v].frame ELSE frame(v),
             cow |-> v \in PagesAt(e, b) \/ space[p][v].cow]]

MapIn(p) ==
    /\ Calls(p, "map")
    /\ LET n == Inner(p).bin
           e == bins[n]
           b == Place(p, e)
           new == Mapped(p, e, b)
       IN  /\ bins' = [bins EXCEPT ![n].refs = @ + 1]
           /\ IF b = 0
              THEN /\ job' = [job EXCEPT ![p] = <<>>]
                   /\ got' = [got EXCEPT ![p] = Nothing]
                   /\ UNCHANGED <<ref, space>>
              ELSE /\ space' = [space EXCEPT ![p] = new]
                   /\ ref' = [f \in Frames |-> ref[f] +
                        Cardinality({v \in DOMAIN new \ DOMAIN space[p] : new[v].frame = f})]
                   /\ LET mine == [Inner(p) EXCEPT !.at = "interp", !.base = b]
                          first == IF Len(job[p]) = 1 THEN b ELSE job[p][1].base
                      IN  IF e.interp # None
                          THEN job' = [job EXCEPT ![p] = Front(@) \o <<mine, Call(e.interp)>>]
                               /\ UNCHANGED got
                          ELSE job' = [job EXCEPT ![p] = <<>>] /\
                               got' = [got EXCEPT ![p] =
                                  [base |-> first, entry |-> e.entry - e.base + b * Page]]
    /\ UNCHANGED <<used, mem, st, prog, halted>>

-----------------------------------------------------------------------------
(* Processes                                                               *)

(* Proc_Open(): the file is there; Proc_Fork() gives the child a copy of   *)
(* the address space, of which Proc_Execve() has no use.                   *)
Open(p, q, f) ==
    /\ Runs(p)
    /\ st[q] = "dead" /\ f \in Files
    /\ LET cowed == [v \in DOMAIN space[p] |-> [space[p][v] EXCEPT !.cow = TRUE]]
       IN  space' = [space EXCEPT ![p] = cowed, ![q] = cowed]
    /\ ref' = [g \in Frames |-> ref[g] + Mappings(p, g)]
    /\ st' = [st EXCEPT ![q] = "clear"]
    /\ job' = [job EXCEPT ![q] = <<Call(f)>>]
    /\ UNCHANGED <<bins, used, mem, got, prog, halted>>

(* syscall_execve()                                                        *)
Execve(p, f) ==
    /\ Runs(p)
    /\ st' = [st EXCEPT ![p] = "clear"]
    /\ job' = [job EXCEPT ![p] = <<Call(f)>>]
    /\ UNCHANGED <<bins, used, ref, mem, space, got, prog, halted>>

(* MM_Clear()                                                              *)
Clear(p) ==
    /\ ~ halted
    /\ st[p] = "clear"
    /\ Release(p)
    /\ st' = [st EXCEPT ![p] = "exec"]
    /\ UNCHANGED <<bins, mem, job, got, prog, halted>>

(* Proc_MakeUserStack(): the highest place that is free.                   *)
StackAt(j) == StackTop - j * StackSize .. StackTop - (j - 1) * StackSize - 1
Stacks(p) == {j \in 1 .. StackCount : StackAt(j) \cap DOMAIN space[p] = {}}

Nth(S, i) == CHOOSE x \in S : Cardinality({y \in S : y < x}) = i - 1

(* The rest of Proc_Execve(): a stack, and the arguments, which overwrite  *)
(* what the image has mapped at their address.                             *)
StartProgram(p) ==
    /\ ~ halted
    /\ st[p] = "exec" /\ job[p] = <<>> /\ got[p].base # 0 /\ Stacks(p) # {}
    /\ LET new == (StackAt(Min(Stacks(p))) \cup {ArgHome}) \ DOMAIN space[p]
           frame(v) == Nth(Free, Cardinality({w \in new : w <= v}))
           picked == {frame(v) : v \in new}
           args == IF ArgHome \in new THEN frame(ArgHome) ELSE space[p][ArgHome].frame
       IN  IF Cardinality(Free) < Cardinality(new) THEN Panic
           ELSE /\ used' = used \cup picked
                /\ ref' = [f \in Frames |-> IF f \in picked THEN ref[f] + 1 ELSE ref[f]]
                /\ space' = [space EXCEPT ![p] = [v \in DOMAIN @ \cup new |->
                      IF v \in new THEN [frame |-> frame(v), cow |-> FALSE] ELSE @[v]]]
                /\ mem' = [mem EXCEPT ![args] = [c \in Cells |-> <<"args">>]]
                /\ st' = [st EXCEPT ![p] = "start"]
                /\ prog' = [prog EXCEPT ![p] = got[p]]
                /\ UNCHANGED <<bins, job, got, halted>>

(* Proc_Exit()                                                             *)
Ended(p) ==
    /\ Release(p)
    /\ st' = [st EXCEPT ![p] = "dead"]
    /\ got' = [got EXCEPT ![p] = Nothing]
    /\ prog' = [prog EXCEPT ![p] = Nothing]
    /\ UNCHANGED <<bins, mem, job, halted>>

(* "Unable to load image", "No space for user's stack"                     *)
NotStarted(p) ==
    /\ ~ halted
    /\ st[p] = "exec" /\ job[p] = <<>> /\ (got[p].base = 0 \/ Stacks(p) = {})
    /\ Ended(p)

Exit(p) ==
    /\ Runs(p)
    /\ Ended(p)

(* A program stores to its memory.                                         *)
Write(p, a) ==
    /\ Runs(p)
    /\ Present(p, a)
    /\ Store(p, a, <<"own", p>>)
    /\ UNCHANGED <<bins, st, job, got, prog>>

(* vfs_read() and others store for it, in kernel mode: CR0.WP is not set,  *)
(* so that no fault stops a store to a shared page.                        *)
KernelWrite(p, a) ==
    /\ Runs(p)
    /\ Present(p, a)
    /\ mem' = [mem EXCEPT ![space[p][a \div Page].frame][a % Page] = <<"own", p>>]
    /\ UNCHANGED <<bins, used, ref, space, st, job, got, prog, halted>>

(* syscall_ldbin()                                                         *)
LoadBin(p, f) ==
    /\ ~ halted
    /\ job[p] = <<>>
    /\ job' = [job EXCEPT ![p] = <<Call(f)>>]
    /\ UNCHANGED <<bins, used, ref, mem, space, got, prog, halted>>

KernelNext ==
    \E p \in Pids :
        \/ LoadNothing(p) \/ Find(p) \/ OpenImage(p) \/ AddImage(p)
        \/ ReadIn(p) \/ Clear(p) \/ MapIn(p)
        \/ StartProgram(p) \/ NotStarted(p)

-----------------------------------------------------------------------------
(* A frame of an image in the list holds what was read into it, and is     *)
(* nobody else's, whatever the processes that run it do: it is neither     *)
(* given back nor stored to.                                               *)
ImagesIntact ==
    \A i \in 1 .. Len(bins) : \A k \in 1 .. Len(bins[i].pages) :
        LET f == bins[i].frames[k]
        IN  /\ f \in used
            /\ \A c \in Cells : mem[f][c] =
                 ReadPage(bins[i].file, bins[i].pages[k].from, [d \in Cells |-> mem[f][d]])[c]
=============================================================================
