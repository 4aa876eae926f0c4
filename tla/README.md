# Acess OS: models, checks and proofs

Acess OS is a small multitasking kernel for the PC: `AcessOS/` holds the kernel
proper (processes, virtual memory, VFS, drivers), `CommonCode/` the parts shared
with an older tree (heap, system call table, FAT, libraries), `Usermode/` the
user programs.  This directory holds TLA+ models of the kernel and its dynamic
linker, the TLC configurations that check them, and TLAPS proofs.

Every definition is written from the C or assembly code, and `PROJECT.json` says
from which lines.  Where the code does not do what one would expect of it, the
module has two specifications: `Spec`, the code as it is, and `QuietSpec`, which
leaves out exactly those cases.  The properties are checked for everything else
the code does, and sections 2 and 5 say what the cases are; with the wider
specification in a configuration, TLC shows each of them as a counterexample.

To check a module: `tlc -config Heap.cfg MCHeap.tla`; to check the proofs about it:
`tlapm HeapProofs.tla`.  Proofs are in the modules `*Proofs`, and section 4 says what they show.

## 1. The system

`kmain()` (`AcessOS/main.c`) starts one processor with interrupts, the heap,
paging, one process, the VFS and the drivers, and forks the shell.  What runs
concurrently, and where it can be interrupted:

* The timer interrupt calls `proc_scheduler()`, which may switch process.  The
  system call gate is a *trap* gate (`CommonCode/syscalls.c:43`), so it strikes
  inside of system calls too.
* `LOCK()`/`UNLOCK()` (`include/acess.h`) switch interrupts off; few functions
  use them, and the heap, `Proc_Sleep()`, `mm_alloc()`, the floppy locks and the
  VFS do not.
* Device interrupts (keyboard, floppy) run handlers that set flags or wake a
  process, and end a `hlt` of whoever waits in one.
* Nothing persists but files on disk: there is no recovery after a crash.

### Components, their state and what makes them correct

| component | state | operations | interacts with | what must hold |
|---|---|---|---|---|
| Kernel heap (`CommonCode/heap.c`) | boundary tags in memory, `heapEnd` | `malloc`, `free`, `realloc`, `ExtendHeap` | pages from `mm_alloc`; callers everywhere in the kernel | blocks tile the heap; live blocks disjoint; contents survive; walks end |
| Address spaces (`AcessOS/mm2.c`) | page directories, tables, `giRefCount` | `mm_alloc`, `mm_dealloc`, `MM_CloneCurrent`, `MM_PageFault`, `MM_Clear`, `mm_remove` | frames from the bitmap; fork, exec, exit and kill in `proc.c` | no frame free and mapped; none lost; counts exact; processes isolated |
| Physical pages (`mm2.c`) | two-level bitmap, `iPhysUsedCount` | `MM_AllocPhys`, `MM_AllocPhysCont`, `freephys` | everything that maps memory | no page given twice; out of memory only when it is |
| Kernel ranges (`mm2.c`) | `hwPageBitmap`, DMA and temporary slots | `MM_MapHW`, `MM_AllocDMA`, `MM_MapTemp` and their releases | drivers; the page fault and exec code | a range is released exactly where it was taken; slots exclusive |
| Processes (`AcessOS/proc.c`) | active, sleep and delay lists, `gpCurrentProc` | yield, sleep, wake, delay, fork, exit, kill, the tick | address spaces; drivers that sleep and wake | lists never share a node; nobody lost; everyone runnable runs |
| Executables (`binload.c`, `bin_elf.c`) | list of loaded binaries, their use counts | `Binary_Load`, `Binary_Clone`, `Proc_Execve` | frames shared with processes; VFS | a cached page outlives its last user; counts exact |
| Timers (`time.c`) | eight slots, tick counters | create, remove, tick | floppy driver callbacks | a callback comes once, not early; the clock does not run backwards |
| Floppy (`drv_fdd.c`, `dma.c`) | motor state, two spin locks, `irq6` flag, sector cache | read, seek, motor on/off, the IRQ | timers, DMA, file systems | one transfer at a time; motor on while reading; a read ends |
| VM8086 (`vm8086.c`) | one mailbox and a lock | `VM8086_Int`, the monitor | sleep/wake of `proc.c` | each call gets its own answer; nobody sleeps forever |
| VFS (`vfs.c`) | kernel and per-process handle tables, mounts | open, read, write, seek, close, mount | inode cache, file systems | a handle means one node; opens and closes balance |
| Inode cache (`vfs.c`) | list per file system, reference counts | cache, get, uncache, clear | VFS, FAT | a node in use is never freed |
| FAT (`fs_fat.c`) | cluster chains, long-name cache, one device handle | read, readdir, finddir, close | inode cache, device driver | a read returns its own file's clusters |
| RootFS, DevFS (`fs_internal.c`, `fs_devfs2.c`) | node pool, driver table | create, find, register, list | VFS | a path keeps leading to its node; listings complete |
| Keyboard, terminals, screen (`keyboard_v2.c`, `drv_tty.c`, `scrn.c`) | one-key mailbox, text, cursor, colours | IRQ 1, `tty_read`, `tty_write` | scheduler | what is read was typed, in order and once |
| System calls, descriptors | dispatch tables | forwarding | all of the above | (static) |
| PCI, NE2000 (`drv_pci.c`, `drv_ne2k.c`) | device table, port bitmap | scan, port assignment | DevFS, inode cache | no port given twice; open nodes stay |
| IDE (`drv_ide.c`) | registers of two channels | read and write of sectors | VFS, FAT | sectors come from where they were asked |
| VBE (`drv_vbe.c`) | modes, the current one, frame buffer | install, set mode, draw | VM8086 monitor | what is recorded is what the hardware does |
| Dynamic linker (`ld-acess.so_src/`) | list of libraries, relocated words | load, look up, relocate | binary loader, by system calls | every reference leads to its definition |
| libc, programs | user heaps | | system calls | |

The list with the sources of each component is in `PROJECT.json`, with what is
modelled of it.  Sources the makefile does not build (iocache, ext2, module
loader, USB, the IP driver, ...) are listed there too.

### Hard behaviours

The hazards of this code are listed in `PROJECT.json`, each at its line.  They
fall into six groups:

1. *preemption inside a system call*: heap, sleep/delay lists, `MM_Clear`,
   spin locks built from a test and a store;
2. *shared next pointers*: the active and sleep lists link the same field;
3. *lost wake-ups*: `Proc_Yield()` is a `hlt` any interrupt ends; the VM8086
   hand-over wakes before it sleeps;
4. *reference counts*: frames, inodes, handles and binaries, across fork,
   exit and kill;
5. *boundaries*: pages crossed by a heap block, table sizes, off-by-one in
   handle and slot searches, deltas that wrap;
6. *timers against operations*: the motor timer of the floppy driver racing
   the read that needs the motor.

## 2. The modules

| module | models | how state and actions correspond |
|---|---|---|
| `Allocator` | what malloc/free promise | a map of live allocations; abstract |
| `Heap` | `malloc`, `free`, `ExtendHeap` | `mem` = the tags, stale ones included; one step per block `AllocAt()` walks over |
| `HeapRealloc` | `realloc` on top of `Heap` | adds the words of each block and the buffers callers hold |
| `PrivateMemory` | what fork promises | each process has its own memory; abstract |
| `Paging` | user half of `mm2.c` | frames, counts, one table per process; `op` = where a process is inside `mm_alloc()` or `MM_Clear()` |
| `PhysMem` | the page bitmaps of `mm2.c` | two levels of bits as sets; `given` counts the grants |
| `KernelRanges` | hardware ranges, temporary slots, clones, on `PhysMem` | `job` = where a process is while it holds slots |
| `Scheduler` | `proc.c` lists and the tick | `next` pointers and three heads; `pc` = where a process is inside `Proc_Sleep()`/`Proc_Delay()` |
| `Elf` | `bin_elf.c` | operators from a file to the pages of its image |
| `Loader` | `binload.c`, `Proc_Execve()` | the list of images, who maps which frame; `job` = the calls of `Binary_Load()` a process is in |
| `DynLink` | `ld-acess.so` on `Loader` | `link` = the calls of `DoRelocate()` a process is in |
| `FileTable` | what open and close promise | a map from handles to files; abstract |
| `Files` | handle tables of `vfs.c`, the inode cache, nodes of a FAT directory | `op` = where a process is inside `vfs_open()`; cache entries are heap cells that keep their contents when freed |
| `Ide` | `drv_ide.c` | what the disks hold, and the registers and data stream of each channel |
| `Fat` | `fs_fat.c` on `Ide`, `vfs_seek()`, `vfs_read()` | one handle for each volume, long name buffers, the nodes cached |
| `NameTree` | what a tree of names promises | what each path leads to; abstract |
| `Devices` | DevFS, PCI and the drivers' nodes | `drivers` and the PCI nodes in the inode cache |
| `Namespace` | mounts, paths, RootFS on `Devices`, from the boot on | `files` = the pool of RootFS nodes with their arrays of children |
| `Timers` | slots of `time.c` | a slot holds the call to make; it may go off at any moment |
| `Floppy` | `fdd_readSector()` with `Timers` | `job` = where a reader is in it; `command`, `arm`, `dma`, `status` are the hardware |
| `Terminal` | keyboard, terminals, text screen | the mailbox of one key; which cells hold 0; colours |
| `Bios` | VM8086 monitor and the VESA driver | who runs, who is awake, the question and answer that pass between them |
| `Console` | programs on `Terminal` and `Bios` | `todo` = the calls a process has still to make |
| `HeapProofs`, `PagingProofs`, `RangesProofs`, `SchedulerProofs`, `FloppyProofs`, `FilesProofs`, `ConsoleProofs`, `FatProofs` | theorems about `Heap` and `HeapRealloc`, `Paging`, `KernelRanges` with `PhysMem`, `Scheduler`, `Floppy` with `Timers`, `Files`, `Console` with `Terminal` and `Bios`, `Fat` on `Ide` | an invariant in parts and a lemma for each action |
| `MC*` | instances for TLC | finite sets, symmetry, views |

**Heap.** Addresses are counted in `BLOCK_SIZE` units: every block is a multiple
of it, so nothing inside a unit but the tags matters.  A tag stays in memory when
its block is absorbed, because `free()` of a stale pointer reads it.  `live` and
`panic` are observers.  With one caller the module is the sequential allocator;
with two it is what two system calls make of an allocator without a lock.

**HeapRealloc.** `realloc()` is `free`, `malloc` and a copy loop; the loop's
direction and bounds are those of the code, tags included, as it copies over the
tags of the block that was freed before.

**Paging.** A page directory, its page table and a frame per page. Faults, fork
and exit run with interrupts off and are one step; `mm_alloc()` and `MM_Clear()`
are several.  The page fault reuses the frame if nobody else has it.  Frames are
taken from an abstract set of free ones (`PhysMem` has the bitmap).  What
a new page holds is arbitrary: `mm_alloc()` does not clear it.

**PhysMem, KernelRanges.** Page `f` is a bit of a word, and each word a bit of
the summary, which says that a search may skip it; that the two agree decides
whether a search ends.  On top are what the kernel maps for itself: ranges of
device memory and DMA buffers (its own pair of bitmaps), and the seven slots in
which a page without an address is looked at.  A process that loads a page of a
program or clones an address space holds slots across steps, and others run in
between.

**Scheduler.** The active and the sleep list share one `next` pointer per
process, which the model keeps as a function, so that an append with a stale
pointer really joins two lists.  The delay list has entries of its own, hence a
sequence; a delta wraps at `Word`.  `due` is an observer: the ticks really left.
`current` is what the kernel takes for the running process, `cpu` whose code
runs: that they agree is a property (`RunsCurrent`).  What a process does after
its saved stack is lost is not followed.

**Elf, Loader, DynLink.** A page is a few cells, and a cell says which cell of
which file it holds, by how much it has been relocated, or who has stored to it.
So "the process has its program in memory" is an equation on cells.  `Loader` is the list
of images with their frames, mapped copy-on-write by everybody who runs them.
Reading a file sleeps, and a load inside of a load (the interpreter) is a stack
of jobs.  `DynLink` runs in user memory: it reads symbols from
what the process has mapped, loads libraries with system calls and stores
relocated words; its list of libraries is itself a cell of its image, since
that memory is copied on write like any other.

**Files.** A file stands for its inode number, the key of the cache; files of the
directory have different ones (on a FAT disk all *empty* files have cluster 0
and would share a node).  `vfs_open()` is three steps: pick a slot (growing the table by
a page), walk the path, fill the slot.  The number of slots is one global, the
tables are per process: `last` against `paged`.  `inode_uncacheNode()` never
removes the head of the list, which the model keeps.  A handle the program loader
opens is in the kernel's table; on a file it cannot load it stays open.

**Ide, Fat.** Data is counted in sectors.  A sector that has been read says
which it is, so that "the right data" is an equation.  A transfer is a step for
the registers, one for the command and one for each sector of data, and a second process
can come between any two.  `Fat` mounts volumes, walks cluster chains in the table as
cached, lists directories with the long names gathered in a buffer, and finds
names.  Every access is a seek and a read of the one handle of the volume.

**Devices, Namespace.** A path is a sequence of names.  A call of the VFS is one
step, as `Files` has the steps inside `vfs_open()`.  The boot runs the script of
`main.c`: directories, mounts and drivers in its order, for every partition table there
may be.  `tree` is an observer: what each path leads to.  A PCI node stays in the
inode cache with a name that is freed on close.

**Floppy.** Every test of shared state and the store that depends on it are two
steps, so the model has the interleavings the code has: two spin locks, the motor
state, the timer slots.  A sector is represented by its number, and the data a
read copies by the number of the sector it came from, so that "the right
data" is an equality.  The arm of a drive is hardware; `track` is what
the driver believes of each head.  The controller completes a seek or fails it; a
read succeeds if the arm is on the cylinder and the motor is on; a failed one
leaves the DMA buffer alone and interrupts, and the driver does not look.
The driver is in the build; `main.c` loads it when `USE_FDD` is set.

**Terminal, Bios, Console.** The keyboard's interrupt leaves a key in a mailbox
that readers poll.  Of a terminal's text only which cells hold 0 is followed: a
backspace looks for those.  `Bios` is the hand-over with the monitor: lock,
question, wake, sleep, and what the VESA driver makes of the answers.  `Console`
gives each process a program of calls on one processor.

### Specifications of one module

`Heap!Spec` is the whole code.  The other modules have `Spec` (or `Next`), the code as
it is, and `QuietSpec`, which leaves out the named cases the code gets wrong:

* `Paging`: a process switch between `MM_Clear()`'s dereference and its test, a
  kill of a process inside the kernel, `brk()` giving back a shared page, the
  kernel storing to a page its process could not write to;
* `KernelRanges`: a switch between finding a slot and filling it, giving up after
  ten tries, asking for a run of
  pages where there is none (the state is then `hang`);
* `Scheduler`: a tick inside `Proc_Sleep()`/`Proc_Delay()`, the last runnable
  process going away, waking a sleeper that has another behind it, exit with an
  empty sleep list, kill, and device interrupts during a `hlt`;
* `DynLink` (and so `Loader`): the kernel storing to a cached page, and a process
  storing to or letting go of a page of a cached image that nobody else maps;
* `Files`: opening or listing a file that is open, a fork with open files, a table
  shorter than the global count, two opens at once in the kernel's table,
  `vfs_stat()` of a closed handle;
* `Fat`: two processes in the driver or on a channel at once, the listing of a file
  without a long name while the buffer of its directory holds one, writes to the
  second channel;
* `Namespace`: closing the node of the first PCI device when it is the head of the
  cache or somebody else has it open (a listing of the bus does so too), opening a
  mount's root without permission, unloading a driver that is in use;
* `Floppy`: a process switch between a test and its store, a second reader
  coming while the motor spins up, the motor-off timer of one read going off
  during another, a media error, seeks that fail for good.  Its instance also stays on one
  drive, on the heads' side 0 and off cylinder 1 (section 5 says why);
* `Console`: the timer interrupting the kernel or the BIOS, a backspace at the
  start of the screen, drawing before a mode is set.  Nobody asks for the mode behind the
  last (`Calls`), which the code would accept.  A sleep that a device's
  interrupt ends early is `Scheduler`'s subject.

## 3. The runs

| run | bounds | shows |
|---|---|---|
| `heap` | heap of 7 units, page of 3, requests of 1 to 3, one caller | tags well formed, no sanity check ever fails, live blocks disjoint, double free harmless; free neighbours are merged, owners undisturbed and malloc returns (`CallersServed`); `Allocator` implemented |
| `heap_realloc` | heap of 7, page of 4, requests to 3, realloc to a higher address | the contents of the block that moves and of all others are kept |
| `paging` | 3 processes, 2 pages, 2 values, 6 frames | counts exact, no frame lost or dangling, writable pages private (`FramesExact`); `PrivateMemory` implemented |
| `kernel_ranges` | 8 pages in words of 2 bits, 3 processes, 2 slots, 2 tries, 4 pages of hardware range, 1 driver, devices of 1 and 2 pages | no page granted twice, every search of the bitmaps ends, mappings lead where they were made to |
| `scheduler` | 4 processes, delays 1 and 3, deltas modulo 8, slice of 1 | lists apart, everybody in one place, sleepers asleep, no fault (`ListsRight`); idle only when nobody can run, no delay ends early (`RunsInTime`) |
| `scheduler_fair` | 4 processes, delay 1, deltas modulo 16 | whoever can run does run |
| `loader` | 3 processes, 6 files, pages of 2 cells, 14 frames, 7 mapped images | cached images stay what the files hold; a running program and its libraries are in its memory, relocated, and entered where they should be |
| `files` | 2 processes and the loader, 3 files, 3 cache entries, tables of up to 2 pages of one handle | no node in use is freed, one node per file, handles have memory (`HandlesSound`); `FileTable` implemented (`HandlesKept`) |
| `storage` | 2 processes, 3 disks of up to 15 sectors on two channels, a FAT16 volume (1 sector a cluster) and a FAT32 volume (2), 2 entries a sector | sectors come from where they were asked, reads give the file's, listings and searches the right names |
| `devices` | a disk with places 1 and 3 of its partition table used, a floppy, a bridge and two NE2000 cards, 2 users, room for one driver and one mount more than the boot needs | `NameTree` implemented; nodes in use stay, ioctl calls arrive, ports are apart, listings are complete |
| `floppy` | 2 readers, 1 drive, 3 sectors on 3 cylinders, 1 cache entry, 2 timers, 2 tries to seek | each read returns its sector, an interrupt answers the command of the one who waits (`ReadsRight`); the motor comes up and goes off, every read ends (`AllEnd`) |
| `console` | 2 processes with 7 pairs of programs, 2 typings, 2 lines of 4 cells, a terminal of 8, tabs of 2, a BIOS with 2 graphics modes or none | what is read was typed, text has its terminal's colours, each question gets its own answer, the hardware is in the mode recorded, whoever asks is served |

A property of a run can be a conjunction of named parts; the parts are defined
before it and can be checked on their own.

Five configurations belong to no run and end in a counterexample, each for one
promise of a comment in the code:

| configuration | promise | what happens |
|---|---|---|
| `HeapExtend` | "Crossing Page Boundaries" | the test misses some crossings: the footer faults |
| `HeapRace` | trap gate, no lock | two `malloc()` get the same block; a tag is trashed |
| `PagingBrk` | "Dereference and free if unused" | `brk()` frees a page its parent still maps |
| `SchedWake` | wake-up | the sleepers behind the woken one are on both lists |
| `FilesShared` | "Check Reference Count" | the first of two handles to be closed frees the node of the other |

The other cases need a specification and a property in place of those of the
module's configuration (`PROPERTY` for `PrivateSpec`, `HandlesKept`, `TreeKept` and
`Reaped`, `INVARIANT` for the others):

| module | specification | property | what happens |
|---|---|---|---|
| `HeapRealloc` | `ReallocSpec` | `ContentsKept` | the backward copy of a move down loses data and overwrites the new block's size |
| `Paging` | `PreemptSpec` | `NoDanglingMap` | a frame is freed twice or leaked around a switch or a kill |
| | `KernelSpec` | `PrivateSpec` | CR0.WP is clear: a `read()` into a shared page shows in the other process |
| `KernelRanges` | `Spec` | `MappingsKept` | two processes fill one slot; or one gets address 0 |
| `Scheduler` | `PreemptSpec` | `IdleOnlyWhenNobodyRuns` | a process half asleep makes the processor idle |
| | `IdleSpec` | `StacksKept` | the tick inside of the idle loop overwrites a saved stack pointer |
| | `ExitSpec` | `ListsApart` | with nobody asleep the active list becomes the sleep list |
| | `KillSpec` | `NoFault` | a NULL pointer is followed |
| | `IrqSpec` | `SleepersSleep` | any interrupt ends the sleep |
| | `QuietSpec` | `DelaysOnTime` | an entry is late by the delta it was put behind |
| | `QuietSpec` | `Reaped` | an exited process is never freed |
| `DynLink` | `Spec` | `ImagesIntact`, `ProgramRight` | a store reaches the cached image, or its frames are freed while it is listed |
| `Files` | `ListSpec` | `NodesLive` | listing a directory frees the nodes of its open files |
| | `ForkSpec` | `NodesLive` | parent and child close the same node |
| | `TableSpec` | `HandlesHaveMemory` | a process scans its table up to the length another one's has grown to |
| | `RaceSpec` | `HandlesKept` | two loads at once fill one kernel handle |
| `Fat` | `Spec` | `TransfersRight`, `ReadRight`, `NamesRight` | two processes share registers and the handle; writes go to the first channel; stale long names |
| `Namespace` | `Spec` | `DevicesSound`, `TreeKept` | a freed PCI node is used; a refused open leaves a filled handle |
| `Floppy` | `SpinupSpec` | `SpinupEnds` | a second reader removes the timer that ends the spin-up; both wait for ever |
| | `MotorSpec` | `MotorOn` | the off timer of one read, overwritten by the next read's, stops the motor under a third |
| | `LockSpec` | `OwnAnswer` | two readers see the lock free and both command the controller |
| | `ErrorSpec` | `DataRight` | a failed read returns, and caches, what was read before |
| `Console` | `Spec` | `TypeOK`, `TerminalRight`, `DisplayRight` | a cursor before the screen; a key read twice; the caller gets its own question for an answer |

### Why the bounds are enough

*Heap*: a page of 3 units lets a request be smaller than, equal to and larger
than what is left of a page; 7 units are two page boundaries and enough blocks
for a free block with used and free neighbours on either side.  The proofs are
for all sizes.  *Paging*: two processes share, three distinguish "shared" from
"shared by the last two"; 6 frames let two processes have all they can use, minus
one, so that running out occurs.  *KernelRanges*: 8 pages in words of 2 are two words of
the summary, so that a search skips, fails in and succeeds in each; two slots are
what a clone needs, and with three processes another that loads a page makes it wait.
*Scheduler*: with four processes a list
can have a first, a middle and a last entry while another process acts on it; two
delays, one a multiple tick, exercise insertion before, behind and among others;
a delta wraps at a small word exactly as at 2^32, only sooner, and no sum of the
delays reaches it.  *Loader*: a program with an interpreter, a library and
zeroed pages, and one whose library is missing; three processes so that
two run the same program while the shell starts a third.  *Files*: three files give the cache a first, a middle and
a last entry; tables grow twice, which is when slots, pages and the global count can
disagree; one handle to a page makes each growth a case of its own.
*Fat*: clusters of one and of two sectors, both kinds of root directory, files in
several pieces, long names that cross a sector; reads with every offset and
length inside of a file.  *Namespace*: a gap in the partition table, a
table of drivers and a table of mounts that both fill up, arrays of children that
grow.  *Floppy*:
with two readers one waits while the other works at each lock; one cache entry makes
every new sector replace another; two timers are one for the drive and one that
was left over.  *Console*: a terminal of eight cells wraps and the screen scrolls; one
graphics mode has a larger frame buffer than the other, and one a code the BIOS
does not know.  The bounds that the code does not have in this form are
`MaxUnits`, `MaxRequest`, `Delays`, `Word`, `MaxPages`, `MaxCyl`, `MaxMaps`, the
programs and typings of `Console`, and what `UndoDMA` says of its runs.

Two instances use a `VIEW`:
in `MCFat` the position of a handle nobody is using is forgotten (every use starts
with a seek), with the order in which volumes were mounted and that of the cached nodes
behind the head; in `MCLoader` a frame is known by where it is mapped and listed
instead of by its number.  Sequential algorithms are compared with a reference by
assumptions TLC evaluates: `NodesRight` (node numbers of disks and partitions) and
`UnalignedRight` (reads of parts of sectors) in `MCFat`, with `VolumesSound` and `DirectoriesSound`, which theorems assume; `PagesRight` and
`TailNotCleared` (pages of an ELF image) in `MCLoader`, `ModeFound` (the nearest
graphics mode) in `MCConsole`.

`files` and `floppy` are checked for deadlock.  The other configurations
say `CHECK_DEADLOCK FALSE`: a kernel that has halted (out of memory, panic) stops, and so
do a model whose bounded heap is full, a program that has made all of its calls, and
a boot with nothing more to open.

### Fairness

*Heap* (`FairSpec`): a caller inside `AllocAt()` is running code and nothing in
it waits: weak fairness of its steps.  *Scheduler*: the timer does not stop
(weak fairness of `QuietTick`), and a system call that the processor runs goes on
(weak fairness of the later steps of sleep and delay).  *Floppy*: a reader gets the
processor again (what `scheduler_fair` shows), a timer that is set goes off, the controller
completes its command.  A reader that waits for a lock can be overtaken, so
`Answered` promises an end only if the others stop reading.  *Console*: the
processor does not stop (weak fairness of `QuietNext`), and a process that is active
is given it again and again: strong fairness of each process's being chosen, which
is what `scheduler_fair` shows of the code that chooses.  Nothing is assumed of
what processes choose to do.

## 4. The proofs

TLC checks small instances; the theorems below hold for every value of the constants
that satisfies the assumptions named.  Each proof has one shape: an inductive
invariant, stated at the head of the module in parts; a lemma that `Init` satisfies
it; one lemma for each action, `<Action>Keeps`; and theorems that conclude each
property of a run from it.  Before an invariant was proved, TLC checked it on the
configuration of its module.

Assumptions on constants are named and stand with the declarations: sizes are numbers, values
that mark absence are none of the others.  Those that a theorem itself names are
explained below.

### Heap

`HeapProofs` is about `Heap!Spec` with every value of `MaxUnits`, `PageUnits` and
`MaxRequest`, and assumes `SingleCaller`, that at most one call is in progress: `HeapRace.cfg`
shows that without it nothing holds.

| theorem | property |
|---|---|
| `Invariance` | `[]IInv`, on which the others rest |
| `TypeCorrect`, `HeapIsWellFormed`, `SanityChecksPass`, `NoOverlap` | `TypeOK`, `WellFormed`, `NeverTrashed`, `LiveDisjoint` |
| `FreeIsIdempotent` | `DoubleFreeIgnored` |
| `OwnersAreUndisturbed` | `OwnersUndisturbed` |
| `HeapIsAllocator` | `Implements`: `Heap` implements `Allocator` |
| `ReallocInvariance` | `[]RInv`, of `HeapRealloc!ReallocUpSpec` as the next two |
| `ReallocTypes`, `ReallocKeepsData` | `ReallocTypeOK`, `DataKept` |

`WellFormed` says there *is* a set `B` of block boundaries that tile the heap.  The
inductive invariant `IInv` is that set's description: type correctness, the
tiling, that blocks tagged as used are the live ones, and that the walk of the
caller stands on a boundary and remembers a block that is still free with the
size it remembers.  The conjunct that is easy to miss is about stale tags: a
header that a merge leaves behind inside of a block must never read as *used*,
or a second `free()` would take it for a block.  The lemmas follow the code: one
for each thing an operation does to the tags (`Take`, `Split`, `ExtendHeap`,
`Absorb` to the right and to the left), each saying what the new tiling is and
that no block that stays in use is retagged; `NextIInv` combines them.

The last part is about `realloc()`, which frees the old block before it calls `malloc()`
and copies from memory that is no longer its own.  It holds where a buffer stays or moves up (`UpNext`;
section 3 says what a move down does).  `RInv` is `IInv` with three parts: every buffer holds
what its owner wrote (`AllIntact`), but for the one that is being copied to; and
`Stage` follows a call.  `OldKept` says that the freed words are still there, `Allocating`
that `malloc()` can only hand out the block from its start or leave it alone,
since no block begins inside of it in any tiling of the heap, and `Copying` that the
new block is at the old place or wholly behind it.  So the tags that `malloc()`
writes, each at a boundary of a block, cannot fall between the words to be copied.

### Address spaces

`PagingProofs` is about `Paging!QuietSpec`, for any finite sets of processes and
pages and any set of frames.

| theorem | property |
|---|---|
| `PagingInvariant` | `[]PagingInv` |
| `PagingTyped`, `FramesAlwaysExact` | `TypeOK`, `FramesExact` |
| `PagingIsPrivate` | `PrivateSpec`: `Paging` implements `PrivateMemory` |

That counts are exact is not inductive: whoever frees or copies must know that a
frame has one role.  `Distinct` says so for directories, tables and pages,
`Taking` for a frame that `mm_alloc()` holds between two steps, `Dropping` for one that
`MM_Clear()` has dereferenced and not yet unset, `Living` that only who is alive
has anything, `Filled` that every page has contents.  Counts are cardinalities of
sets of pages, and each action's lemma says which element joins or leaves.

### Physical pages and kernel ranges

`RangesProofs` is about `KernelRanges!QuietSpec`, with `PhysMem` under it, for any
number of processes, drivers, pages and slots and any width of a word.

| theorem | property |
|---|---|
| `RangesInvariant` | `[]RangesInv` |
| `RangesTyped`, `PagesAlwaysSound`, `MappingsAlwaysKept` | `TypeOK`, `PagesSound`, `MappingsKept` |
| `SearchAlwaysEnds` | a word that is not marked as full has a free page, so the loop of `MM_AllocPhys()` ends |

The part that took finding is `CountInv`.  `MM_AllocPhysCont()` counts a run as one
page and its undoing takes it off page by page, so that `iPhysUsedCount` is not the
number of pages in use: it lies between that of page directories and that.
It cannot fall below 0 only because directories are the only pages given back.
Two bounds keep this exact: `Reserved` is at least 1, since page 0 is the BIOS's;
and `UndoDMA` undoes only while the count is right and a run is no longer
than what the kernel has reserved, or the count would wrap.

### Process lists

`SchedulerProofs` is about `Scheduler!QuietSpec`, for any number of processes, any
delays and any time slice.

| theorem | property |
|---|---|
| `SchedulerInvariant` | `[]SchedInv` |
| `SchedulerTyped`, `ListsAlwaysRight` | `TypeOK`, `ListsRight` |
| `AlwaysInTime` | `RunsInTime` |

A list is what its head reaches, `Nodes`: the least set with the head that is closed under
`next`.  `Linked` says of it that no two entries point to the same one, none
to the head, and one to nothing, from which it follows that a walk ends and that an append or an
unlink changes what is meant (the first half of the module).  `Place` ties each
process to its lists by its status and by where it is in `Proc_Sleep()` or
`Proc_Delay()`; `Current` says that whoever runs leaves somebody behind who can, and
that its `next` pointer, which the scheduler follows after the process has left
the list, still leads to one.  `InTime` bounds the ticks an entry has left by the sum
of the deltas up to it; a delay that is put before another loses what the other
is late by, never the reverse.  The assumption on `Delays` (no longer than a word) is
that of an `int`.

### Floppy driver

`FloppyProofs` is about `Floppy!QuietSpec`, for any number of readers, timers, cache
entries and tries.

| theorem | property | assumes |
|---|---|---|
| `DriveInvariant` | `[]DriveInv` | |
| `AnswersAreOwn` | `OwnAnswer` | |
| `DataInvariant` | `[]DataInv` | `OneSide` |
| `ReadsAlwaysRight` | `ReadsRight` | `OneSide` |
| `FloppyTyped` | `TypeOK` | `PerHead = PerTrack` |

`DriveInv` needs nothing of the disk: one reader at most is behind each lock or
between its test and its store, the timer in hand is still free, and the controller was last
told what the one who waits had to tell it.  `DataInv` adds what arm, buffer and
cache hold.  It is true only where the driver's bookkeeping is: `OneSide` says that
the sectors are on one head, not on cylinder 1, and that heads have as many sectors as
tracks; section 5 has the counterexamples for the others.

### Open files

`FilesProofs` is about `Files!QuietSpec`, for any number of processes, files, nodes and
handles to a page.

| theorem | property |
|---|---|
| `FilesInvariant` | `[]FilesInv` |
| `FilesTyped`, `HandlesAlwaysSound` | `TypeOK`, `HandlesSound` |
| `HandlesAreKept` | `HandlesKept`: `Files` implements `FileTable` |

`vfs_close()` frees the node of a file without asking who else has it, so that the
invariant must say that nobody has (`Unshared`), also for a node that an
open has walked to and not yet stored.  `Underway` says that the handle an open
has picked stays free, which holds because its table is its own or the kernel's,
and of the latter `KernelOne` says that one at a time opens.  `DeadClear` lets a slot of
the process table be used again.

### Console

`ConsoleProofs` is about `Console!QuietSpec` with `Terminal` and `Bios`, for any number of
processes, any programs and typing, any table of modes and BIOS, any size of lines, screen
and terminals (tabs divide lines, and lines terminals).

| theorem | property |
|---|---|
| `ConsoleInvariant` | `[]ConsoleInv` |
| `ConsoleTyped`, `TerminalAlwaysRight`, `DisplayAlwaysRight` | `TypeOK`, `TerminalRight`, `DisplayRight` |

`ConsoleInv` has two halves.  `MonitorInv` begins with the processor (`Processor`: who is inside
of the kernel and has not given it up is who runs; the boot is over before programs
begin) and `Turns`: one process at a time is between the lock and what it makes of
the answer.  `HandOver` is the heart: the monitor wakes its caller *before* the BIOS has
run, and the caller still finds the answer, because the monitor does not give
up the processor between the two and the caller, asleep, cannot have run before; six
disjuncts (`Answering`) follow the question from the caller to the monitor's process and
back.  `Resting` says that with no question under way the monitor sleeps, and
`Installing` and `Display` what the table of modes and the hardware hold meanwhile.
`TerminalInv` says that what is in the mailbox is newer than what was taken (`Fresh`), from
when it is put until it is cleared; that who takes or clears is alone; and where the
attributes of the screen are kept during a warning.  Cursors need the arithmetic of stops
(`NextStop`).  The two halves meet in `Processor` only.

### Disks and FAT

`FatProofs` is about `Fat!QuietSpec` on `Ide`, for any disks and partitions, any volumes,
tables and directories.

| theorem | property |
|---|---|
| `TransfersAreRight` | `TransfersRight`: what was read is what the disk holds there, and what was written is there |
| `ReadsAreRight` | `ReadRight`: a read of a file returns the file's sectors, on volumes that are `VolumesSound` |
| `FatTyped` | `TypeOK`: handles before no start of a device, one buffer for a directory, one node for a file, tables that fit, on volumes that are `VolumesSound` and `DirectoriesSound` |

The first theorem holds of damaged volumes too: a chain may run in circles, an entry
point anywhere.  Its inductive invariant is `QInv`.  `Exclusive` says that one process at a time is in the
driver and one on a channel; the quiet steps ask for it only where a call begins, and the
proof shows that it lasts until the call ends.  `IoRight` says of each transfer under way
that what the channel is about to deliver is exactly what is still missing of it, from
the sector the transfer has come to.  `JobRight` and `OnVolume` tie a call of the FAT driver to its volume, so that the
disk it uses is known between two transfers too.  The proof goes through every operation of the driver, because each
may start a transfer: a walk of a chain gives a number whatever the
table holds (`WalkExists`), and `vfs_read()` refuses what lies outside of the partition,
so no property of the data on the disk is needed.  What is assumed is that
numbers are numbers, that there are finitely many volumes, that `None` is not one and no record of one, that a volume lies in its partition, and that a cluster has a sector, without
which `FAT_InitDevice()` refuses it (`fs_fat.c:80`).

The second needs to know what the disk holds, so `VolumesSound` is its hypothesis: the
table has a value for each cluster whose value the driver keeps, a file has as many
clusters as its size needs, they are clusters of the volume, and its chain does not go on from one
whose value is not kept (the cached table lacks the last two).  `MCFat` has
TLC evaluate it on its volumes.  `RInv` is inductive beside `QInv`.  `Unwritten` says that no one
writes to a disk with partitions.  `MountRight` says how far the table has been pieced together, and that
the handle stands after what has been read; reads of several sectors
at once make that an equation between quotients (`TablePlace`).  `InfoRight` keeps the result.  `AskRight` says what a transfer for a
handle asks for, `ReadingRight` what a read has put together when it waits for the next
cluster: all that lies before it, the first piece cut at its offset (`PieceIs`, `PieceJoin`); the last
one is cut at its length (`IsSpread`).

The third is about how the two caches of the driver and the shared handle are kept in order.  That
a handle is never before the start of its device is no matter of types: `SectorOf` subtracts
two from the number of the cluster it is given, and the end of a chain, or a free entry, may lead before the data.
So `DirectoriesSound` asks of the directories, but for the fixed root of FAT12 and FAT16, what `VolumesSound` asks
of the chains of files, and `MCFat` has TLC evaluate it too.  `TInv` is inductive: beside `QInv` and `RInv` it has
`WalksRight`, by which a listing or a search is in a cluster of its directory's chain and a root
is where the boot sector says; `KeysRight`, by which no two buffers and no two nodes are for the
same thing, whichever is taken out (`WithoutBuffer`, `WithoutNode`); and
`ChannelRight`, by which a channel delivers or waits for part of what its registers say.

### Only model-checked

* *Liveness* (`CallersServed` but for `OwnersUndisturbed`, `Scheduled`, `AllEnd`, `Served`)
  and everything that rests on `ENABLED`: the prover has no rules for fairness.
* *What a recursion over data computes*: that a walk of `AllocAt()` coalesces all
  neighbours (`FullyCoalesced`), the reference definitions of section 3 (`ModeFound`, `NodesRight`,
  `UnalignedRight`, `PagesRight`).
* *What listings of FAT give* (`NamesRight`): a name is what a listing of the whole directory
  defines, with its long parts before and its sectors flattened by a fold.
* *The invariants of* `Loader` and `DynLink`, and of `Namespace`.  `ImagesIntact` and
  `ProgramRight` compare with what loading and relocating a whole file would give;
  `DevicesSound` and `NamesRight` are about paths, which are walked by recursion.

## 5. What the code does not do

Beside the cases of section 3, these were met while modelling.  The models follow
the code in all of them, or keep the instance out of their way where it says so.

**Kernel ranges.** `MM_UnmapHW()` and `MM_DeallocRange()` clear bits at an index that still
contains the base of the range, so ranges are never released.  `MM_AllocPhysCont()`
counts a run as one page, and spins with interrupts off where the run it tries is
taken.  `mm_setro()`'s flag is inverted; `mm_remove()` never frees the pages of
process data.  `MM_MapTemp()` returns 0 after ten tries and callers copy to there.

**Loader.** The list of images holds no reference to its frames, though a count of
users "Makes sure that it isn't unloaded" (`binload.c:121`): the last process to leave, or the last but one to
be sharing when another stores, takes the cached page with it.  Two
processes can load the same file at once.  The tail of a segment's last page
holds what follows in the file instead of zeros.  Program headers are read before
the seek to them.  The test for a read-only page never succeeds.  A failed
`vfs_open()` is not noticed.  A use is counted even when mapping fails, and
what is mapped stays.  Arguments are copied over a program that is mapped at
`ARG_HOME`.

**Dynamic linker.** Every `SysLoadBin()` maps a new copy, so that `IsLoaded()` never
matches: libraries are loaded twice, and circular needs never end; it
returns 0 for the first anyway.  Names lose their directory
(`strcpy` at `&sTmpName[12]`).  `ElfRelocate()` returns the entry point of the file,
not of where it was loaded; PC-relative words and RELA addends are computed from the wrong place; a
library's entry is called before it is relocated.  A library that is not there is
ignored.

**FAT and IDE.** `hdd_write()` always sends data to the first channel.  A read of
several sectors polls once.  With an absent disk before a present one the nodes' names are
wrong.  An unaligned read copies past its sector; a read of no
sectors asks for 256.  A buffer that is left over gives the next short file a long
name; `DelLFN` frees the only buffer whosever it is, or the one behind the right
one.  Subdirectories with one sector per cluster skip sectors; root
directories of FAT12 and FAT16 with more wrap.  The cached table lacks the last two clusters.
`FindDir` never ends when a directory fills its clusters exactly.  Volume
labels and "." match.  Two mounts at once take the same place.  `vfs_read()` moves the
position and returns the length when the driver has failed.

**Names and devices.** The comparison of a path with a mount point takes a
difference of 47 for a match ("/s..." lies below "/Devices"), and reads
`mounts[-1]`; the constants `Alike` and `Before` say what is there, and are empty
and 0 in the instance.  PCI, terminal and network nodes carry no
driver number, so an ioctl goes to driver 0.
`PCI_AssignPort()` marks only the first port of a range and ignores failure.  The
scan looks at ten slots of a bus.  Partitions are numbered by count and mounted by
place.  `VFS_GetTruePath()` below a file gives the file.  `vfs_mknod()` calls a NULL
pointer on DevFS.  RootFS does not look for duplicate names and never frees its 32 nodes.
A second mount at the same point is ignored.  `ne2000` is a directory whose `readdir` is
never set (`drv_ne2k.c:199`), so nobody can list it.  The kernel panics at the 16th mount.

**Floppy.** The arm moves for both heads, and `track` only for one of them; after
initialisation the arm is on cylinder 0 and believed to be on 1; for 2.88 MB disks the
head is computed with 32 sectors to a track; the timer id of one drive may by now be
another's.  `MCFloppy` has instances for these (`BothHeads`, `CylinderOne`,
`TwoDisks`, and `LastOfTrack` with tracks of 3 sectors and 2 to a head).

**Console.** The monitor's caller is woken before the BIOS has run, and wakes
before it sleeps; the lock is tested and set in two steps.
`Vesa_Install()` keeps the lock when there is no VBE.  The modes' codes are never copied,
and those of the BIOS's first mode are skipped.  A mode number equal to the number of
modes is accepted.  The mailbox holds one key: a second one overwrites it, and one between read and
clear is lost.  Caps lock shifts digits and repeats with its key.  `tty_read()` of a
terminal in the background fails.  A tab fills too many cells, with the wrong
attribute.  `parseEscape` and its arguments have no bounds.  Warnings share one saved
attribute.

## 6. What is not modelled

Text output, descriptor tables, port programming and user programs have no
behaviour TLC could tell apart and stay outside.  In the parts that are modelled:
`Heap_Dump()` and other diagnostics; the kernel half of an address space and a
process's local storage in `Paging`; `MM_AllocRange()` and `MM_DeallocRange()`, which
nothing calls; the formats of executables other than ELF, `Binary_Unload()`,
`Proc_WaitPid()` and kernel threads; links, which this version does not have; what
`fdd_readFS()` does with sectors, the parameters of commands and periodic timers
in `Floppy`; the transmission of network frames; the mouse; the clock and calendar;
the configuration; the instructions the monitor emulates, which are one step;
the bodies of the interrupt stubs beyond the stack they save.  Sources outside
the makefile's list are superseded or unfinished.

## 7. Plan

The components that carry the kernel's own logic are modelled.  What is left, in the order
of what it would show:

1. *Proofs*: each listing's names on sound volumes (`Fat`); nodes and names
   (`Namespace`); images and relocated programs (`Loader`, `DynLink`).
2. *Operations*: NE2000 transmission, `Proc_WaitPid()`, `fdd_readFS()`, the user heaps of
   libc, the clock.
3. *Compositions*: `Paging` on `PhysMem` instead of a set of frames; `Console` on
   `Scheduler` instead of strong fairness.
