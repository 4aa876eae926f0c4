------------------------------- MODULE DynLink -------------------------------
(***************************************************************************)
(* The dynamic linker, Usermode/Libraries/ld-acess.so_src, run by programs *)
(* that name it as their interpreter, on top of the loader of the kernel.  *)
(*                                                                         *)
(* What it reads and changes is memory of the process: the symbol tables   *)
(* and relocated words of the images, and its own list of libraries, which *)
(* is a cell of its image.  File[f] says where in its image a file has     *)
(* them: syms[s] the cell and the value of symbol s, rels what is to be    *)
(* relocated, needed the DT_NEEDED entries.                                *)
(***************************************************************************)
EXTENDS Loader

CONSTANTS
    Linker,         \* ld-acess.so
    LoadedCell,     \* the cell of gLoadedLibraries in its image
    Commands,       \* files the shell starts,
    Preloads,       \* loads with syscall_ldbin(),
    Others,         \* and that programs become
    MaxMaps         \* bound: images that are mapped in a behaviour

VARIABLE link       \* link[p]: the calls of DoRelocate() p is in, the innermost last

linkVars == <<vars, link>>

(* Cells of an image that ld-acess has changed.                            *)
Word(n) == <<"word", n>>
Listing(s) == <<"list", s>>

LinkInit == Init /\ link = [p \in Pids |-> <<>>]

-----------------------------------------------------------------------------
(* Reading the memory of p                                                 *)

(* The file that is mapped at b, as its header there says.                 *)
FileAt(p, b) ==
    LET x == At(p, b * Page) IN IF x[1] = "file" THEN x[2] ELSE None
Diff(p, b) == b * Page - ImageOf[FileAt(p, b)].base

(* A word of an image: as the linker made it, or as it was in the file,    *)
(* where it has been corrected by as much as the last member of it says.   *)
ValueOf(x, n) == IF x[1] = "word" THEN x[2] ELSE n + x[4]

HasSymbol(p, b, s) == LET f == FileAt(p, b) IN s \in DOMAIN File[f].syms

(* ElfGetSymbol(), of any symbol that is there.                            *)
Named(p, b, s) == HasSymbol(p, b, s)

(* ElfGetSymbol() passes over those the file does not define.              *)
Defines(p, b, s) == HasSymbol(p, b, s) /\ File[FileAt(p, b)].syms[s].defined

SymbolIn(p, b, s) ==
    LET sym == File[FileAt(p, b)].syms[s]
    IN  ValueOf(At(p, sym.cell + Diff(p, b)), sym.value)

(* gLoadedLibraries, which ld-acess finds where it was linked to be.       *)
LoadedAt == ImageOf[Linker].base + LoadedCell
Libraries(p) == LET x == At(p, LoadedAt) IN IF x[1] = "list" THEN x[2] ELSE <<>>

(* GetSymbol(): the first library that has it, 0 if none has.              *)
GetSymbol(p, s) ==
    LET having == {i \in 1 .. Len(Libraries(p)) : Defines(p, Libraries(p)[i], s)}
    IN  IF having = {} THEN 0 ELSE SymbolIn(p, Libraries(p)[Min(having)], s)

(* IsLoaded() gives an index, which is 0 for the first.                    *)
IsLoaded(p, b) == \E i \in 2 .. Len(Libraries(p)) : Libraries(p)[i] = b

(* elf_doRelocate() of a word at address a that holds n.                   *)
Relocated(p, type, s, a, n, diff) ==
    CASE type = "32" -> GetSymbol(p, s) + n
      [] type = "PC32" -> GetSymbol(p, s) + n - (a - diff)
      [] type \in {"GLOB_DAT", "JMP_SLOT"} -> GetSymbol(p, s)
      [] type = "RELATIVE" -> diff + n
      [] OTHER -> n

-----------------------------------------------------------------------------
(* Steps of ld-acess in p                                                  *)

Top1(p) == Last(link[p])
Links(p, at) ==
    /\ ~ halted /\ st[p] = "link" /\ job[p] = <<>>
    /\ link[p] # <<>> /\ Top1(p).at = at
Step(p, call) == [link EXCEPT ![p] = Front(@) \o <<call>>]
SymbolLists == [f \in Files |-> SetToSeq(DOMAIN File[f].syms)]
SymbolsOf(f) == SymbolLists[f]

(* On to the next loop of ElfRelocate() at the end of one.                 *)
Settled(f, c) ==
    IF c.at = "symbols" /\ c.k > Len(SymbolsOf(f)) THEN [c EXCEPT !.at = "add", !.k = 1]
    ELSE IF c.at = "needed" /\ c.k > Len(File[f].needed) THEN [c EXCEPT !.at = "fix", !.k = 1]
    ELSE c
Begin(p, b) == Settled(FileAt(p, b), [base |-> b, at |-> "symbols", k |-> 1])
Advance(p, c) == Step(p, Settled(FileAt(p, c.base), c))

Ends(p) == Ended(p) /\ link' = [link EXCEPT ![p] = <<>>]

(* The entry point is that of the program, or of the linker: SoMain().     *)
EnterProgram(p) ==
    /\ ~ halted
    /\ st[p] = "start"
    /\ FileAt(p, prog[p].entry \div Page) # Linker
    /\ st' = [st EXCEPT ![p] = "main"]
    /\ UNCHANGED <<bins, used, ref, mem, space, job, got, prog, halted, link>>

SoMain(p) ==
    /\ ~ halted
    /\ st[p] = "start"
    /\ FileAt(p, prog[p].entry \div Page) = Linker
    /\ IF prog[p].base * Page = ImageOf[Linker].base THEN Ends(p)
       ELSE /\ st' = [st EXCEPT ![p] = "link"]
            /\ link' = [link EXCEPT ![p] = <<Begin(p, prog[p].base)>>]
            /\ UNCHANGED <<bins, used, ref, mem, space, job, got, prog, halted>>

(* ElfRelocate(), "Alter Symbols to true base": one symbol after the other.*)
AlterSymbol(p) ==
    /\ Links(p, "symbols")
    /\ LET c == Top1(p)
           f == FileAt(p, c.base)
           a == File[f].syms[SymbolsOf(f)[c.k]].cell + Diff(p, c.base)
       IN  /\ Store(p, a, [At(p, a) EXCEPT ![4] = @ + Diff(p, c.base)])
           /\ link' = Advance(p, [c EXCEPT !.k = @ + 1])
    /\ UNCHANGED <<bins, st, job, got, prog>>

(* AddLoaded()                                                             *)
AddLoaded(p) ==
    /\ Links(p, "add")
    /\ Store(p, LoadedAt, Listing(Append(Libraries(p), Top1(p).base)))
    /\ link' = Advance(p, [Top1(p) EXCEPT !.at = "needed"])
    /\ UNCHANGED <<bins, st, job, got, prog>>

(* LoadLibrary() of each DT_NEEDED, up to SysLoadBin().                    *)
LoadLibrary(p) ==
    /\ Links(p, "needed")
    /\ LoadBin(p, File[FileAt(p, Top1(p).base)].needed[Top1(p).k])
    /\ link' = Step(p, [Top1(p) EXCEPT !.at = "loading"])
    /\ UNCHANGED st

(* What ElfRelocate() returns when a library is missing ends the process,  *)
(* but not if it was for another library: LoadLibrary() does not look.     *)
LibraryMissing(p) ==
    /\ Links(p, "loading")
    /\ got[p].base = 0
    /\ IF Len(link[p]) = 1 THEN Ends(p)
       ELSE /\ link' = [link EXCEPT ![p] = Front(@)]
            /\ UNCHANGED vars

(* The library's entry point is called, and it is relocated.               *)
LibraryLoaded(p) ==
    /\ Links(p, "loading")
    /\ got[p].base # 0
    /\ LET next == [Top1(p) EXCEPT !.at = "needed", !.k = @ + 1]
       IN  link' = [link EXCEPT ![p] = Front(@) \o <<Settled(FileAt(p, next.base), next)>> \o
              IF IsLoaded(p, got[p].base) THEN <<>> ELSE <<Begin(p, got[p].base)>>]
    /\ UNCHANGED vars

(* "Parse Relocation Entries", and those of the PLT.                       *)
Relocate(p) ==
    /\ Links(p, "fix")
    /\ LET c == Top1(p)
           f == FileAt(p, c.base)
           rel == File[f].rels[c.k]
           a == rel.cell + Diff(p, c.base)
           n == ValueOf(At(p, a), rel.addend)
       IN  /\ c.k <= Len(File[f].rels)
           /\ Store(p, a, Word(Relocated(p, rel.type, rel.sym, a, n, Diff(p, c.base))))
           /\ link' = Step(p, [c EXCEPT !.k = @ + 1])
    /\ UNCHANGED <<bins, st, job, got, prog>>

(* The end of ElfRelocate(): the entry point of the file, as it was linked.*)
ElfRelocated(p) ==
    /\ Links(p, "fix")
    /\ LET c == Top1(p)
           f == FileAt(p, c.base)
       IN  /\ c.k > Len(File[f].rels)
           /\ link' = [link EXCEPT ![p] = Front(@)]
           /\ IF Len(link[p]) = 1
              THEN /\ st' = [st EXCEPT ![p] = "main"]
                   /\ prog' = [prog EXCEPT ![p].entry = File[f].entry]
              ELSE UNCHANGED <<st, prog>>
    /\ UNCHANGED <<bins, used, ref, mem, space, job, got, halted>>

LinkerNext ==
    \E p \in Pids :
        \/ EnterProgram(p) \/ SoMain(p)
        \/ AlterSymbol(p) \/ AddLoaded(p) \/ LoadLibrary(p)
        \/ LibraryMissing(p) \/ LibraryLoaded(p)
        \/ Relocate(p) \/ ElfRelocated(p)

-----------------------------------------------------------------------------
(* What programs do: the shell starts others and loads images of them; they*)
(* store to their data, and end.                                           *)
Holds(p, f) == \E v \in DOMAIN space[p] : FileAt(p, v) = f
DataOf(f) == {h.vaddr + h.fsize : h \in {g \in Range(OfType(f, "LOAD")) : g.fsize < g.msize}}

Few == FoldSeq(LAMBDA e, n : e.refs + n, 0, bins) < MaxMaps

Starts(p) ==
    /\ Few
    /\ \/ \E q \in Pids, f \in Commands : Open(p, q, f) /\ UNCHANGED link
       \/ \E f \in Preloads : ~ Holds(p, f) /\ LoadBin(p, f) /\ UNCHANGED <<st, link>>

UserNext ==
    \E p \in Pids :
        /\ Runs(p)
        /\ LET f == FileAt(p, prog[p].base)
           IN  \/ f = Shell /\ Starts(p)
               \/ f # Shell /\ UNCHANGED link /\ (Exit(p) \/ \E g \in Others : Execve(p, g))
               \/ UNCHANGED link /\ \E a \in DataOf(f) : Write(p, a)

Faults == UNCHANGED link /\ \E p \in Pids, v \in 0 .. Top : KernelWrite(p, v * Page)

Next == (KernelNext /\ UNCHANGED link) \/ LinkerNext \/ UserNext \/ Faults

Spec == LinkInit /\ [][Next]_linkVars

(* A frame of an image in the list always has somebody who maps it beside  *)
(* the one that stores to it or lets it go: the list itself holds none.    *)
AlwaysHeld ==
    /\ \A f \in ImageFrames : ref[f] > 0 => ref'[f] > 0
    /\ \A p \in Pids : \A v \in DOMAIN space[p] \cap DOMAIN space'[p] :
         LET m == space[p][v]
         IN  m.frame \in ImageFrames /\ m.cow /\ ~ space'[p][v].cow => ref[m.frame] > 1

QuietNext ==
    /\ (KernelNext /\ UNCHANGED link) \/ LinkerNext \/ UserNext
    /\ AlwaysHeld

QuietSpec == LinkInit /\ [][QuietNext]_linkVars

-----------------------------------------------------------------------------
TypeOK ==
    /\ used \subseteq Frames
    /\ \A f \in Frames : ref[f] \in Nat /\ DOMAIN mem[f] = Cells
    /\ \A p \in Pids :
         /\ DOMAIN space[p] \subseteq 0 .. Top
         /\ \A v \in DOMAIN space[p] : space[p][v].frame \in used /\ space[p][v].cow \in BOOLEAN
         /\ st[p] \in {"dead", "clear", "exec", "start", "link", "main"}
         /\ \A i \in 1 .. Len(job[p]) : job[p][i].at \in {"find", "read", "map", "interp"}
         /\ \A i \in 1 .. Len(link[p]) :
              link[p][i].at \in {"symbols", "add", "needed", "loading", "fix"}
         /\ (st[p] = "dead" => space[p] = <<>> /\ job[p] = <<>> /\ link[p] = <<>>)
         /\ (st[p] = "link") = (link[p] # <<>>)
    /\ halted \in BOOLEAN

(* The address a symbol has in the library that is mapped at b.            *)
Provides(p, b, s) ==
    FileAt(p, b) # None /\ HasSymbol(p, b, s) /\ File[FileAt(p, b)].syms[s].defined
SymbolAddress(p, b, s) == File[FileAt(p, b)].syms[s].value + Diff(p, b)

(* What a word that is relocated has to be.                                *)
RightWord(p, rel, diff, x) ==
    IF rel.type = "RELATIVE" THEN x = Word(diff + rel.addend)
    ELSE \E b \in Range(Libraries(p)) : Provides(p, b, rel.sym) /\ x = Word(SymbolAddress(p, b, rel.sym))

(* A cell of file f that is linked to be at a, in an image at diff from it.*)
RightCell(p, f, a, diff, linked, was, x) ==
    LET rels == {r \in Range(File[f].rels) : r.cell = a}
    IN  IF linked /\ rels # {} THEN \A r \in rels : RightWord(p, r, diff, x)
        ELSE IF linked /\ \E s \in DOMAIN File[f].syms : File[f].syms[s].cell = a
        THEN x = [was EXCEPT ![4] = diff]
        ELSE x = was \/ (a \in DataOf(f) /\ x = <<"own", p>>)

ImageRight(p, f, b, linked) ==
    LET e == ImageOf[f]
        diff == b * Page - e.base
    IN  \A k \in 1 .. Len(e.pages), c \in Cells :
            LET v == PageAt(e, k, b)
                was == ReadPage(f, e.pages[k].from, [d \in Cells |-> <<"old">>])[c]
            IN  /\ v \in DOMAIN space[p]
                /\ RightCell(p, f, e.pages[k].virt + c, diff, linked, was, At(p, v * Page + c))

(* A program that runs has its own image and those of its libraries in its *)
(* memory, as their files say: every page of them, with every reference    *)
(* resolved to what another of them defines, with nothing left that another*)
(* process has stored; and it was entered where its file says.             *)
ProgramRight ==
    \A p \in Pids : st[p] = "main" =>
        LET b == prog[p].base
            f == FileAt(p, b)
            dynamic == ImageOf[f].interp # None
        IN  /\ f # None
            /\ ImageRight(p, f, b, dynamic)
            /\ prog[p].entry = File[f].entry + Diff(p, b)
            /\ dynamic => \A i \in 1 .. Len(File[f].needed) : \E l \in Range(Libraries(p)) :
                  FileAt(p, l) = File[f].needed[i] /\ ImageRight(p, File[f].needed[i], l, TRUE)
=============================================================================
