-------------------------------- MODULE Elf --------------------------------
(***************************************************************************)
(* What CommonCode/bin_elf.c makes of a file: the pages of an image and    *)
(* where in the file each of them is read from.                            *)
(*                                                                         *)
(* A page has Page cells.  A cell of a file is <<"file", f, i, 0>>, cell i *)
(* of file f.                                                              *)
(***************************************************************************)
EXTENDS Integers, SequencesExt

CONSTANTS
    Page,           \* cells of a page
    Files,          \* names of the files there are
    File,           \* File[f]: its headers, and what ld-acess finds in it
    None

ASSUME ElfConstants == Page \in Nat \ {0} /\ None \notin Files

ZeroCell == <<"zero">>
FromFile(f, i) == <<"file", f, i, 0>>

Up(n) == (n + Page - 1) \div Page

(* The headers are read from where the file pointer is after the header of *)
(* the file, and phoff is looked at only afterwards.                       *)
Loadable(f) == File[f].elf /\ File[f].phoff # 0
OfType(f, type) == SelectSeq(File[f].phdrs, LAMBDA h : h.type = type)

(* A page is read from the file, or zero: "Get Pages".  What of a last page*)
(* is beyond FileSize is read as well.                                     *)
PagesOf(h) ==
    [k \in 1 .. Up(h.msize) |->
        [virt |-> h.vaddr + (k - 1) * Page,
         from |-> IF k <= Up(h.fsize) THEN h.offset + (k - 1) * Page ELSE None]]

PageList(f) ==
    LET loads == OfType(f, "LOAD")
    IN  FlattenSeq([i \in 1 .. Len(loads) |-> PagesOf(loads[i])])

BaseOf(f) == Min({OfType(f, "LOAD")[i].vaddr : i \in 1 .. Len(OfType(f, "LOAD"))})

(* Binary_RegInterp() gives the one copy there is of the name.             *)
InterpOf(f) == IF OfType(f, "INTERP") = <<>> THEN None ELSE OfType(f, "INTERP")[1].name

Elf_Load(f) ==
    [file |-> f, base |-> BaseOf(f), entry |-> File[f].entry,
     interp |-> InterpOf(f), pages |-> PageList(f), frames |-> <<>>, refs |-> 0]

ImageOf == [f \in {g \in Files : Loadable(g)} |-> Elf_Load(f)]

(* What a page holds once Binary_DoLoad() has read it: behind the end of   *)
(* the file, what was in it before.                                        *)
ReadPage(f, from, old) ==
    [c \in 0 .. Page - 1 |->
        IF from = None THEN ZeroCell
        ELSE IF from + c < File[f].len THEN FromFile(f, from + c)
        ELSE old[c]]

-----------------------------------------------------------------------------
(* The memory of a program, as its headers describe it.                    *)
Described(h, f, a) ==
    IF a < h.vaddr + h.fsize THEN FromFile(f, h.offset + a - h.vaddr) ELSE ZeroCell

(* What is read at an address: of the pages for one address, mm_map() maps *)
(* the first.                                                              *)
Loaded(f, a) ==
    LET there == {k \in 1 .. Len(PageList(f)) : PageList(f)[k].virt \div Page = a \div Page}
        page == PageList(f)[Min(there)]
    IN  ReadPage(f, page.from, [c \in 0 .. Page - 1 |-> <<"old">>])[a % Page]

LoadedAsDescribed(f) ==
    \A i \in 1 .. Len(OfType(f, "LOAD")) :
        LET h == OfType(f, "LOAD")[i]
        IN  \A a \in h.vaddr .. h.vaddr + h.msize - 1 : Loaded(f, a) = Described(h, f, a)
=============================================================================
