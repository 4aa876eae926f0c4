------------------------------ MODULE MCLoader ------------------------------
(***************************************************************************)
(* A shell, a program that needs a library and names the dynamic linker as *)
(* its interpreter, and a file that is no program.  A page has two cells.  *)
(***************************************************************************)
EXTENDS DynLink, TLC

CONSTANTS p1, p2, p3

MCFiles == {"sh", "app", "ld", "lib", "broken", "text", "two", "tail"}
Segment(vaddr, fsize, msize) ==
    [type |-> "LOAD", offset |-> 0, vaddr |-> vaddr, fsize |-> fsize, msize |-> msize, name |-> None]
Interpreter(f) ==
    [type |-> "INTERP", offset |-> 0, vaddr |-> 0, fsize |-> 0, msize |-> 0, name |-> f]
Plain(phdrs, entry) ==
    [elf |-> TRUE, phoff |-> 1, phdrs |-> phdrs, len |-> 2, entry |-> entry,
     syms |-> <<>>, rels |-> <<>>, needed |-> <<>>]

(* The program: a page from the file, with an undefined symbol and a word  *)
(* that is to lead to it, and a page of zeros.  The library is linked at 0:*)
(* a symbol, and a word that holds an address in it.                       *)
MCFile ==
    [sh |-> Plain(<<Segment(8, 2, 2)>>, 8),
     ld |-> Plain(<<Segment(20, 2, 2)>>, 20),
     text |-> [Plain(<<>>, 0) EXCEPT !.elf = FALSE],
     two |-> [Plain(<<Segment(8, 3, 3), [Segment(12, 2, 5) EXCEPT !.offset = 4]>>, 8) EXCEPT !.len = 6],
     tail |-> Plain(<<Segment(8, 1, 2)>>, 8),
     broken |-> [Plain(<<Interpreter("ld"), Segment(8, 2, 2)>>, 8) EXCEPT !.needed = <<"gone">>],
     app |-> [Plain(<<Interpreter("ld"), Segment(8, 2, 4)>>, 9) EXCEPT
        !.syms = [f |-> [cell |-> 8, value |-> 0, defined |-> FALSE]],
        !.rels = <<[cell |-> 9, sym |-> "f", type |-> "JMP_SLOT", addend |-> 0]>>,
        !.needed = <<"lib">>],
     lib |-> [Plain(<<Segment(0, 2, 2)>>, 0) EXCEPT
        !.syms = [f |-> [cell |-> 0, value |-> 1, defined |-> TRUE]],
        !.rels = <<[cell |-> 1, sym |-> None, type |-> "RELATIVE", addend |-> 1]>>]]

(* Pages hold what the headers say, as long as what is zero starts a page: *)
(* otherwise the start of it is what follows in the file.                  *)
ASSUME PagesRight == \A f \in DOMAIN ImageOf \ {"tail"} : LoadedAsDescribed(f)
ASSUME TailNotCleared == ~ LoadedAsDescribed("tail")

MCFrames == 1 .. 14
MCPids == {p1, p2, p3}
Symmetry == Permutations({p2, p3})

(* States that differ in the numbers of their frames only: a frame is known*)
(* by its places in images, or by who shares it since a fork.              *)
Places(f) == {<<i, k>> \in (1 .. Len(bins)) \X (1 .. 2) :
                k <= Len(bins[i].frames) /\ bins[i].frames[k] = f}
Sharers(v, f) == {p \in Pids : v \in DOMAIN space[p] /\ space[p][v].frame = f}
Seen(v, m) == <<m.cow, ref[m.frame], mem[m.frame], Sharers(v, m.frame), Places(m.frame)>>
View ==
    <<[p \in Pids |-> [v \in DOMAIN space[p] |-> Seen(v, space[p][v])]],
      [p \in Pids |-> [i \in 1 .. Len(job[p]) |->
          [job[p][i] EXCEPT !.image = IF @ = None THEN 0 ELSE Len(@.frames)]]],
      [i \in 1 .. Len(bins) |-> <<bins[i].file, bins[i].refs, [k \in 1 .. Len(bins[i].frames) |->
          <<bins[i].frames[k] \in used, ref[bins[i].frames[k]]>>]>>],
      Cardinality(used), st, got, prog, link, halted>>
=============================================================================
