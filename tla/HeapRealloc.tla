----------------------------- MODULE HeapRealloc -----------------------------
(***************************************************************************)
(* realloc() of CommonCode/heap.c, for one caller, and what becomes of the *)
(* contents.  realloc() frees the old block, allocates a new one (both as  *)
(* in module Heap) and then copies from memory it no longer owns.          *)
(*                                                                         *)
(* The contents of an allocation are one token per unit: its owner writes  *)
(* i + 1 into unit i, and 0 stands for bytes the owner did not write.      *)
(***************************************************************************)
EXTENDS Heap

VARIABLES
    data,           \* data[u]: token in unit u
    move            \* move[c]: the locals of realloc() of caller c

rvars == <<vars, data, move>>

(* kept is what the owner may count on: the smaller of the two requests.   *)
Still == [pc |-> "idle", old |-> 0, oldSize |-> 0, need |-> 0, kept |-> 0, new |-> 0]
Move == [pc : {"idle", "alloc", "copy"}, old : Units, oldSize : 0 .. MaxUnits,
         need : 0 .. MaxRequest, kept : 0 .. MaxRequest, new : Units]

ReallocInit == Init /\ data = [u \in Units |-> 0] /\ move = [c \in Callers |-> Still]

(* A caller fills what it was given.                                       *)
Filled(d, p, n) == [u \in Units |-> IF u \in p .. p + n - 1 THEN u - p + 1 ELSE d[u]]

(* The shrinking branch: the block is cut to n units, the rest is free.    *)
Cut(m, b, n) ==
    LET size == m.head[b].size
    IN  [m EXCEPT
            !.head[b].size = n,
            !.head[b + n] = [magic |-> "free", size |-> size - n],
            !.foot[b + n - 1] = [header |-> b, magic |-> "used"],
            !.foot[b + size - 1] = [header |-> b + n, magic |-> "used"]]

(* Mutant: a buffer that grows stays put too.                              *)
StaysPutGrowing(n, size) == n > size \div 2

(* The buffer stays where it is when its size in units does not change, or *)
(* when less than half of it would be saved.                               *)
StaysPut(n, size) == n = size \/ (n < size /\ n > size \div 2)

ReallocSame(c, b, n) ==
    /\ panic = "none"
    /\ call[c].pc = "idle" /\ move[c].pc = "idle"
    /\ live[b] # 0
    /\ StaysPut(n, mem.head[b].size)
    /\ live' = [live EXCEPT ![b] = n]
    /\ data' = Filled(data, b, n)
    /\ UNCHANGED <<mem, mapped, call, panic, move>>

(* free(oldPos), then the malloc(bytes) that the steps of Heap carry out.  *)
ReallocMove(c, b, n) ==
    LET size == mem.head[b].size
        m    == IF n < size THEN Cut(mem, b, n) ELSE mem
    IN  /\ panic = "none"
        /\ call[c].pc = "idle" /\ move[c].pc = "idle"
        /\ live[b] # 0
        /\ Allocated(mem, b)
        /\ ~ StaysPut(n, size)
        /\ mem.end + n =< MaxUnits
        /\ ~ FreePanics(m, b)
        /\ mem' = DeallocAt(m, b)
        /\ live' = [live EXCEPT ![b] = 0]
        /\ call' = [call EXCEPT ![c] = Begun(n)]
        /\ move' = [move EXCEPT ![c] = [pc |-> "alloc", old |-> b, oldSize |-> size,
                                           need |-> n, new |-> 0,
                                           kept |-> IF n < live[b] THEN n ELSE live[b]]]
        /\ UNCHANGED <<mapped, panic, data>>

(* A step of malloc(), called by realloc() or for a new buffer, which its  *)
(* owner fills.                                                            *)
MallocStep(c) ==
    LET given == CHOOSE b \in Units : live[b] # live'[b]
    IN  /\ Malloc(c)
        /\ CASE call'[c].pc # "idle" -> UNCHANGED <<data, move>>
             [] call'[c].pc = "idle" /\ move[c].pc = "idle" ->
                    /\ data' = Filled(data, given, live'[given])
                    /\ UNCHANGED move
             [] call'[c].pc = "idle" /\ move[c].pc = "alloc" ->
                    /\ move' = [move EXCEPT ![c].pc = "copy", ![c].new = given]
                    /\ UNCHANGED data

(* What malloc() left of the old contents: where it split the merged block *)
(* inside them it wrote a footer at the end of one unit and a header at    *)
(* the start of the next.                                                  *)
OldContents(q, old, oldSize) ==
    LET cut == q + mem.head[q].size
    IN  [i \in 0 .. oldSize - 1 |->
            IF cut \in old + 1 .. old + oldSize - 1 /\ old + i \in {cut - 1, cut}
            THEN 0 ELSE data[old + i]]

(* The copy down runs from the last word to the first.  A word of the      *)
(* source that lies in the destination is read after it was overwritten,   *)
(* with the word that is as far behind it as the destination is ahead.     *)
CopiedDown(src, n, shift) ==
    LET word[i \in 0 .. n - 1] == IF i + shift < n THEN word[i + shift] ELSE src[i]
    IN  word

CopiedUp(src, n) == [i \in 0 .. n - 1 |-> src[i]]

(* Growing downwards starts one word too low: the last word is not copied, *)
(* and the word before the buffer, the size in its header, is.  The owner  *)
(* then fills what is new to it.                                           *)
CopyOld(c) ==
    LET q   == move[c].new
        old == move[c].old
        oldSize == move[c].oldSize
        n   == move[c].need
        grows == oldSize < n
        k   == IF grows THEN oldSize ELSE n
        src == OldContents(q, old, oldSize)
        down == CopiedDown(src, k, old - q)
        word == CASE q = old -> [i \in 0 .. k - 1 |-> data[old + i]]
                  [] q > old -> CopiedUp(src, k)
                  [] q < old /\ ~ grows -> down
                  [] q < old /\ grows -> [down EXCEPT ![k - 1] = 0]
    IN  /\ panic = "none"
        /\ move[c].pc = "copy"
        /\ data' = [u \in Units |->
                        IF u \in q .. q + move[c].kept - 1 THEN word[u - q]
                        ELSE Filled(data, q, n)[u]]
        /\ mem' = IF q < old /\ grows
                  THEN [mem EXCEPT !.head[q].size = mem.head[old].size]
                  ELSE mem
        /\ move' = [move EXCEPT ![c] = Still]
        /\ UNCHANGED <<mapped, live, call, panic>>

ReallocNext ==
    \E c \in Callers :
        \/ MallocStep(c)
        \/ CopyOld(c)
        \/ \E b \in Units, n \in 1 .. MaxRequest : ReallocSame(c, b, n) \/ ReallocMove(c, b, n)
        \/ /\ move[c].pc = "idle"
           /\ \/ \E n \in 1 .. MaxRequest : AllocBegin(c, n)
              \/ \E b \in Units : Dealloc(c, b)
           /\ UNCHANGED <<data, move>>

ReallocSpec == ReallocInit /\ [][ReallocNext]_rvars

(* The executions in which no buffer moves to a lower address.             *)
UpNext == ReallocNext /\ \A c \in Callers : move'[c].pc = "copy" => move'[c].new >= move'[c].old

ReallocUpSpec == ReallocInit /\ [][UpNext]_rvars

-----------------------------------------------------------------------------
ReallocTypeOK ==
    /\ TypeOK
    /\ data \in [Units -> 0 .. MaxRequest]
    /\ move \in [Callers -> Move]

(* "Copy Old Data": realloc() keeps what the old and the new size have in  *)
(* common.                                                                 *)
ContentsKept ==
    \A p \in Units : live[p] # 0 /\ (\A c \in Callers : move[c].pc # "copy") =>
        \A i \in 0 .. live[p] - 1 : data[p + i] = i + 1

(* realloc() touches no block but its own: what the other owners hold is   *)
(* as they wrote it, whatever is cut, merged and copied next to it.        *)
OthersIntact ==
    [][\A p \in Units : live[p] # 0 /\ live'[p] = live[p]
           /\ (\A c \in Callers : move[c].pc = "copy" => move[c].new # p) =>
               \A i \in 0 .. live[p] - 1 : data'[p + i] = data[p + i]]_rvars

(* realloc() keeps contents, the tags of the heap with them: those of the  *)
(* buffer it moves, and everybody else's.                                  *)
DataKept == [](ContentsKept /\ WellFormed /\ NeverTrashed) /\ OthersIntact
=============================================================================
