----------------------------- MODULE PagingProofs -----------------------------
(***************************************************************************)
(* Proofs about module Paging, for every number of processes, pages and    *)
(* frames.                                                                 *)
(***************************************************************************)
EXTENDS Paging, FiniteSetTheorems, TLAPS

(* The frames a process is made of are its own: tables and directories are *)
(* nobody's pages, and it maps none of its pages twice.                    *)
Distinct ==
    /\ \A p, q \in Pids : dir[p] # None /\ dir[p] = dir[q] => p = q
    /\ \A p, q \in Pids : tab[p] # None /\ tab[p] = tab[q] => p = q
    /\ \A p, q \in Pids : dir[p] # None => dir[p] # tab[q]
    /\ \A p, q \in Pids : \A v \in VPages :
           pte[q][v].frame # None => pte[q][v].frame # dir[p] /\ pte[q][v].frame # tab[p]
    /\ \A p \in Pids : \A v, w \in VPages :
           pte[p][v].frame # None /\ pte[p][v].frame = pte[p][w].frame => v = w

(* Only what is alive has a table, pages or work under way, and only what  *)
(* has a table maps pages.                                                 *)
Living ==
    \A p \in Pids :
        /\ op[p].pc # "run" => Alive(p)
        /\ tab[p] # None => Alive(p)
        /\ op[p].pc \in {"table", "frame"} => tab[p] # None
        /\ \A v \in VPages : pte[p][v].frame # None => tab[p] # None
        /\ op[p].pc \in {"run", "table", "clear"} => op[p].frame = None

(* A frame that mm_alloc() has taken is nobody else's, and the page it is  *)
(* for is not there yet.                                                   *)
Taking ==
    \A p \in Pids : op[p].pc = "frame" =>
        /\ op[p].page \in VPages
        /\ op[p].frame # None
        /\ pte[p][op[p].page] = Absent
        /\ \A q \in Pids :
               /\ op[p].frame # dir[q] /\ op[p].frame # tab[q]
               /\ \A v \in VPages : op[p].frame # pte[q][v].frame
               /\ op[q].pc = "frame" /\ op[q].frame = op[p].frame => p = q

(* MM_Clear() is about to unset the entry of the page it dereferenced.     *)
Dropping ==
    \A p \in Pids : op[p].pc = "drop" =>
        /\ op[p].page \in VPages
        /\ op[p].frame # None
        /\ op[p].frame = pte[p][op[p].page].frame
        /\ Undisturbed(p)

(* Every page holds something.                                             *)
Filled ==
    \A p \in Pids : \A v \in VPages :
        pte[p][v].frame # None => content[pte[p][v].frame] # None

(* The inductive invariant.                                                *)
PagingInv == TypeOK /\ FramesExact /\ Distinct /\ Living /\ Taking /\ Dropping /\ Filled

-----------------------------------------------------------------------------
(* Finite sets, one element more or less.                                  *)
LEMMA OneMore ==
    ASSUME NEW S, IsFiniteSet(S), NEW x, x \notin S
    PROVE  Cardinality(S \cup {x}) = Cardinality(S) + 1
    BY FS_AddElement

LEMMA OneLess ==
    ASSUME NEW S, IsFiniteSet(S), NEW x, x \in S
    PROVE  /\ IsFiniteSet(S \ {x})
           /\ Cardinality(S \ {x}) \in Nat
           /\ Cardinality(S) = Cardinality(S \ {x}) + 1
<1>1. Cardinality(S) \in Nat
    BY FS_CardinalityType
<1>2. IsFiniteSet(S \ {x}) /\ Cardinality(S \ {x}) = Cardinality(S) - 1
    BY FS_RemoveElement
<1>3. Cardinality(S \ {x}) \in Nat
    BY <1>2, FS_CardinalityType
<1> QED
    BY <1>1, <1>2, <1>3

(* What is free can be taken.                                              *)
LEMMA GrabLemma ==
    ASSUME NEW S, S # {}
    PROVE  Grab(S) \in S
    BY DEF Grab

Dirs(f) == {p \in Pids : dir[p] = f}
Tabs(f) == {p \in Pids : tab[p] = f}

(* The references to a frame can be counted.                               *)
LEMMA Countable ==
    ASSUME NEW f
    PROVE  /\ IsFiniteSet(Entries(f)) /\ Cardinality(Entries(f)) \in Nat
           /\ IsFiniteSet(Dirs(f)) /\ Cardinality(Dirs(f)) \in Nat
           /\ IsFiniteSet(Tabs(f)) /\ Cardinality(Tabs(f)) \in Nat
           /\ IsFiniteSet(Entries(f)') /\ Cardinality(Entries(f)') \in Nat
           /\ IsFiniteSet(Dirs(f)') /\ Cardinality(Dirs(f)') \in Nat
           /\ IsFiniteSet(Tabs(f)') /\ Cardinality(Tabs(f)') \in Nat
<1>1. IsFiniteSet(Pids \X VPages) /\ IsFiniteSet(Pids)
    BY FS_Product, PagingConstants
<1>2. /\ Entries(f) \subseteq Pids \X VPages /\ Entries(f)' \subseteq Pids \X VPages
      /\ Dirs(f) \subseteq Pids /\ Dirs(f)' \subseteq Pids
      /\ Tabs(f) \subseteq Pids /\ Tabs(f)' \subseteq Pids
    BY DEF Entries, Dirs, Tabs
<1>3. /\ IsFiniteSet(Entries(f)) /\ IsFiniteSet(Entries(f)')
      /\ IsFiniteSet(Dirs(f)) /\ IsFiniteSet(Dirs(f)')
      /\ IsFiniteSet(Tabs(f)) /\ IsFiniteSet(Tabs(f)')
    BY <1>1, <1>2, FS_Subset
<1> QED
    BY <1>3, FS_CardinalityType

(* A frame nobody leads to has the count 0, and the other way round.       *)
LEMMA CountZero ==
    ASSUME PagingInv, NEW f \in Frames
    PROVE  ref[f] = 0 <=> Entries(f) = {} /\ Dirs(f) = {} /\ Tabs(f) = {}
<1>1. ref[f] = Cardinality(Entries(f)) + Cardinality(Dirs(f)) + Cardinality(Tabs(f))
    BY DEF PagingInv, FramesExact, RefCountsExact, Dirs, Tabs
<1>2. /\ Cardinality(Entries(f)) \in Nat /\ Cardinality(Dirs(f)) \in Nat
      /\ Cardinality(Tabs(f)) \in Nat
    BY Countable
<1>3. /\ Cardinality(Entries(f)) = 0 <=> Entries(f) = {}
      /\ Cardinality(Dirs(f)) = 0 <=> Dirs(f) = {}
      /\ Cardinality(Tabs(f)) = 0 <=> Tabs(f) = {}
    BY Countable, FS_EmptySet
<1> QED
    BY <1>1, <1>2, <1>3

CountOf(f) == Cardinality(Entries(f)) + Cardinality(Dirs(f)) + Cardinality(Tabs(f))

LEMMA CountLemma ==
    /\ RefCountsExact <=> \A f \in Frames : ref[f] = CountOf(f)
    /\ RefCountsExact' <=> \A f \in Frames : ref'[f] = CountOf(f)'
    BY DEF RefCountsExact, CountOf, Dirs, Tabs

(* How the count of a frame changes with what leads to it.                 *)
More(S, T) == \E x : x \notin S /\ T = S \cup {x}

LEMMA MoreLemma ==
    ASSUME NEW S, NEW T, IsFiniteSet(S), IsFiniteSet(T), More(S, T)
    PROVE  Cardinality(T) = Cardinality(S) + 1
    BY OneMore DEF More

LEMMA Recount ==
    ASSUME NEW f
    PROVE  /\ CountOf(f) \in Nat /\ CountOf(f)' \in Nat
           /\ Entries(f)' = Entries(f) /\ Dirs(f)' = Dirs(f) /\ Tabs(f)' = Tabs(f)
                  => CountOf(f)' = CountOf(f)
           /\ More(Entries(f), Entries(f)') /\ Dirs(f)' = Dirs(f) /\ Tabs(f)' = Tabs(f)
                  => CountOf(f)' = CountOf(f) + 1
           /\ Entries(f)' = Entries(f) /\ More(Dirs(f), Dirs(f)') /\ Tabs(f)' = Tabs(f)
                  => CountOf(f)' = CountOf(f) + 1
           /\ Entries(f)' = Entries(f) /\ Dirs(f)' = Dirs(f) /\ More(Tabs(f), Tabs(f)')
                  => CountOf(f)' = CountOf(f) + 1
           /\ More(Entries(f)', Entries(f)) /\ Dirs(f)' = Dirs(f) /\ Tabs(f)' = Tabs(f)
                  => CountOf(f) = CountOf(f)' + 1
           /\ Entries(f)' = Entries(f) /\ More(Dirs(f)', Dirs(f)) /\ Tabs(f)' = Tabs(f)
                  => CountOf(f) = CountOf(f)' + 1
           /\ Entries(f)' = Entries(f) /\ Dirs(f)' = Dirs(f) /\ More(Tabs(f)', Tabs(f))
                  => CountOf(f) = CountOf(f)' + 1
<1> DEFINE E == Entries(f)
           D == Dirs(f)
           T == Tabs(f)
<1>1. /\ IsFiniteSet(E) /\ IsFiniteSet(E') /\ Cardinality(E) \in Nat /\ Cardinality(E') \in Nat
      /\ IsFiniteSet(D) /\ IsFiniteSet(D') /\ Cardinality(D) \in Nat /\ Cardinality(D') \in Nat
      /\ IsFiniteSet(T) /\ IsFiniteSet(T') /\ Cardinality(T) \in Nat /\ Cardinality(T') \in Nat
    BY Countable
<1>2. /\ CountOf(f) = Cardinality(E) + Cardinality(D) + Cardinality(T)
      /\ CountOf(f)' = Cardinality(E') + Cardinality(D') + Cardinality(T')
    BY DEF CountOf
<1>3. /\ More(E, E') => Cardinality(E') = Cardinality(E) + 1
      /\ More(E', E) => Cardinality(E) = Cardinality(E') + 1
      /\ More(D, D') => Cardinality(D') = Cardinality(D) + 1
      /\ More(D', D) => Cardinality(D) = Cardinality(D') + 1
      /\ More(T, T') => Cardinality(T') = Cardinality(T) + 1
      /\ More(T', T) => Cardinality(T) = Cardinality(T') + 1
    BY <1>1, MoreLemma
<1> HIDE DEF E, D, T
<1>4. /\ E' = E => Cardinality(E') = Cardinality(E)
      /\ D' = D => Cardinality(D') = Cardinality(D)
      /\ T' = T => Cardinality(T') = Cardinality(T)
    OBVIOUS
<1>5. /\ CountOf(f) \in Nat /\ CountOf(f)' \in Nat
      /\ E' = E /\ D' = D /\ T' = T => CountOf(f)' = CountOf(f)
      /\ More(E, E') /\ D' = D /\ T' = T => CountOf(f)' = CountOf(f) + 1
      /\ E' = E /\ More(D, D') /\ T' = T => CountOf(f)' = CountOf(f) + 1
      /\ E' = E /\ D' = D /\ More(T, T') => CountOf(f)' = CountOf(f) + 1
      /\ More(E', E) /\ D' = D /\ T' = T => CountOf(f) = CountOf(f)' + 1
      /\ E' = E /\ More(D', D) /\ T' = T => CountOf(f) = CountOf(f)' + 1
      /\ E' = E /\ D' = D /\ More(T', T) => CountOf(f) = CountOf(f)' + 1
    BY <1>1, <1>2, <1>3, <1>4
<1> QED
    BY <1>5 DEF E, D, T

(* What it means that a frame is free.                                     *)
Uses(p, f) ==
    \/ dir[p] = f
    \/ tab[p] = f
    \/ op[p].frame = f
    \/ \E v \in VPages : pte[p][v].frame = f

LEMMA HeldLemma ==
    ASSUME NEW p \in Pids, NEW f \in Frames
    PROVE  /\ f \in Held(p) <=> Uses(p, f)
           /\ f \in Held(p)' <=> Uses(p, f)'
<1>1. f # None
    BY PagingConstants
<1> QED
    BY <1>1 DEF Held, Uses, FramesOf, Mapped

LEMMA FreeLemma ==
    ASSUME TypeOK
    PROVE  NoDanglingMap /\ NoFrameLost
               <=> \A f \in Frames : f \in free <=> \A p \in Pids : ~ Uses(p, f)
<1>1. free \subseteq Frames
    BY DEF TypeOK
<1>2. ASSUME NoDanglingMap, NoFrameLost, NEW f \in Frames
      PROVE  f \in free <=> \A p \in Pids : ~ Uses(p, f)
    BY <1>2, HeldLemma DEF NoDanglingMap, NoFrameLost
<1>3. ASSUME \A f \in Frames : f \in free <=> \A p \in Pids : ~ Uses(p, f)
      PROVE  NoDanglingMap /\ NoFrameLost
    BY <1>1, <1>3, HeldLemma DEF NoDanglingMap, NoFrameLost
<1> QED
    BY <1>2, <1>3

LEMMA FreeLemmaNext ==
    ASSUME TypeOK', \A f \in Frames : f \in free' <=> \A p \in Pids : ~ Uses(p, f)'
    PROVE  (NoDanglingMap /\ NoFrameLost)'
<1>1. free' \subseteq Frames
    BY DEF TypeOK
<1> QED
    BY <1>1, HeldLemma DEF NoDanglingMap, NoFrameLost

(* The frame that MM_AllocPhys() returns is used by nobody and not counted.*)
LEMMA GrabFree ==
    ASSUME PagingInv, free # {}
    PROVE  /\ Grab(free) \in free /\ Grab(free) \in Frames /\ Grab(free) # None
           /\ \A p \in Pids : ~ Uses(p, Grab(free))
           /\ Entries(Grab(free)) = {} /\ Dirs(Grab(free)) = {} /\ Tabs(Grab(free)) = {}
           /\ ref[Grab(free)] = 0
<1> DEFINE g == Grab(free)
<1>1. g \in free /\ g \in Frames /\ g # None
    BY GrabLemma, PagingConstants DEF PagingInv, TypeOK
<1> HIDE DEF g
<1>2. \A p \in Pids : ~ Uses(p, g)
    BY <1>1, FreeLemma DEF PagingInv, FramesExact
<1>3. Entries(g) = {} /\ Dirs(g) = {} /\ Tabs(g) = {}
  <2>1. \A p \in Pids, v \in VPages : ~ Counts(p, v, g)
      BY <1>2 DEF Uses, Counts
  <2>2. Entries(g) = {}
      BY <2>1 DEF Entries
  <2> QED
      BY <2>2, <1>2 DEF Dirs, Tabs, Uses
<1>4. ref[g] = 0
    BY <1>1, <1>3, CountZero
<1> QED
    BY <1>1, <1>2, <1>3, <1>4 DEF g

(* What is free, as a fact about the invariant.                            *)
LEMMA FreeFacts ==
    ASSUME PagingInv
    PROVE  \A f \in Frames : /\ f # None
                             /\ f \in free <=> \A p \in Pids : ~ Uses(p, f)
                             /\ ref[f] = CountOf(f)
    BY FreeLemma, CountLemma, PagingConstants DEF PagingInv, FramesExact

(* A frame that is counted is used.                                        *)
LEMMA CountedUsed ==
    ASSUME NEW f
    PROVE  /\ CountOf(f) # 0 => \E p \in Pids : Uses(p, f)
           /\ CountOf(f)' # 0 => \E p \in Pids : Uses(p, f)'
<1>1. ASSUME \A p \in Pids : ~ Uses(p, f)
      PROVE  CountOf(f) = 0
  <2>1. \A p \in Pids, v \in VPages : ~ Counts(p, v, f)
      BY <1>1 DEF Uses, Counts
  <2>2. Entries(f) = {} /\ Dirs(f) = {} /\ Tabs(f) = {}
      BY <1>1, <2>1 DEF Entries, Dirs, Tabs, Uses
  <2> QED
      BY <2>2, FS_EmptySet DEF CountOf
<1>2. ASSUME \A p \in Pids : ~ Uses(p, f)'
      PROVE  CountOf(f)' = 0
  <2>1. \A p \in Pids, v \in VPages : ~ Counts(p, v, f)'
      BY <1>2 DEF Uses, Counts
  <2>2. Entries(f)' = {} /\ Dirs(f)' = {} /\ Tabs(f)' = {}
      BY <1>2, <2>1 DEF Entries, Dirs, Tabs, Uses
  <2> QED
      BY <2>2, FS_EmptySet DEF CountOf
<1> QED
    BY <1>1, <1>2

LEMMA Uncounted ==
    ASSUME NEW f
    PROVE  /\ CountOf(f) = 0 => Entries(f) = {} /\ Dirs(f) = {} /\ Tabs(f) = {}
           /\ CountOf(f)' = 0 => Entries(f)' = {} /\ Dirs(f)' = {} /\ Tabs(f)' = {}
<1>1. ASSUME NEW E, NEW D, NEW T, IsFiniteSet(E), IsFiniteSet(D), IsFiniteSet(T),
             Cardinality(E) + Cardinality(D) + Cardinality(T) = 0
      PROVE  E = {} /\ D = {} /\ T = {}
  <2>1. Cardinality(E) \in Nat /\ Cardinality(D) \in Nat /\ Cardinality(T) \in Nat
      BY <1>1, FS_CardinalityType
  <2>2. Cardinality(E) = 0 /\ Cardinality(D) = 0 /\ Cardinality(T) = 0
      BY <1>1, <2>1
  <2> QED
      BY <1>1, <2>2, FS_EmptySet
<1> QED
    BY <1>1, Countable DEF CountOf

(* What mm_alloc() and MM_Clear() are working on is no directory and table.*)
LEMMA OpFrames ==
    ASSUME PagingInv, NEW p \in Pids, NEW q \in Pids, op[p].frame # None
    PROVE  op[p].frame # dir[q] /\ op[p].frame # tab[q]
<1>1. op[p].pc \in {"frame", "drop"}
    BY DEF PagingInv, TypeOK, Ops, Living
<1>2. CASE op[p].pc = "frame"
    BY <1>2 DEF PagingInv, Taking
<1>3. CASE op[p].pc = "drop"
  <2>1. op[p].page \in VPages /\ op[p].frame = pte[p][op[p].page].frame
      BY <1>3 DEF PagingInv, Dropping
  <2> QED
      BY <2>1 DEF PagingInv, Distinct
<1> QED
    BY <1>1, <1>2, <1>3

LEMMA EntryLemma ==
    ASSUME NEW p \in Pids, NEW v \in VPages, NEW f
    PROVE  /\ <<p, v>> \in Entries(f) <=> Counts(p, v, f)
           /\ <<p, v>> \in Entries(f)' <=> Counts(p, v, f)'
    BY DEF Entries

(* One entry more or less, in terms of pages.                              *)
Elsewhere(p, v, f) ==
    \A q \in Pids, w \in VPages : ~ (q = p /\ w = v) => (Counts(q, w, f)' <=> Counts(q, w, f))

LEMMA MoreEntries ==
    ASSUME NEW p \in Pids, NEW v \in VPages, NEW f, Elsewhere(p, v, f)
    PROVE  /\ ~ Counts(p, v, f) /\ Counts(p, v, f)' => More(Entries(f), Entries(f)')
           /\ Counts(p, v, f) /\ ~ Counts(p, v, f)' => More(Entries(f)', Entries(f))
           /\ (Counts(p, v, f) <=> Counts(p, v, f)') => Entries(f)' = Entries(f)
<1>1. \A e \in Pids \X VPages :
          e # <<p, v>> => (Counts(e[1], e[2], f)' <=> Counts(e[1], e[2], f))
    BY DEF Elsewhere
<1>2. ASSUME ~ Counts(p, v, f), Counts(p, v, f)'
      PROVE  More(Entries(f), Entries(f)')
  <2>1. <<p, v>> \notin Entries(f) /\ Entries(f)' = Entries(f) \cup {<<p, v>>}
      BY <1>1, <1>2 DEF Entries
  <2> QED
      BY <2>1 DEF More
<1>3. ASSUME Counts(p, v, f), ~ Counts(p, v, f)'
      PROVE  More(Entries(f)', Entries(f))
  <2>1. <<p, v>> \notin Entries(f)' /\ Entries(f) = Entries(f)' \cup {<<p, v>>}
      BY <1>1, <1>3 DEF Entries
  <2> QED
      BY <2>1 DEF More
<1>4. ASSUME Counts(p, v, f) <=> Counts(p, v, f)'
      PROVE  Entries(f)' = Entries(f)
  <2>1. \A e \in Pids \X VPages : Counts(e[1], e[2], f)' <=> Counts(e[1], e[2], f)
      BY <1>1, <1>4
  <2> QED
      BY <2>1 DEF Entries
<1> QED
    BY <1>2, <1>3, <1>4

(* A frame with one reference has no two pages.                            *)
LEMMA OneEntry ==
    ASSUME PagingInv, NEW f \in Frames, ref[f] =< 1, NEW a \in Entries(f), NEW b \in Entries(f)
    PROVE  a = b
<1>1. SUFFICES ASSUME a # b PROVE FALSE
    OBVIOUS
<1>2. /\ IsFiniteSet(Entries(f)) /\ Cardinality(Entries(f)) \in Nat
      /\ Cardinality(Dirs(f)) \in Nat /\ Cardinality(Tabs(f)) \in Nat
    BY Countable
<1>3. /\ Cardinality(Entries(f)) = Cardinality(Entries(f) \ {a}) + 1
      /\ IsFiniteSet(Entries(f) \ {a}) /\ Cardinality(Entries(f) \ {a}) \in Nat
    BY <1>2, OneLess
<1>4. b \in Entries(f) \ {a}
    BY <1>1
<1>5. Cardinality(Entries(f) \ {a}) # 0
    BY <1>3, <1>4, FS_EmptySet
<1>6. ref[f] = Cardinality(Entries(f)) + Cardinality(Dirs(f)) + Cardinality(Tabs(f))
    BY FreeFacts DEF CountOf
<1> QED
    BY <1>2, <1>3, <1>5, <1>6

(* A page that is mapped is counted, and if it is the only reference to its*)
(* frame nobody else uses it.                                              *)
LEMMA LastUser ==
    ASSUME PagingInv, NEW p \in Pids, NEW v \in VPages, NEW f \in Frames,
           Undisturbed(p), op[p].pc # "drop", pte[p][v].frame = f
    PROVE  /\ Counts(p, v, f)
           /\ ref[f] \in Nat /\ ref[f] # 0
           /\ \A q \in Pids : op[q].frame # f /\ dir[q] # f /\ tab[q] # f
           /\ ref[f] =< 1 => \A q \in Pids, w \in VPages : pte[q][w].frame = f => q = p /\ w = v
<1>1. \A q \in Pids : op[q].pc # "drop"
    BY DEF Undisturbed
<1>2. \A q \in Pids, w \in VPages : pte[q][w].frame = f => Counts(q, w, f)
    BY <1>1 DEF Counts
<1>3. f # None
    BY PagingConstants
<1>4. ref[f] \in Nat /\ ref[f] # 0
  <2>1. Entries(f) # {}
      BY <1>2, EntryLemma
  <2> QED
      BY <2>1, CountZero DEF PagingInv, TypeOK
<1>5. \A q \in Pids : op[q].frame # f
  <2>1. \A q \in Pids : op[q].pc \in {"run", "table", "frame", "clear"}
      BY <1>1 DEF PagingInv, TypeOK, Ops
  <2> QED
      BY <1>3, <2>1 DEF PagingInv, Living, Taking
<1>6. \A q \in Pids : dir[q] # f /\ tab[q] # f
    BY <1>3 DEF PagingInv, Distinct
<1>7. ASSUME ref[f] =< 1, NEW q \in Pids, NEW w \in VPages, pte[q][w].frame = f
      PROVE  q = p /\ w = v
  <2>1. <<p, v>> \in Entries(f) /\ <<q, w>> \in Entries(f)
      BY <1>2, <1>7, EntryLemma
  <2>2. <<p, v>> = <<q, w>>
      BY <1>7, <2>1, OneEntry
  <2> QED
      BY <2>2
<1> QED
    BY <1>2, <1>4, <1>5, <1>6, <1>7

(* Running out of memory changes nothing but halted.                       *)
LEMMA HaltKeeps ==
    ASSUME PagingInv, Halt
    PROVE  PagingInv'
<1> USE DEF Halt
<1>1. TypeOK'
    BY DEF PagingInv, TypeOK
<1>2. NoDanglingMap' /\ NoFrameLost'
    BY DEF PagingInv, FramesExact, NoDanglingMap, NoFrameLost, Held, FramesOf, Mapped
<1>3. RefCountsExact' /\ WritableIsPrivate'
    BY DEF PagingInv, FramesExact, RefCountsExact, Entries, Counts, WritableIsPrivate, Mapped
<1>4. Distinct' /\ Living' /\ Taking' /\ Dropping' /\ Filled'
    BY DEF PagingInv, Distinct, Living, Alive, Taking, Dropping, Undisturbed, Filled
<1> QED
    BY <1>1, <1>2, <1>3, <1>4 DEF PagingInv, FramesExact

-----------------------------------------------------------------------------
(* mm_alloc()                                                              *)
LEMMA AllocTableKeeps ==
    ASSUME PagingInv, NEW p \in Pids, NEW v \in VPages, AllocTable(p, v)
    PROVE  PagingInv'
<1> DEFINE g == Grab(free)
<1>0. CASE free = {}
    BY <1>0, HaltKeeps DEF AllocTable
<1>a. SUFFICES ASSUME free # {} PROVE PagingInv'
    BY <1>0
<1>1. /\ ~ halted /\ dir[p] # None /\ op[p].pc = "run" /\ tab[p] = None
      /\ free' = free \ {g}
      /\ ref' = [ref EXCEPT ![g] = @ + 1]
      /\ tab' = [tab EXCEPT ![p] = g]
      /\ op' = [op EXCEPT ![p] = [pc |-> "table", page |-> v, frame |-> None]]
      /\ dir' = dir /\ pte' = pte /\ content' = content /\ halted' = halted
    BY <1>a DEF AllocTable, Runs, Alive
<1>2. /\ g \in free /\ g \in Frames /\ g # None
      /\ \A q \in Pids : ~ Uses(q, g)
    BY <1>a, GrabFree
<1> HIDE DEF g
<1>3. TypeOK'
    BY <1>1, <1>2 DEF PagingInv, TypeOK, Ops
<1>4. \A q \in Pids, f \in Frames : Uses(q, f)' <=> Uses(q, f) \/ (q = p /\ f = g)
    BY <1>1, <1>2, FreeFacts DEF PagingInv, TypeOK, Ops, Living, Uses
<1>5. (NoDanglingMap /\ NoFrameLost)'
    BY <1>1, <1>2, <1>3, <1>4, FreeFacts, FreeLemmaNext
<1>6. RefCountsExact'
  <2> SUFFICES ASSUME NEW f \in Frames PROVE ref'[f] = CountOf(f)'
      BY CountLemma
  <2>1. ref[f] = CountOf(f) /\ f # None
      BY FreeFacts
  <2>2. Entries(f)' = Entries(f)
    <3>1. \A q \in Pids, w \in VPages : Counts(q, w, f)' <=> Counts(q, w, f)
        BY <1>1 DEF PagingInv, TypeOK, Counts
    <3> QED
        BY <3>1 DEF Entries
  <2>3. Dirs(f)' = Dirs(f)
      BY <1>1 DEF Dirs
  <2>4. CASE f = g
    <3>1. p \notin Tabs(f) /\ Tabs(f)' = Tabs(f) \cup {p}
        BY <1>1, <1>2, <2>1, <2>4 DEF PagingInv, TypeOK, Tabs
    <3>2. CountOf(f)' = CountOf(f) + 1
        BY <2>2, <2>3, <3>1, Recount DEF More
    <3> QED
        BY <1>1, <1>2, <2>1, <2>4, <3>2 DEF PagingInv, TypeOK
  <2>5. CASE f # g
    <3>1. Tabs(f)' = Tabs(f)
        BY <1>1, <1>2, <2>1, <2>5 DEF PagingInv, TypeOK, Tabs
    <3>2. CountOf(f)' = CountOf(f)
        BY <2>2, <2>3, <3>1, Recount
    <3> QED
        BY <1>1, <1>2, <2>1, <2>5, <3>2 DEF PagingInv, TypeOK
  <2> QED
      BY <2>4, <2>5
<1>7. WritableIsPrivate'
    BY <1>1 DEF PagingInv, FramesExact, WritableIsPrivate, Mapped
<1>8. Distinct'
    BY <1>1, <1>2 DEF PagingInv, TypeOK, Distinct, Uses
<1>9. Living'
    BY <1>1, <1>2 DEF PagingInv, TypeOK, Living, Alive
<1>10. Taking'
    BY <1>1, <1>2 DEF PagingInv, TypeOK, Taking, Uses
<1>11. Dropping' /\ Filled'
    BY <1>1 DEF PagingInv, TypeOK, Dropping, Undisturbed, Filled
<1> QED
    BY <1>3, <1>5, <1>6, <1>7, <1>8, <1>9, <1>10, <1>11 DEF PagingInv, FramesExact

LEMMA AllocFrameKeeps ==
    ASSUME PagingInv, NEW p \in Pids, NEW v \in VPages, AllocFrame(p, v)
    PROVE  PagingInv'
<1> DEFINE g == Grab(free)
<1>0. CASE free = {}
    BY <1>0, HaltKeeps DEF AllocFrame
<1>a. SUFFICES ASSUME free # {} PROVE PagingInv'
    BY <1>0
<1>1. /\ tab[p] # None /\ op[p].pc \in {"run", "table"} /\ pte[p][v] = Absent
      /\ free' = free \ {g}
      /\ op' = [op EXCEPT ![p] = [pc |-> "frame", page |-> v, frame |-> g]]
      /\ ref' = ref /\ dir' = dir /\ tab' = tab /\ pte' = pte
      /\ content' = content /\ halted' = halted
    BY <1>a DEF AllocFrame, Runs
<1>2. /\ g \in free /\ g \in Frames /\ g # None
      /\ \A q \in Pids : ~ Uses(q, g)
    BY <1>a, GrabFree
<1> HIDE DEF g
<1>3. TypeOK'
    BY <1>1, <1>2 DEF PagingInv, TypeOK, Ops
<1>4. \A q \in Pids, f \in Frames : Uses(q, f)' <=> Uses(q, f) \/ (q = p /\ f = g)
    BY <1>1, <1>2, FreeFacts DEF PagingInv, TypeOK, Ops, Living, Uses
<1>5. (NoDanglingMap /\ NoFrameLost)'
    BY <1>1, <1>2, <1>3, <1>4, FreeFacts, FreeLemmaNext
<1>6. RefCountsExact'
  <2> SUFFICES ASSUME NEW f \in Frames PROVE ref'[f] = CountOf(f)'
      BY CountLemma
  <2>1. \A q \in Pids, w \in VPages : Counts(q, w, f)' <=> Counts(q, w, f)
      BY <1>1 DEF PagingInv, TypeOK, Counts
  <2>2. Entries(f)' = Entries(f) /\ Dirs(f)' = Dirs(f) /\ Tabs(f)' = Tabs(f)
      BY <1>1, <2>1 DEF Entries, Dirs, Tabs
  <2> QED
      BY <1>1, <2>2, Recount, FreeFacts
<1>7. WritableIsPrivate'
    BY <1>1 DEF PagingInv, FramesExact, WritableIsPrivate, Mapped
<1>8. Distinct' /\ Filled'
    BY <1>1 DEF PagingInv, Distinct, Filled
<1>9. Living'
    BY <1>1, <1>2 DEF PagingInv, TypeOK, Living, Alive
<1>10. Taking'
    BY <1>1, <1>2 DEF PagingInv, TypeOK, Taking, Uses
<1>11. Dropping'
    BY <1>1 DEF PagingInv, TypeOK, Dropping, Undisturbed
<1> QED
    BY <1>3, <1>5, <1>6, <1>7, <1>8, <1>9, <1>10, <1>11 DEF PagingInv, FramesExact

LEMMA AllocMapKeeps ==
    ASSUME PagingInv, NEW p \in Pids, AllocMap(p)
    PROVE  PagingInv'
<1> DEFINE g == op[p].frame
           v == op[p].page
<1>1. PICK x \in Values : content' = [content EXCEPT ![g] = x]
    BY DEF AllocMap
<1>2. /\ op[p].pc = "frame"
      /\ ref' = [ref EXCEPT ![g] = @ + 1]
      /\ pte' = [pte EXCEPT ![p][v] = [frame |-> g, mode |-> "write"]]
      /\ op' = [op EXCEPT ![p] = Running]
      /\ free' = free /\ dir' = dir /\ tab' = tab /\ halted' = halted
    BY DEF AllocMap
<1>3. /\ v \in VPages /\ g \in Frames /\ g # None /\ x # None /\ pte[p][v] = Absent
      /\ \A q \in Pids :
             /\ g # dir[q] /\ g # tab[q]
             /\ \A w \in VPages : g # pte[q][w].frame
             /\ op[q].pc = "frame" /\ op[q].frame = g => p = q
    BY <1>2, PagingConstants DEF PagingInv, TypeOK, Ops, Taking
<1> HIDE DEF g, v
<1>4. TypeOK'
    BY <1>1, <1>2, <1>3 DEF PagingInv, TypeOK, Ops, Running, Entry
<1>5. \A q \in Pids, w \in VPages :
          pte'[q][w] = IF q = p /\ w = v THEN [frame |-> g, mode |-> "write"] ELSE pte[q][w]
    BY <1>2, <1>3 DEF PagingInv, TypeOK
<1>6. \A q \in Pids : op'[q] = IF q = p THEN Running ELSE op[q]
    BY <1>2 DEF PagingInv, TypeOK
<1>7. (NoDanglingMap /\ NoFrameLost)'
  <2>1. ASSUME NEW q \in Pids, NEW f \in Frames
        PROVE  Uses(q, f)' <=> Uses(q, f)
    <3>1. f # None
        BY PagingConstants
    <3> QED
        BY <1>2, <1>3, <1>5, <1>6, <3>1 DEF Uses, Running, Absent, g
  <2> QED
      BY <1>2, <1>4, <2>1, FreeFacts, FreeLemmaNext
<1>8. RefCountsExact'
  <2> SUFFICES ASSUME NEW f \in Frames PROVE ref'[f] = CountOf(f)'
      BY CountLemma
  <2>1. ref[f] = CountOf(f) /\ f # None
      BY FreeFacts
  <2>2. Dirs(f)' = Dirs(f) /\ Tabs(f)' = Tabs(f)
      BY <1>2 DEF Dirs, Tabs
  <2>3. \A q \in Pids, w \in VPages :
            Counts(q, w, f)' <=> Counts(q, w, f) \/ (q = p /\ w = v /\ f = g)
      BY <1>2, <1>3, <1>5, <1>6, <2>1 DEF Counts, Running, Absent
  <2>4. CASE f = g
    <3>1. <<p, v>> \notin Entries(f) /\ Entries(f)' = Entries(f) \cup {<<p, v>>}
      <4>1. \A e \in Pids \X VPages :
                Counts(e[1], e[2], f)' <=> Counts(e[1], e[2], f) \/ e = <<p, v>>
          BY <2>3, <2>4
      <4>2. ~ Counts(p, v, f)
          BY <1>3, <2>4 DEF Counts
      <4> QED
          BY <1>3, <4>1, <4>2 DEF Entries
    <3>2. CountOf(f)' = CountOf(f) + 1
      <4>1. More(Entries(f), Entries(f)')
          BY <3>1 DEF More
      <4> QED
          BY <2>2, <4>1, Recount
    <3> QED
        BY <1>2, <1>3, <2>1, <2>4, <3>2 DEF PagingInv, TypeOK
  <2>5. CASE f # g
    <3>1. Entries(f)' = Entries(f)
        BY <2>3, <2>5 DEF Entries
    <3>2. CountOf(f)' = CountOf(f)
        BY <2>2, <3>1, Recount
    <3> QED
        BY <1>2, <1>3, <2>1, <2>5, <3>2 DEF PagingInv, TypeOK
  <2> QED
      BY <2>4, <2>5
<1>9. WritableIsPrivate'
    BY <1>3, <1>5 DEF PagingInv, FramesExact, WritableIsPrivate, Mapped
<1>10. Distinct'
    BY <1>2, <1>3, <1>5 DEF PagingInv, Distinct
<1>11. Living'
    BY <1>2, <1>3, <1>5, <1>6 DEF PagingInv, Living, Alive, Running
<1>12. Taking'
    BY <1>2, <1>3, <1>5, <1>6 DEF PagingInv, Taking, Running
<1>13. Dropping'
    BY <1>2, <1>3, <1>5, <1>6 DEF PagingInv, Dropping, Undisturbed, Running
<1>14. Filled'
  <2>1. \A q \in Pids, w \in VPages :
            pte[q][w].frame # None => pte[q][w].frame \in Frames /\ pte[q][w].frame # g
      BY <1>3 DEF PagingInv, TypeOK, Entry
  <2>2. \A f \in Frames : content'[f] = IF f = g THEN x ELSE content[f]
      BY <1>1, <1>3 DEF PagingInv, TypeOK
  <2> QED
      BY <1>3, <1>5, <2>1, <2>2 DEF PagingInv, Filled
<1> QED
    BY <1>4, <1>7, <1>8, <1>9, <1>10, <1>11, <1>12, <1>13, <1>14 DEF PagingInv, FramesExact

-----------------------------------------------------------------------------
(* User code and the kernel on its behalf, and MM_PageFault()              *)
LEMMA StoreKeeps ==
    ASSUME PagingInv, NEW p \in Pids, NEW v \in VPages, NEW x \in Values,
           Store(p, v, x) \/ KernelStore(p, v, x)
    PROVE  PagingInv'
<1>1. /\ pte[p][v].frame # None
      /\ content' = [content EXCEPT ![pte[p][v].frame] = x]
      /\ free' = free /\ ref' = ref /\ dir' = dir /\ tab' = tab /\ pte' = pte
      /\ op' = op /\ halted' = halted
    BY DEF Store, KernelStore, Mapped
<1>2. TypeOK'
    BY <1>1 DEF PagingInv, TypeOK
<1>3. (NoDanglingMap /\ NoFrameLost)'
    BY <1>1 DEF PagingInv, FramesExact, NoDanglingMap, NoFrameLost, Held, FramesOf, Mapped
<1>4. RefCountsExact' /\ WritableIsPrivate'
    BY <1>1 DEF PagingInv, FramesExact, RefCountsExact, Entries, Counts, WritableIsPrivate, Mapped
<1>5. Distinct' /\ Living' /\ Taking' /\ Dropping'
    BY <1>1 DEF PagingInv, Distinct, Living, Alive, Taking, Dropping, Undisturbed
<1>6. Filled'
  <2>1. x # None
      BY PagingConstants
  <2>2. \A f : f \in Frames => content'[f] = x \/ content'[f] = content[f]
      BY <1>1 DEF PagingInv, TypeOK
  <2>3. \A q \in Pids, w \in VPages : pte[q][w].frame # None => pte[q][w].frame \in Frames
      BY DEF PagingInv, TypeOK, Entry
  <2> QED
      BY <1>1, <2>1, <2>2, <2>3 DEF PagingInv, Filled
<1> QED
    BY <1>2, <1>3, <1>4, <1>5, <1>6 DEF PagingInv, FramesExact

LEMMA PageFaultKeeps ==
    ASSUME PagingInv, NEW p \in Pids, NEW v \in VPages, Undisturbed(p), PageFault(p, v)
    PROVE  PagingInv'
<1> DEFINE f == pte[p][v].frame
           g == Grab(free)
<1>1. op[p].pc = "run" /\ f # None /\ pte[p][v].mode = "cow"
    BY DEF PageFault, Runs, Mapped
<1>2. f \in Frames
    BY <1>1 DEF PagingInv, TypeOK, Entry
<1>3. /\ Counts(p, v, f)
      /\ ref[f] \in Nat /\ ref[f] # 0
      /\ \A q \in Pids : op[q].frame # f /\ dir[q] # f /\ tab[q] # f
      /\ ref[f] =< 1 => \A q \in Pids, w \in VPages : pte[q][w].frame = f => q = p /\ w = v
    BY <1>1, <1>2, LastUser
<1>4. CASE Shared(f) /\ free = {}
    BY <1>4, HaltKeeps DEF PageFault
<1>5. CASE Shared(f) /\ free # {}
  <2>1. /\ free' = free \ {g}
        /\ content' = [content EXCEPT ![g] = content[f]]
        /\ ref' = [ref EXCEPT ![g] = @ + 1, ![f] = @ - 1]
        /\ pte' = [pte EXCEPT ![p][v] = [frame |-> g, mode |-> "write"]]
        /\ dir' = dir /\ tab' = tab /\ op' = op /\ halted' = halted
        /\ ref[f] > 1
      BY <1>5 DEF PageFault, Shared
  <2>2. /\ g \in free /\ g \in Frames /\ g # None
        /\ \A q \in Pids : ~ Uses(q, g)
      BY <1>5, GrabFree
  <2> HIDE DEF g
  <2>3. g # f
      BY <2>2 DEF Uses
  <2>4. \A q \in Pids, w \in VPages :
            pte'[q][w] = IF q = p /\ w = v THEN [frame |-> g, mode |-> "write"] ELSE pte[q][w]
      BY <2>1 DEF PagingInv, TypeOK
  <2>5. TypeOK'
    <3>1. pte' \in [Pids -> [VPages -> Entry]]
        BY <2>1, <2>2 DEF PagingInv, TypeOK, Entry
    <3>2. ref' \in [Frames -> Nat]
        BY <1>2, <2>1, <2>2, <2>3 DEF PagingInv, TypeOK
    <3> QED
        BY <1>2, <2>1, <2>2, <3>1, <3>2 DEF PagingInv, TypeOK
  <2>6. RefCountsExact'
    <3> SUFFICES ASSUME NEW h \in Frames PROVE ref'[h] = CountOf(h)'
        BY CountLemma
    <3>1. ref[h] = CountOf(h) /\ h # None
        BY FreeFacts
    <3>2. Dirs(h)' = Dirs(h) /\ Tabs(h)' = Tabs(h)
        BY <2>1 DEF Dirs, Tabs
    <3>3. \A q \in Pids, w \in VPages :
              Counts(q, w, h)' <=> IF q = p /\ w = v THEN h = g ELSE Counts(q, w, h)
        BY <1>1, <2>1, <2>4 DEF Counts
    <3>a. Elsewhere(p, v, h)
        BY <3>3 DEF Elsewhere
    <3>4. CASE h = g
      <4>1. ~ Counts(p, v, h)
          BY <2>2, <3>4 DEF Counts, Uses
      <4>2. CountOf(h)' = CountOf(h) + 1
          BY <3>2, <3>3, <3>4, <3>a, <4>1, MoreEntries, Recount
      <4> QED
          BY <1>2, <2>1, <2>2, <2>3, <3>1, <3>4, <4>2 DEF PagingInv, TypeOK
    <3>5. CASE h = f
      <4>1. CountOf(h) = CountOf(h)' + 1
          BY <1>3, <2>3, <3>2, <3>3, <3>5, <3>a, MoreEntries, Recount
      <4> QED
          BY <1>2, <2>1, <2>2, <2>3, <3>1, <3>5, <4>1, Recount DEF PagingInv, TypeOK
    <3>6. CASE h # f /\ h # g
      <4>1. ~ Counts(p, v, h)
          BY <3>6 DEF Counts
      <4>2. CountOf(h)' = CountOf(h)
          BY <3>2, <3>3, <3>6, <3>a, <4>1, MoreEntries, Recount
      <4> QED
          BY <1>2, <2>1, <2>2, <3>1, <3>6, <4>2 DEF PagingInv, TypeOK
    <3> QED
        BY <3>4, <3>5, <3>6
  <2>7. (NoDanglingMap /\ NoFrameLost)'
    <3> SUFFICES ASSUME NEW h \in Frames
                 PROVE  h \in free' <=> \A q \in Pids : ~ Uses(q, h)'
        BY <2>5, FreeLemmaNext
    <3>1. h # None /\ (h \in free <=> \A q \in Pids : ~ Uses(q, h))
        BY FreeFacts
    <3>2. CASE h = g
        BY <2>1, <2>4, <3>2 DEF Uses
    <3>3. CASE h = f
      <4>1. CountOf(h)' # 0
          BY <1>2, <2>1, <2>2, <2>3, <2>6, <3>3, CountLemma DEF PagingInv, TypeOK
      <4>2. \E q \in Pids : Uses(q, h)'
          BY <4>1, CountedUsed
      <4>3. h \notin free
          BY <3>1, <3>3 DEF Uses
      <4> QED
          BY <2>1, <4>2, <4>3
    <3>4. CASE h # f /\ h # g
      <4>1. \A q \in Pids : Uses(q, h)' <=> Uses(q, h)
          BY <2>1, <2>4, <3>4 DEF Uses
      <4> QED
          BY <2>1, <3>1, <3>4, <4>1
    <3> QED
        BY <3>2, <3>3, <3>4
  <2>8. WritableIsPrivate'
      BY <2>2, <2>4 DEF PagingInv, FramesExact, WritableIsPrivate, Mapped, Uses
  <2>9. Distinct'
      BY <2>1, <2>2, <2>4 DEF PagingInv, Distinct, Uses
  <2>10. Living'
      BY <1>1, <2>1, <2>2, <2>4 DEF PagingInv, Living, Alive
  <2>11. Taking'
      BY <1>1, <2>1, <2>2, <2>4 DEF PagingInv, Taking, Uses
  <2>12. Dropping'
      BY <1>1, <2>1, <2>4 DEF PagingInv, Dropping, Undisturbed
  <2>13. Filled'
    <3>1. \A q \in Pids, w \in VPages :
              pte[q][w].frame # None => pte[q][w].frame \in Frames /\ pte[q][w].frame # g
        BY <2>2 DEF PagingInv, TypeOK, Entry, Uses
    <3>2. \A h \in Frames : content'[h] = IF h = g THEN content[f] ELSE content[h]
        BY <2>1, <2>2 DEF PagingInv, TypeOK
    <3> QED
        BY <1>1, <2>2, <2>4, <3>1, <3>2 DEF PagingInv, Filled
  <2> QED
      BY <2>5, <2>6, <2>7, <2>8, <2>9, <2>10, <2>11, <2>12, <2>13 DEF PagingInv, FramesExact
<1>6. CASE ~ Shared(f)
  <2>1. /\ pte' = [pte EXCEPT ![p][v].mode = "write"]
        /\ free' = free /\ ref' = ref /\ dir' = dir /\ tab' = tab
        /\ content' = content /\ op' = op /\ halted' = halted
      BY <1>6 DEF PageFault
  <2>2. \A q \in Pids, w \in VPages :
            pte'[q][w] = IF q = p /\ w = v THEN [frame |-> f, mode |-> "write"] ELSE pte[q][w]
      BY <2>1 DEF PagingInv, TypeOK, Entry
  <2>3. \A q \in Pids, w \in VPages : pte'[q][w].frame = pte[q][w].frame
      BY <2>2
  <2>4. \A q \in Pids, w \in VPages : pte[q][w].frame = f => q = p /\ w = v
      BY <1>3, <1>6 DEF Shared
  <2>5. TypeOK'
    <3>1. pte' \in [Pids -> [VPages -> Entry]]
        BY <2>1 DEF PagingInv, TypeOK, Entry
    <3> QED
        BY <2>1, <3>1 DEF PagingInv, TypeOK
  <2>6. \A q \in Pids, h \in Frames : Uses(q, h)' <=> Uses(q, h)
      BY <2>1, <2>3 DEF Uses
  <2>7. (NoDanglingMap /\ NoFrameLost)'
      BY <2>1, <2>5, <2>6, FreeFacts, FreeLemmaNext
  <2>8. RefCountsExact'
    <3> SUFFICES ASSUME NEW h \in Frames PROVE ref'[h] = CountOf(h)'
        BY CountLemma
    <3>1. \A q \in Pids, w \in VPages : Counts(q, w, h)' <=> Counts(q, w, h)
        BY <2>1, <2>3 DEF Counts
    <3>2. Entries(h)' = Entries(h) /\ Dirs(h)' = Dirs(h) /\ Tabs(h)' = Tabs(h)
        BY <2>1, <3>1 DEF Entries, Dirs, Tabs
    <3> QED
        BY <2>1, <3>2, Recount, FreeFacts
  <2>9. WritableIsPrivate'
      BY <2>2, <2>4 DEF PagingInv, FramesExact, WritableIsPrivate, Mapped
  <2>10. Distinct' /\ Living' /\ Filled'
      BY <2>1, <2>3 DEF PagingInv, Distinct, Living, Alive, Filled
  <2>11. Taking'
      BY <1>1, <2>1, <2>2 DEF PagingInv, Taking
  <2>12. Dropping'
      BY <2>1, <2>3 DEF PagingInv, Dropping, Undisturbed
  <2> QED
      BY <2>5, <2>7, <2>8, <2>9, <2>10, <2>11, <2>12 DEF PagingInv, FramesExact
<1> QED
    BY <1>4, <1>5, <1>6

-----------------------------------------------------------------------------
(* Giving memory back                                                      *)
LEMMA ClearDerefKeeps ==
    ASSUME PagingInv, NEW p \in Pids, NEW v \in VPages, Undisturbed(p), ClearDeref(p, v)
    PROVE  PagingInv'
<1> DEFINE f == pte[p][v].frame
<1>1. /\ op[p].pc \in {"run", "clear"} /\ f # None /\ dir[p] # None
      /\ ref' = Dropped({f})
      /\ op' = [op EXCEPT ![p] = [pc |-> "drop", page |-> v, frame |-> f]]
      /\ free' = free /\ dir' = dir /\ tab' = tab /\ pte' = pte
      /\ content' = content /\ halted' = halted
  <2>1. op[p].pc \in {"run", "clear"}
      BY DEF ClearDeref, Runs
  <2>2. dir[p] # None
      BY DEF ClearDeref, Runs, Alive, PagingInv, Living
  <2> QED
      BY <2>1, <2>2 DEF ClearDeref, Mapped
<1>2. f \in Frames
    BY <1>1 DEF PagingInv, TypeOK, Entry
<1>3. /\ Counts(p, v, f) /\ ref[f] \in Nat /\ ref[f] # 0
      /\ \A q \in Pids : op[q].frame # f
    BY <1>1, <1>2, LastUser
<1> HIDE DEF f
<1>4. \A h \in Frames : ref'[h] = IF h = f THEN ref[h] - 1 ELSE ref[h]
    BY <1>1, <1>2, <1>3 DEF Dropped, Less
<1>5. TypeOK'
  <2>1. ref' \in [Frames -> Nat]
    <3>1. \A h \in Frames : ref[h] \in Nat
        BY DEF PagingInv, TypeOK
    <3>2. \A h \in Frames : (IF h \in {f} THEN Less(ref[h]) ELSE ref[h]) \in Nat
        BY <1>3, <3>1 DEF Less
    <3> QED
        BY <1>1, <3>2 DEF Dropped
  <2> QED
      BY <1>1, <1>2, <2>1 DEF PagingInv, TypeOK, Ops
<1>6. \A q \in Pids : op'[q] = IF q = p THEN [pc |-> "drop", page |-> v, frame |-> f] ELSE op[q]
    BY <1>1 DEF PagingInv, TypeOK
<1>7. (NoDanglingMap /\ NoFrameLost)'
  <2>1. op[p].frame = None
      BY <1>1 DEF PagingInv, Living
  <2>2. \A q \in Pids, h \in Frames : Uses(q, h)' <=> Uses(q, h)
      BY <1>1, <1>6, <2>1, FreeFacts DEF Uses, f
  <2> QED
      BY <1>1, <1>5, <2>2, FreeFacts, FreeLemmaNext
<1>8. RefCountsExact'
  <2> SUFFICES ASSUME NEW h \in Frames PROVE ref'[h] = CountOf(h)'
      BY CountLemma
  <2>1. ref[h] = CountOf(h)
      BY FreeFacts
  <2>2. Dirs(h)' = Dirs(h) /\ Tabs(h)' = Tabs(h)
      BY <1>1 DEF Dirs, Tabs
  <2>3. \A q \in Pids, w \in VPages :
            Counts(q, w, h)' <=> Counts(q, w, h) /\ ~ (q = p /\ w = v)
      BY <1>1, <1>6 DEF Counts
  <2>4. Elsewhere(p, v, h)
      BY <2>3 DEF Elsewhere
  <2>5. CASE h = f
    <3>1. CountOf(h) = CountOf(h)' + 1
        BY <1>3, <2>2, <2>3, <2>4, <2>5, MoreEntries, Recount
    <3> QED
        BY <1>4, <2>1, <2>5, <3>1, Recount
  <2>6. CASE h # f
    <3>1. ~ Counts(p, v, h)
        BY <2>6 DEF Counts, f
    <3>2. CountOf(h)' = CountOf(h)
        BY <2>2, <2>3, <2>4, <3>1, MoreEntries, Recount
    <3> QED
        BY <1>4, <2>1, <2>6, <3>2
  <2> QED
      BY <2>5, <2>6
<1>9. WritableIsPrivate'
    BY <1>1 DEF PagingInv, FramesExact, WritableIsPrivate, Mapped
<1>10. Distinct' /\ Filled'
    BY <1>1 DEF PagingInv, Distinct, Filled
<1>11. Living'
    BY <1>1, <1>6 DEF PagingInv, Living, Alive
<1>12. Taking'
    BY <1>1, <1>6 DEF PagingInv, Taking
<1>13. Dropping'
    BY <1>1, <1>6 DEF PagingInv, Dropping, Undisturbed, f
<1> QED
    BY <1>5, <1>7, <1>8, <1>9, <1>10, <1>11, <1>12, <1>13 DEF PagingInv, FramesExact

LEMMA ClearFreeKeeps ==
    ASSUME PagingInv, NEW p \in Pids, ClearFree(p)
    PROVE  PagingInv'
<1> DEFINE f == op[p].frame
           v == op[p].page
           s == {f} \cap {h \in Frames : ref[h] = 0}
<1>1. /\ op[p].pc = "drop"
      /\ free' = free \cup s
      /\ content' = [h \in Frames |-> IF h \in s THEN None ELSE content[h]]
      /\ pte' = [pte EXCEPT ![p][v] = Absent]
      /\ op' = [op EXCEPT ![p] = [pc |-> "clear", page |-> None, frame |-> None]]
      /\ ref' = ref /\ dir' = dir /\ tab' = tab /\ halted' = halted
    BY DEF ClearFree, FreePhys
<1>2. /\ v \in VPages /\ f # None /\ f \in Frames /\ pte[p][v].frame = f
      /\ \A q \in Pids : q # p => op[q].pc # "drop"
      /\ \A q \in Pids : dir[q] # f /\ tab[q] # f
      /\ \A q \in Pids : q # p => op[q].frame # f
      /\ \A w \in VPages : pte[p][w].frame = f => w = v
  <2>1. v \in VPages /\ f # None /\ pte[p][v].frame = f /\ Undisturbed(p)
      BY <1>1 DEF PagingInv, Dropping
  <2>2. f \in Frames
      BY <2>1 DEF PagingInv, TypeOK, Ops
  <2>3. \A q \in Pids : q # p => op[q].pc # "drop"
      BY <2>1 DEF Undisturbed
  <2>4. \A q \in Pids : dir[q] # f /\ tab[q] # f
      BY <2>1 DEF PagingInv, Distinct
  <2>5. \A w \in VPages : pte[p][w].frame = f => w = v
      BY <2>1 DEF PagingInv, Distinct
  <2>6. ASSUME NEW q \in Pids, q # p
        PROVE  op[q].frame # f
    <3>1. op[q].pc \in {"run", "table", "frame", "clear"}
        BY <2>3, <2>6 DEF PagingInv, TypeOK, Ops
    <3>2. op[q].pc = "frame" => op[q].frame # pte[p][v].frame
        BY <2>1 DEF PagingInv, Taking
    <3> QED
        BY <2>1, <3>1, <3>2 DEF PagingInv, Living
  <2> QED
      BY <2>1, <2>2, <2>3, <2>4, <2>5, <2>6
<1>3. s \subseteq Frames /\ \A h \in Frames : h \in s <=> h = f /\ ref[f] = 0
    BY <1>2
<1> HIDE DEF f, v, s
<1>4. \A q \in Pids, w \in VPages : pte'[q][w] = IF q = p /\ w = v THEN Absent ELSE pte[q][w]
    BY <1>1 DEF PagingInv, TypeOK
<1>5. \A q \in Pids : op'[q] = IF q = p THEN [pc |-> "clear", page |-> None, frame |-> None]
                                        ELSE op[q]
    BY <1>1 DEF PagingInv, TypeOK
<1>6. TypeOK'
  <2>1. pte' \in [Pids -> [VPages -> Entry]]
      BY <1>1, <1>2 DEF PagingInv, TypeOK, Entry, Absent
  <2>2. content' \in [Frames -> Values \cup {None}]
      BY <1>1 DEF PagingInv, TypeOK
  <2> QED
      BY <1>1, <1>3, <2>1, <2>2 DEF PagingInv, TypeOK, Ops
<1>7. \A q \in Pids, h \in Frames : Uses(q, h)' <=> Uses(q, h) /\ ~ (q = p /\ h = f)
  <2> SUFFICES ASSUME NEW q \in Pids, NEW h \in Frames
               PROVE  Uses(q, h)' <=> Uses(q, h) /\ ~ (q = p /\ h = f)
      OBVIOUS
  <2>1. h # None
      BY PagingConstants
  <2>2. CASE q = p
      BY <1>1, <1>2, <1>4, <1>5, <2>1, <2>2 DEF Uses, Absent, f
  <2>3. CASE q # p
      BY <1>1, <1>4, <1>5, <2>3 DEF Uses
  <2> QED
      BY <2>2, <2>3
<1>8. \A q \in Pids, w \in VPages : q # p /\ pte[q][w].frame = f => <<q, w>> \in Entries(f)
    BY <1>2, EntryLemma DEF Counts
<1>9. ref[f] = 0 => \A q \in Pids : q # p => ~ Uses(q, f)
    BY <1>2, <1>8, CountZero DEF Uses
<1>10. ref[f] # 0 => \E q \in Pids : q # p /\ Uses(q, f)
  <2>1. SUFFICES ASSUME ref[f] # 0 PROVE \E q \in Pids : q # p /\ Uses(q, f)
      OBVIOUS
  <2>2. Dirs(f) = {} /\ Tabs(f) = {}
      BY <1>2 DEF Dirs, Tabs
  <2>3. PICK e \in Entries(f) : TRUE
      BY <1>2, <2>1, <2>2, CountZero
  <2>4. e[1] \in Pids /\ e[2] \in VPages /\ Counts(e[1], e[2], f)
      BY DEF Entries
  <2>5. e[1] # p
      BY <1>1, <1>2, <2>4 DEF Counts, v
  <2> QED
      BY <2>4, <2>5 DEF Counts, Uses
<1>11. (NoDanglingMap /\ NoFrameLost)'
  <2> SUFFICES ASSUME NEW h \in Frames
               PROVE  h \in free' <=> \A q \in Pids : ~ Uses(q, h)'
      BY <1>6, FreeLemmaNext
  <2>1. CASE h # f
      BY <1>1, <1>3, <1>7, <2>1, FreeFacts
  <2>2. CASE h = f
    <3>1. f \notin free
        BY <1>2, FreeFacts DEF Uses
    <3> QED
        BY <1>1, <1>3, <1>7, <1>9, <1>10, <2>2, <3>1
  <2> QED
      BY <2>1, <2>2
<1>12. RefCountsExact'
  <2> SUFFICES ASSUME NEW h \in Frames PROVE ref'[h] = CountOf(h)'
      BY CountLemma
  <2>1. ref[h] = CountOf(h) /\ h # None
      BY FreeFacts
  <2>2. \A q \in Pids, w \in VPages : Counts(q, w, h)' <=> Counts(q, w, h)
    <3> SUFFICES ASSUME NEW q \in Pids, NEW w \in VPages
                 PROVE  Counts(q, w, h)' <=> Counts(q, w, h)
        OBVIOUS
    <3>1. CASE q = p
        BY <1>1, <1>4, <1>5, <2>1, <3>1 DEF Counts, Absent, v
    <3>2. CASE q # p
        BY <1>4, <1>5, <3>2 DEF Counts
    <3> QED
        BY <3>1, <3>2
  <2>3. Entries(h)' = Entries(h) /\ Dirs(h)' = Dirs(h) /\ Tabs(h)' = Tabs(h)
      BY <1>1, <2>2 DEF Entries, Dirs, Tabs
  <2> QED
      BY <1>1, <2>1, <2>3, Recount
<1>13. WritableIsPrivate'
    BY <1>4 DEF PagingInv, FramesExact, WritableIsPrivate, Mapped, Absent
<1>14. Distinct'
    BY <1>1, <1>4 DEF PagingInv, Distinct, Absent
<1>15. Living'
    BY <1>1, <1>4, <1>5 DEF PagingInv, Living, Alive, Absent
<1>16. Taking'
  <2>1. \A q \in Pids : op'[q].pc = "frame" => q # p /\ op[q].pc = "frame" /\ op'[q] = op[q]
      BY <1>5
  <2> QED
      BY <1>1, <1>4, <2>1 DEF PagingInv, Taking, Absent
<1>17. Dropping'
    BY <1>2, <1>5 DEF PagingInv, Dropping
<1>18. Filled'
  <2>1. \A q \in Pids, w \in VPages : pte[q][w].frame # None => pte[q][w].frame \in Frames
      BY DEF PagingInv, TypeOK, Entry
  <2>2. ASSUME NEW q \in Pids, NEW w \in VPages, pte'[q][w].frame # None
        PROVE  content'[pte'[q][w].frame] # None
    <3>1. pte'[q][w] = pte[q][w] /\ ~ (q = p /\ w = v)
        BY <1>4, <2>2 DEF Absent
    <3>2. pte[q][w].frame \notin s
        BY <1>2, <1>3, <1>9, <2>1, <2>2, <3>1 DEF Uses
    <3> QED
        BY <1>1, <2>1, <2>2, <3>1, <3>2 DEF PagingInv, Filled
  <2> QED
      BY <2>2 DEF Filled
<1> QED
    BY <1>6, <1>11, <1>12, <1>13, <1>14, <1>15, <1>16, <1>17, <1>18 DEF PagingInv, FramesExact

LEMMA ClearTableKeeps ==
    ASSUME PagingInv, NEW p \in Pids, ClearTable(p)
    PROVE  PagingInv'
<1>0. PICK f \in Frames : f = tab[p]
    BY DEF ClearTable, PagingInv, TypeOK
<1>1. /\ op[p].pc \in {"run", "clear"} /\ f # None /\ \A v \in VPages : pte[p][v].frame = None
      /\ ref' = Dropped({f})
      /\ free' = free \cup Unused({f})
      /\ content' = [h \in Frames |-> IF h \in Unused({f}) THEN None ELSE content[h]]
      /\ tab' = [tab EXCEPT ![p] = None]
      /\ op' = [op EXCEPT ![p] = Running]
      /\ dir' = dir /\ pte' = pte /\ halted' = halted
    BY <1>0, PagingConstants DEF ClearTable, Runs, Mapped, FreePhys
<1>2. /\ f \in Frames
      /\ \A q \in Pids : dir[q] # f /\ (q # p => tab[q] # f) /\ op[q].frame # f
      /\ \A q \in Pids, w \in VPages : pte[q][w].frame # f
  <2>1. \A q \in Pids : op[q].frame # f
      BY <1>0, <1>1, OpFrames
  <2> QED
      BY <1>0, <1>1, <2>1 DEF PagingInv, Distinct
<1>3. \A q \in Pids : /\ tab'[q] = IF q = p THEN None ELSE tab[q]
                      /\ op'[q] = IF q = p THEN Running ELSE op[q]
    BY <1>1 DEF PagingInv, TypeOK
<1>4. op[p].frame = None
    BY <1>1 DEF PagingInv, Living
<1>5. \A q \in Pids, h \in Frames : Uses(q, h)' <=> Uses(q, h) /\ h # f
    BY <1>1, <1>2, <1>3, <1>4, <1>0, FreeFacts DEF Uses, Running
<1>6. CountOf(f) = CountOf(f)' + 1 /\ CountOf(f)' = 0
  <2>1. CountOf(f)' = 0
      BY <1>2, <1>5, CountedUsed
  <2>2. p \in Tabs(f) /\ Tabs(f)' = Tabs(f) \ {p}
      BY <1>0, <1>1, <1>2, <1>3, PagingConstants DEF Tabs
  <2>3. More(Tabs(f)', Tabs(f))
      BY <2>2 DEF More
  <2>4. Dirs(f)' = Dirs(f)
      BY <1>1 DEF Dirs
  <2>5. Entries(f)' = Entries(f)
    <3>1. \A q \in Pids, w \in VPages : ~ Counts(q, w, f) /\ ~ Counts(q, w, f)'
        BY <1>1, <1>2 DEF Counts
    <3> QED
        BY <3>1 DEF Entries
  <2> QED
      BY <2>1, <2>3, <2>4, <2>5, Recount
<1>7. ref[f] = 1 /\ Unused({f}) = {f}
  <2>1. ref[f] = 1
      BY <1>2, <1>6, FreeFacts
  <2> QED
      BY <2>1 DEF Unused, Less
<1>8. \A h \in Frames : ref'[h] = IF h = f THEN 0 ELSE ref[h]
    BY <1>1, <1>7 DEF Dropped, Less
<1>9. TypeOK'
  <2>1. ref' \in [Frames -> Nat]
    <3>1. ref' = [h \in Frames |-> IF h \in {f} THEN Less(ref[h]) ELSE ref[h]]
        BY <1>1 DEF Dropped
    <3> QED
        BY <3>1, <1>8 DEF PagingInv, TypeOK
  <2>2. content' \in [Frames -> Values \cup {None}]
      BY <1>1 DEF PagingInv, TypeOK
  <2> QED
      BY <1>1, <1>2, <1>7, <2>1, <2>2 DEF PagingInv, TypeOK, Ops, Running
<1>10. (NoDanglingMap /\ NoFrameLost)'
    BY <1>1, <1>5, <1>7, <1>9, FreeFacts, FreeLemmaNext
<1>11. RefCountsExact'
  <2> SUFFICES ASSUME NEW h \in Frames PROVE ref'[h] = CountOf(h)'
      BY CountLemma
  <2>1. CASE h = f
      BY <1>6, <1>8, <2>1
  <2>2. CASE h # f
    <3>1. \A q \in Pids, w \in VPages : Counts(q, w, h)' <=> Counts(q, w, h)
        BY <1>1, <1>3 DEF Counts, Running
    <3>2. Entries(h)' = Entries(h)
        BY <3>1 DEF Entries
    <3>3. Dirs(h)' = Dirs(h) /\ Tabs(h)' = Tabs(h)
        BY <1>1, <1>3, <2>2, <1>0, PagingConstants DEF Dirs, Tabs
    <3> QED
        BY <1>8, <2>2, <3>2, <3>3, Recount, FreeFacts
  <2> QED
      BY <2>1, <2>2
<1>12. WritableIsPrivate'
    BY <1>1 DEF PagingInv, FramesExact, WritableIsPrivate, Mapped
<1>13. Distinct'
    BY <1>1, <1>3 DEF PagingInv, Distinct
<1>14. Living'
    BY <1>1, <1>3 DEF PagingInv, Living, Alive, Running
<1>15. Taking'
    BY <1>1, <1>3 DEF PagingInv, Taking, Running
<1>16. Dropping'
    BY <1>1, <1>3 DEF PagingInv, Dropping, Undisturbed, Running
<1>17. Filled'
  <2>1. \A q \in Pids, w \in VPages : pte[q][w].frame # None => pte[q][w].frame \in Frames
      BY DEF PagingInv, TypeOK, Entry
  <2> QED
      BY <1>1, <1>2, <1>7, <2>1 DEF PagingInv, Filled
<1> QED
    BY <1>9, <1>10, <1>11, <1>12, <1>13, <1>14, <1>15, <1>16, <1>17 DEF PagingInv, FramesExact

LEMMA DeallocKeeps ==
    ASSUME PagingInv, NEW p \in Pids, NEW v \in VPages, Undisturbed(p),
           Dealloc(p, v), ~ Shared(pte[p][v].frame)
    PROVE  PagingInv'
<1> DEFINE f == pte[p][v].frame
<1>1. /\ op[p].pc = "run" /\ f # None /\ ~ Shared(f)
      /\ ref' = Dropped({f})
      /\ free' = free \cup {f}
      /\ content' = [h \in Frames |-> IF h \in {f} THEN None ELSE content[h]]
      /\ pte' = [pte EXCEPT ![p][v] = Absent]
      /\ dir' = dir /\ tab' = tab /\ op' = op /\ halted' = halted
    BY DEF Dealloc, Runs, Mapped, FreePhys
<1>2. f \in Frames
    BY <1>1 DEF PagingInv, TypeOK, Entry
<1>3. /\ Counts(p, v, f) /\ ref[f] \in Nat /\ ref[f] # 0
      /\ \A q \in Pids : op[q].frame # f /\ dir[q] # f /\ tab[q] # f
      /\ ref[f] =< 1 => \A q \in Pids, w \in VPages : pte[q][w].frame = f => q = p /\ w = v
    BY <1>1, <1>2, LastUser
<1>4. ref[f] = 1 /\ \A q \in Pids, w \in VPages : pte[q][w].frame = f => q = p /\ w = v
  <2>1. ref[f] =< 1 /\ ref[f] = 1
    <3>1. ref[f] \in Nat /\ ref[f] # 0 /\ ~ (ref[f] > 1)
        BY <1>1, <1>3 DEF Shared
    <3> QED
        BY <3>1
  <2> QED
      BY <1>3, <2>1
<1>5. pte[p][v].frame = f
    OBVIOUS
<1> HIDE DEF f
<1>6. \A q \in Pids, w \in VPages : pte'[q][w] = IF q = p /\ w = v THEN Absent ELSE pte[q][w]
    BY <1>1 DEF PagingInv, TypeOK
<1>7. \A h \in Frames : ref'[h] = IF h = f THEN 0 ELSE ref[h]
    BY <1>1, <1>4 DEF Dropped, Less
<1>8. TypeOK'
  <2>1. ref' \in [Frames -> Nat]
    <3>1. ref' = [h \in Frames |-> IF h \in {f} THEN Less(ref[h]) ELSE ref[h]]
        BY <1>1 DEF Dropped
    <3> QED
        BY <3>1, <1>7 DEF PagingInv, TypeOK
  <2>2. content' \in [Frames -> Values \cup {None}]
      BY <1>1 DEF PagingInv, TypeOK
  <2>3. pte' \in [Pids -> [VPages -> Entry]]
      BY <1>1 DEF PagingInv, TypeOK, Entry, Absent
  <2> QED
      BY <1>1, <1>2, <2>1, <2>2, <2>3 DEF PagingInv, TypeOK
<1>9. \A q \in Pids, h \in Frames : Uses(q, h)' <=> Uses(q, h) /\ h # f
  <2> SUFFICES ASSUME NEW q \in Pids, NEW h \in Frames
               PROVE  Uses(q, h)' <=> Uses(q, h) /\ h # f
      OBVIOUS
  <2>1. h # None
      BY PagingConstants
  <2>2. CASE h = f
      BY <1>1, <1>3, <1>4, <1>6, <2>1, <2>2 DEF Uses, Absent
  <2>3. CASE h # f
      BY <1>1, <1>5, <1>6, <2>1, <2>3 DEF Uses, Absent
  <2> QED
      BY <2>2, <2>3
<1>10. (NoDanglingMap /\ NoFrameLost)'
    BY <1>1, <1>8, <1>9, FreeFacts, FreeLemmaNext
<1>11. RefCountsExact'
  <2> SUFFICES ASSUME NEW h \in Frames PROVE ref'[h] = CountOf(h)'
      BY CountLemma
  <2>1. CASE h = f
      BY <1>2, <1>7, <1>9, <2>1, CountedUsed
  <2>2. CASE h # f
    <3>1. h # None
        BY PagingConstants
    <3>2. \A q \in Pids, w \in VPages : Counts(q, w, h)' <=> Counts(q, w, h)
        BY <1>1, <1>5, <1>6, <2>2, <3>1 DEF Counts, Absent
    <3>3. Entries(h)' = Entries(h) /\ Dirs(h)' = Dirs(h) /\ Tabs(h)' = Tabs(h)
        BY <1>1, <3>2 DEF Entries, Dirs, Tabs
    <3> QED
        BY <1>7, <2>2, <3>3, Recount, FreeFacts
  <2> QED
      BY <2>1, <2>2
<1>12. WritableIsPrivate'
    BY <1>6 DEF PagingInv, FramesExact, WritableIsPrivate, Mapped, Absent
<1>13. Distinct'
    BY <1>1, <1>6 DEF PagingInv, Distinct, Absent
<1>14. Living'
    BY <1>1, <1>6 DEF PagingInv, Living, Alive, Absent
<1>15. Taking'
    BY <1>1, <1>6 DEF PagingInv, Taking, Absent
<1>16. Dropping'
    BY <1>1, <1>6 DEF PagingInv, Dropping, Undisturbed
<1>17. Filled'
  <2>1. \A q \in Pids, w \in VPages : pte[q][w].frame # None => pte[q][w].frame \in Frames
      BY DEF PagingInv, TypeOK, Entry
  <2>2. ASSUME NEW q \in Pids, NEW w \in VPages, pte'[q][w].frame # None
        PROVE  content'[pte'[q][w].frame] # None
    <3>1. pte'[q][w] = pte[q][w] /\ pte[q][w].frame # f
        BY <1>4, <1>6, <2>2 DEF Absent
    <3> QED
        BY <1>1, <2>1, <2>2, <3>1 DEF PagingInv, Filled
  <2> QED
      BY <2>2 DEF Filled
<1> QED
    BY <1>8, <1>10, <1>11, <1>12, <1>13, <1>14, <1>15, <1>16, <1>17 DEF PagingInv, FramesExact

LEMMA ExitKeeps ==
    ASSUME PagingInv, NEW p \in Pids, Undisturbed(p), Exit(p)
    PROVE  PagingInv'
<1> DEFINE own == Own(p)
<1>1. /\ op[p].pc = "run" /\ dir[p] # None
      /\ ref' = Dropped(own)
      /\ free' = free \cup Unused(own)
      /\ content' = [h \in Frames |-> IF h \in Unused(own) THEN None ELSE content[h]]
      /\ dir' = [dir EXCEPT ![p] = None]
      /\ tab' = [tab EXCEPT ![p] = None]
      /\ pte' = [pte EXCEPT ![p] = [v \in VPages |-> Absent]]
      /\ op' = [op EXCEPT ![p] = Running]
      /\ halted' = halted
    BY DEF Exit, Runs, Alive, Remove, FreePhys
<1>2. /\ \A q \in Pids : op[q].pc # "drop"
      /\ op[p].frame = None
    BY <1>1 DEF Undisturbed, PagingInv, Living
<1>3. \A h : h \in own <=> /\ h # None
                           /\ h = dir[p] \/ h = tab[p] \/ \E v \in VPages : pte[p][v].frame = h
    BY DEF Own, FramesOf, Mapped
<1>4. own \subseteq Frames
    BY <1>3 DEF PagingInv, TypeOK, Entry
<1> HIDE DEF own
<1>5. \A q \in Pids :
          /\ dir'[q] = IF q = p THEN None ELSE dir[q]
          /\ tab'[q] = IF q = p THEN None ELSE tab[q]
          /\ op'[q] = IF q = p THEN Running ELSE op[q]
          /\ \A w \in VPages : pte'[q][w] = IF q = p THEN Absent ELSE pte[q][w]
    BY <1>1 DEF PagingInv, TypeOK
<1>6. \A q \in Pids, h \in Frames : Uses(q, h)' <=> Uses(q, h) /\ q # p
    BY <1>2, <1>5, FreeFacts DEF Uses, Running, Absent
<1>7. \A h \in Frames \ own : ~ Uses(p, h)
    BY <1>2, <1>3, FreeFacts DEF Uses
<1>8. ASSUME NEW h \in Frames
      PROVE  \A q \in Pids, w \in VPages : Counts(q, w, h)' <=> Counts(q, w, h) /\ q # p
    BY <1>2, <1>5, FreeFacts DEF Counts, Running, Absent
<1>9. ASSUME NEW h \in own
      PROVE  CountOf(h) = CountOf(h)' + 1
  <2>1. h \in Frames /\ h # None
      BY <1>3, <1>4, <1>9
  <2>2. CASE h = dir[p]
    <3>1. \A q \in Pids : tab[q] # h /\ (q # p => dir[q] # h) /\ \A w \in VPages : pte[q][w].frame # h
        BY <2>1, <2>2 DEF PagingInv, Distinct
    <3>2. p \in Dirs(h) /\ p \notin Dirs(h)' /\ Dirs(h) = Dirs(h)' \cup {p}
        BY <1>5, <2>1, <2>2 DEF Dirs
    <3>3. More(Dirs(h)', Dirs(h))
        BY <3>2 DEF More
    <3>4. Tabs(h)' = Tabs(h)
        BY <1>5, <2>1, <3>1 DEF Tabs
    <3>5. \A q \in Pids, w \in VPages : ~ Counts(q, w, h) /\ ~ Counts(q, w, h)'
        BY <1>8, <2>1, <3>1 DEF Counts
    <3>6. Entries(h)' = Entries(h)
        BY <3>5 DEF Entries
    <3> QED
        BY <3>3, <3>4, <3>6, Recount
  <2>3. CASE h = tab[p]
    <3>1. \A q \in Pids : dir[q] # h /\ (q # p => tab[q] # h) /\ \A w \in VPages : pte[q][w].frame # h
        BY <2>1, <2>3 DEF PagingInv, Distinct
    <3>2. p \in Tabs(h) /\ p \notin Tabs(h)' /\ Tabs(h) = Tabs(h)' \cup {p}
        BY <1>5, <2>1, <2>3 DEF Tabs
    <3>3. More(Tabs(h)', Tabs(h))
        BY <3>2 DEF More
    <3>4. Dirs(h)' = Dirs(h)
        BY <1>5, <2>1, <3>1 DEF Dirs
    <3>5. \A q \in Pids, w \in VPages : ~ Counts(q, w, h) /\ ~ Counts(q, w, h)'
        BY <1>8, <2>1, <3>1 DEF Counts
    <3>6. Entries(h)' = Entries(h)
        BY <3>5 DEF Entries
    <3> QED
        BY <3>3, <3>4, <3>6, Recount
  <2>4. CASE \E v \in VPages : pte[p][v].frame = h
    <3>1. PICK v \in VPages : pte[p][v].frame = h
        BY <2>4
    <3>2. \A q \in Pids : dir[q] # h /\ tab[q] # h
        BY <2>1, <3>1 DEF PagingInv, Distinct
    <3>3. Dirs(h)' = Dirs(h) /\ Tabs(h)' = Tabs(h)
        BY <1>5, <2>1, <3>2 DEF Dirs, Tabs
    <3>4. \A w \in VPages : pte[p][w].frame = h => w = v
        BY <2>1, <3>1 DEF PagingInv, Distinct
    <3>5. Counts(p, v, h) /\ ~ Counts(p, v, h)'
        BY <1>2, <1>8, <2>1, <3>1 DEF Counts
    <3>6. Elsewhere(p, v, h)
      <4>1. \A w \in VPages : w # v => ~ Counts(p, w, h)
          BY <3>4 DEF Counts
      <4> QED
          BY <1>8, <2>1, <4>1 DEF Elsewhere
    <3>7. More(Entries(h)', Entries(h))
        BY <3>5, <3>6, MoreEntries
    <3> QED
        BY <3>3, <3>7, Recount
  <2> QED
      BY <1>3, <1>9, <2>2, <2>3, <2>4
<1>10. \A h \in Frames \ own : CountOf(h)' = CountOf(h)
  <2> SUFFICES ASSUME NEW h \in Frames \ own PROVE CountOf(h)' = CountOf(h)
      OBVIOUS
  <2>1. h # None /\ ~ Uses(p, h)
      BY <1>7, PagingConstants
  <2>2. \A q \in Pids, w \in VPages : Counts(q, w, h)' <=> Counts(q, w, h)
      BY <1>8, <2>1 DEF Uses, Counts
  <2>3. Entries(h)' = Entries(h)
      BY <2>2 DEF Entries
  <2>4. Dirs(h)' = Dirs(h) /\ Tabs(h)' = Tabs(h)
      BY <1>5, <2>1 DEF Dirs, Tabs, Uses
  <2> QED
      BY <2>3, <2>4, Recount
<1>11. ASSUME NEW h \in Frames
       PROVE  /\ ref[h] \in Nat /\ ref[h] = CountOf(h) /\ ref'[h] = CountOf(h)'
              /\ h \in Unused(own) <=> h \in own /\ CountOf(h)' = 0
  <2>1. ref[h] \in Nat /\ ref[h] = CountOf(h) /\ CountOf(h)' \in Nat
      BY Recount, FreeFacts DEF PagingInv, TypeOK
  <2>2. CASE h \in own
    <3>1. Less(ref[h]) = CountOf(h)'
        BY <1>9, <2>1, <2>2 DEF Less
    <3> QED
        BY <1>1, <2>1, <2>2, <3>1 DEF Dropped, Unused
  <2>3. CASE h \notin own
      BY <1>1, <1>10, <2>1, <2>3 DEF Dropped, Unused
  <2> QED
      BY <2>2, <2>3
<1>12. TypeOK'
  <2>1. ref' \in [Frames -> Nat]
    <3>1. ref' = [h \in Frames |-> IF h \in own THEN Less(ref[h]) ELSE ref[h]]
        BY <1>1 DEF Dropped
    <3>2. \A h \in Frames : ref[h] \in Nat /\ Less(ref[h]) \in Nat
        BY DEF PagingInv, TypeOK, Less
    <3> QED
        BY <3>1, <3>2
  <2>2. content' \in [Frames -> Values \cup {None}]
      BY <1>1 DEF PagingInv, TypeOK
  <2>3. pte' \in [Pids -> [VPages -> Entry]]
    <3>1. [v \in VPages |-> Absent] \in [VPages -> Entry]
        BY DEF Entry, Absent
    <3> QED
        BY <1>1, <3>1 DEF PagingInv, TypeOK
  <2>4. Unused(own) \subseteq Frames
      BY <1>4 DEF Unused
  <2> QED
      BY <1>1, <2>1, <2>2, <2>3, <2>4 DEF PagingInv, TypeOK, Ops, Running
(* What the process alone had is used by nobody.                           *)
<1>13. \A h \in own : CountOf(h)' = 0 => \A q \in Pids : ~ Uses(q, h)'
  <2> SUFFICES ASSUME NEW h \in own, CountOf(h)' = 0, NEW q \in Pids, q # p
               PROVE  ~ Uses(q, h)
      BY <1>4, <1>6
  <2>1. h \in Frames /\ h # None
      BY <1>3, <1>4
  <2>2. Entries(h)' = {} /\ Dirs(h)' = {} /\ Tabs(h)' = {}
      BY Uncounted
  <2>3. dir[q] # h /\ tab[q] # h
      BY <1>5, <2>2 DEF Dirs, Tabs
  <2>4. \A w \in VPages : pte[q][w].frame # h
    <3>1. \A w \in VPages : ~ Counts(q, w, h)
        BY <1>8, <2>1, <2>2, EntryLemma
    <3> QED
        BY <1>2, <3>1 DEF Counts
  <2>5. op[q].frame # h
    <3>1. CASE op[q].pc = "frame"
        BY <1>3, <3>1 DEF PagingInv, Taking
    <3>2. CASE op[q].pc # "frame"
        BY <1>2, <2>1, <3>2 DEF PagingInv, TypeOK, Ops, Living
    <3> QED
        BY <3>1, <3>2
  <2> QED
      BY <2>3, <2>4, <2>5 DEF Uses
<1>14. (NoDanglingMap /\ NoFrameLost)'
  <2> SUFFICES ASSUME NEW h \in Frames
               PROVE  h \in free' <=> \A q \in Pids : ~ Uses(q, h)'
      BY <1>12, FreeLemmaNext
  <2>1. CASE h \notin own
      BY <1>1, <1>6, <1>7, <1>11, <2>1, FreeFacts
  <2>2. CASE h \in own
    <3>1. h \notin free
        BY <1>3, <2>2, FreeFacts DEF Uses
    <3>2. CountOf(h)' # 0 => \E q \in Pids : Uses(q, h)'
        BY CountedUsed
    <3> QED
        BY <1>1, <1>11, <1>13, <2>2, <3>1, <3>2
  <2> QED
      BY <2>1, <2>2
<1>15. RefCountsExact'
    BY <1>11, CountLemma
<1>16. WritableIsPrivate'
    BY <1>5 DEF PagingInv, FramesExact, WritableIsPrivate, Mapped, Absent
<1>17. Distinct'
    BY <1>5 DEF PagingInv, Distinct, Absent
<1>18. Living'
    BY <1>5 DEF PagingInv, Living, Alive, Absent, Running
<1>19. Taking'
  <2>1. \A q \in Pids : op'[q].pc = "frame" => q # p /\ op[q].pc = "frame" /\ op'[q] = op[q]
      BY <1>5 DEF Running
  <2> QED
      BY <1>5, <2>1 DEF PagingInv, Taking, Absent
<1>20. Dropping'
    BY <1>2, <1>5 DEF Dropping, Running
<1>21. Filled'
  <2>1. \A q \in Pids, w \in VPages : pte[q][w].frame # None => pte[q][w].frame \in Frames
      BY DEF PagingInv, TypeOK, Entry
  <2>2. ASSUME NEW q \in Pids, NEW w \in VPages, pte'[q][w].frame # None
        PROVE  content'[pte'[q][w].frame] # None
    <3>1. q # p /\ pte'[q][w] = pte[q][w] /\ pte[q][w].frame \in Frames
        BY <1>5, <2>1, <2>2 DEF Absent
    <3>2. pte[q][w].frame \notin Unused(own)
      <4>1. PICK h \in Frames : h = pte[q][w].frame
          BY <3>1
      <4>2. Uses(q, h)'
          BY <1>6, <3>1, <4>1 DEF Uses
      <4> QED
          BY <1>11, <1>13, <4>1, <4>2
    <3> QED
        BY <1>1, <2>2, <3>1, <3>2 DEF PagingInv, Filled
  <2> QED
      BY <2>2 DEF Filled
<1> QED
    BY <1>12, <1>14, <1>15, <1>16, <1>17, <1>18, <1>19, <1>20, <1>21 DEF PagingInv, FramesExact

-----------------------------------------------------------------------------
(* MM_CloneCurrent()                                                       *)
LEMMA ForkKeeps ==
    ASSUME PagingInv, NEW p \in Pids, NEW q \in Pids, Undisturbed(p), Fork(p, q)
    PROVE  PagingInv'
<1>0. CASE Halt
    BY <1>0, HaltKeeps
<1>a. SUFFICES ASSUME ~ Halt PROVE PagingInv'
    BY <1>0
<1> DEFINE d == Grab(free)
           t == Grab(free \ {d})
           taken == IF tab[p] = None THEN {d} ELSE {d, t}
           entry == [v \in VPages |-> IF pte[p][v].frame # None
                                      THEN [frame |-> pte[p][v].frame, mode |-> "cow"]
                                      ELSE Absent]
<1>1. /\ op[p].pc = "run" /\ dir[p] # None /\ dir[q] = None
      /\ free # {} /\ (tab[p] = None \/ free \ {d} # {})
      /\ free' = free \ taken
      /\ ref' = Referenced(p, taken)
      /\ dir' = [dir EXCEPT ![q] = d]
      /\ tab' = [tab EXCEPT ![q] = IF tab[p] = None THEN None ELSE t]
      /\ pte' = [pte EXCEPT ![p] = Cowed(p), ![q] = Cowed(p)]
      /\ content' = content /\ op' = op /\ halted' = halted
    BY <1>a DEF Fork, Runs, Alive
<1>2. /\ d \in free /\ taken \subseteq free
      /\ t # d \/ tab[p] = None
      /\ tab[p] # None => t \in free
  <2>1. d \in free
      BY <1>1, GrabLemma
  <2>2. tab[p] # None => t \in free \ {d}
      BY <1>1, GrabLemma
  <2> QED
      BY <2>1, <2>2
<1> HIDE DEF d, t
<1>3. \A h \in taken : h \in Frames /\ h # None /\ \A r \in Pids : ~ Uses(r, h)
  <2>1. free \subseteq Frames
      BY DEF PagingInv, TypeOK
  <2> QED
      BY <1>2, <2>1, FreeFacts
<1>4. d \in taken /\ (tab[p] # None => t \in taken)
    OBVIOUS
<1>5. p # q /\ op[q].pc = "run" /\ op[q].frame = None /\ op[p].frame = None /\ tab[q] = None
      /\ \A v \in VPages : pte[q][v].frame = None
    BY <1>1 DEF PagingInv, Living, Alive
<1>6. \A r \in Pids : op[r].pc # "drop"
    BY <1>1 DEF Undisturbed
<1>7. Cowed(p) = entry /\ entry \in [VPages -> Entry]
  <2>1. \A v \in VPages : pte[p][v] \in Entry
      BY DEF PagingInv, TypeOK
  <2>2. \A v \in VPages : pte[p][v].frame # None =>
            [pte[p][v] EXCEPT !.mode = "cow"] = [frame |-> pte[p][v].frame, mode |-> "cow"]
      BY <2>1 DEF Entry
  <2>3. Cowed(p) = entry
      BY <2>2 DEF Cowed, Mapped
  <2>4. entry \in [VPages -> Entry]
      BY <2>1 DEF Entry, Absent
  <2> QED
      BY <2>3, <2>4
<1>8. \A r \in Pids : /\ dir'[r] = IF r = q THEN d ELSE dir[r]
                      /\ tab'[r] = IF r = q /\ tab[p] # None THEN t ELSE tab[r]
                      /\ \A w \in VPages : pte'[r][w] = IF r = p \/ r = q THEN entry[w]
                                                                      ELSE pte[r][w]
  <2>1. \A r \in Pids : dir'[r] = IF r = q THEN d ELSE dir[r]
      BY <1>1 DEF PagingInv, TypeOK
  <2>2. \A r \in Pids : tab'[r] = IF r = q /\ tab[p] # None THEN t ELSE tab[r]
      BY <1>1, <1>5 DEF PagingInv, TypeOK
  <2>3. \A r \in Pids, w \in VPages : pte'[r][w] = IF r = p \/ r = q THEN entry[w] ELSE pte[r][w]
      BY <1>1, <1>5, <1>7 DEF PagingInv, TypeOK
  <2> QED
      BY <2>1, <2>2, <2>3
<1>9. \A w \in VPages : /\ entry[w].frame = pte[p][w].frame
                        /\ entry[w].frame # None => entry[w].mode = "cow"
    BY DEF Absent
<1>10. \A r \in Pids, w \in VPages :
           /\ pte'[r][w].frame = IF r = q THEN pte[p][w].frame ELSE pte[r][w].frame
           /\ pte'[r][w].frame # None /\ pte'[r][w].mode = "write"
                  => r # p /\ r # q /\ pte[r][w].mode = "write"
    BY ZenonT(30), <1>8, <1>9
<1> HIDE DEF entry
<1>11. \A h : h \in FramesOf(p) <=> h # None /\ \E v \in VPages : pte[p][v].frame = h
    BY DEF FramesOf, Mapped
<1>12. TypeOK'
  <2>1. ref' \in [Frames -> Nat]
      BY <1>1 DEF PagingInv, TypeOK, Referenced
  <2>2. pte' \in [Pids -> [VPages -> Entry]]
      BY <1>1, <1>7 DEF PagingInv, TypeOK
  <2> QED
      BY <1>1, <1>3, <1>4, <2>1, <2>2 DEF PagingInv, TypeOK
<1>13. ASSUME NEW h \in Frames
       PROVE  /\ Uses(q, h)' <=> h \in taken \/ h \in FramesOf(p)
              /\ \A r \in Pids : r # q => (Uses(r, h)' <=> Uses(r, h))
  <2>1. h # None
      BY PagingConstants
  <2>2. ASSUME NEW r \in Pids, r # q
        PROVE  Uses(r, h)' <=> Uses(r, h)
    <3>1. dir'[r] = dir[r] /\ tab'[r] = tab[r] /\ op'[r] = op[r]
        BY <1>1, <1>8, <2>2
    <3>2. \A w \in VPages : pte'[r][w].frame = pte[r][w].frame
        BY <1>10, <2>2
    <3> QED
        BY <3>1, <3>2 DEF Uses
  <2>3. (tab'[q] = h) <=> (tab[p] # None /\ h = t)
      BY <1>5, <1>8, <2>1
  <2>4. op'[q].frame # h
      BY <1>1, <1>5, <2>1
  <2>5. (\E v \in VPages : pte'[q][v].frame = h) <=> h \in FramesOf(p)
      BY <1>10, <1>11, <2>1
  <2>6. Uses(q, h)' <=> h \in taken \/ h \in FramesOf(p)
      BY <1>8, <2>3, <2>4, <2>5 DEF Uses
  <2> QED
      BY <2>2, <2>6
<1>14. \A h \in Frames : ~ Uses(q, h)
    BY <1>1, <1>5, FreeFacts DEF Uses
<1>15. \A h \in FramesOf(p) : Uses(p, h)
    BY <1>11 DEF Uses
<1>16. (NoDanglingMap /\ NoFrameLost)'
  <2> SUFFICES ASSUME NEW h \in Frames
               PROVE  h \in free' <=> \A r \in Pids : ~ Uses(r, h)'
      BY <1>12, FreeLemmaNext
  <2>1. CASE h \in taken
      BY <1>1, <1>13, <2>1
  <2>2. CASE h \notin taken
      BY <1>1, <1>13, <1>14, <1>15, <2>2, FreeFacts
  <2> QED
      BY <2>1, <2>2
<1>17. RefCountsExact'
  <2> SUFFICES ASSUME NEW h \in Frames PROVE ref'[h] = CountOf(h)'
      BY CountLemma
  <2>1. ref[h] = CountOf(h) /\ h # None /\ ref[h] \in Nat
      BY FreeFacts DEF PagingInv, TypeOK
  <2>2. ref'[h] = IF h \in taken \cup FramesOf(p) THEN ref[h] + 1 ELSE ref[h]
      BY <1>1 DEF Referenced
  <2>3. \A r \in Pids, w \in VPages :
            Counts(r, w, h)' <=> IF r = q THEN pte[p][w].frame = h ELSE Counts(r, w, h)
    <3>1. op' = op
        BY <1>1
    <3> QED
        BY <1>6, <1>10, <3>1 DEF Counts
  <2>4. CASE h \in taken
    <3>1. \A r \in Pids : /\ dir[r] # h /\ tab[r] # h
                          /\ \A w \in VPages : pte[r][w].frame # h
        BY <1>3, <2>4 DEF Uses
    <3>2. \A r \in Pids, w \in VPages : ~ Counts(r, w, h)' /\ ~ Counts(r, w, h)
        BY <2>3, <3>1 DEF Counts
    <3>3. Entries(h)' = Entries(h)
        BY <3>2 DEF Entries
    <3>4. CASE h = d
      <4>1. q \notin Dirs(h) /\ Dirs(h)' = Dirs(h) \cup {q}
          BY <1>8, <3>1, <3>4 DEF Dirs
      <4>2. Tabs(h)' = Tabs(h)
          BY <1>2, <1>8, <3>1, <3>4 DEF Tabs
      <4>3. More(Dirs(h), Dirs(h)')
          BY <4>1 DEF More
      <4> QED
          BY <2>1, <2>2, <2>4, <3>3, <4>2, <4>3, Recount
    <3>5. CASE h = t /\ h # d
      <4>1. tab[p] # None
          BY <2>4, <3>5
      <4>2. q \notin Tabs(h) /\ Tabs(h)' = Tabs(h) \cup {q}
          BY <1>8, <3>1, <3>5, <4>1 DEF Tabs
      <4>3. Dirs(h)' = Dirs(h)
          BY <1>8, <3>1, <3>5 DEF Dirs
      <4>4. More(Tabs(h), Tabs(h)')
          BY <4>2 DEF More
      <4> QED
          BY <2>1, <2>2, <2>4, <3>3, <4>3, <4>4, Recount
    <3> QED
        BY <2>4, <3>4, <3>5
  <2>5. CASE h \notin taken
    <3>1. Dirs(h)' = Dirs(h) /\ Tabs(h)' = Tabs(h)
        BY <1>1, <1>4, <1>5, <1>8, <2>1, <2>5 DEF Dirs, Tabs
    <3>2. CASE h \in FramesOf(p)
      <4>1. PICK v \in VPages : pte[p][v].frame = h
          BY <1>11, <3>2
      <4>2. \A w \in VPages : pte[p][w].frame = h => w = v
          BY <2>1, <4>1 DEF PagingInv, Distinct
      <4>3. \A w \in VPages : ~ Counts(q, w, h)
          BY <1>5, <2>1 DEF Counts
      <4>4. Counts(q, v, h)' /\ Elsewhere(q, v, h)
          BY <2>3, <4>1, <4>2, <4>3 DEF Elsewhere
      <4>5. More(Entries(h), Entries(h)')
          BY <4>3, <4>4, MoreEntries
      <4> QED
          BY <2>1, <2>2, <3>1, <3>2, <4>5, Recount
    <3>3. CASE h \notin FramesOf(p)
      <4>1. \A w \in VPages : pte[p][w].frame # h
          BY <1>11, <2>1, <3>3
      <4>2. \A w \in VPages : ~ Counts(q, w, h)
          BY <1>5, <2>1 DEF Counts
      <4>3. \A r \in Pids, w \in VPages : Counts(r, w, h)' <=> Counts(r, w, h)
          BY <2>3, <4>1, <4>2
      <4>4. Entries(h)' = Entries(h)
          BY <4>3 DEF Entries
      <4> QED
          BY <2>1, <2>2, <2>5, <3>1, <3>3, <4>4, Recount
    <3> QED
        BY <3>2, <3>3
  <2> QED
      BY <2>4, <2>5
<1>18. WritableIsPrivate'
  <2> SUFFICES ASSUME NEW r \in Pids, NEW s \in Pids, NEW v \in VPages, NEW w \in VPages,
                      pte'[r][v].frame # None, pte'[s][w].frame # None,
                      pte'[r][v].mode = "write", pte'[r][v].frame = pte'[s][w].frame
               PROVE  r = s /\ v = w
      BY DEF WritableIsPrivate, Mapped
  <2>1. r # p /\ r # q /\ pte[r][v].mode = "write" /\ pte'[r][v].frame = pte[r][v].frame
      BY <1>10
  <2>2. CASE s = q
    <3>1. pte[p][w].frame = pte[r][v].frame /\ pte[p][w].frame # None
        BY <1>10, <2>1, <2>2
    <3> QED
        BY <2>1, <3>1 DEF PagingInv, FramesExact, WritableIsPrivate, Mapped
  <2>3. CASE s # q
    <3>1. pte[s][w].frame = pte[r][v].frame /\ pte[s][w].frame # None
        BY <1>10, <2>1, <2>3
    <3> QED
        BY <2>1, <3>1 DEF PagingInv, FramesExact, WritableIsPrivate, Mapped
  <2> QED
      BY <2>2, <2>3
<1>19. Distinct'
  <2>1. \A r \in Pids : dir[r] # d /\ tab[r] # d /\ \A w \in VPages : pte[r][w].frame # d
      BY <1>3, <1>4 DEF Uses
  <2>2. tab[p] # None =>
            \A r \in Pids : dir[r] # t /\ tab[r] # t /\ \A w \in VPages : pte[r][w].frame # t
      BY <1>3, <1>4 DEF Uses
  <2>3. \A r, s \in Pids : dir'[r] # None /\ dir'[r] = dir'[s] => r = s
      BY <1>8, <2>1 DEF PagingInv, Distinct
  <2>4. \A r, s \in Pids : tab'[r] # None /\ tab'[r] = tab'[s] => r = s
      BY <1>5, <1>8, <2>2 DEF PagingInv, Distinct
  <2>5. \A r, s \in Pids : dir'[r] # None => dir'[r] # tab'[s]
      BY <1>2, <1>5, <1>8, <2>1, <2>2 DEF PagingInv, Distinct
  <2>6. \A r, s \in Pids : \A w \in VPages :
            pte[s][w].frame # None => pte[s][w].frame # dir'[r] /\ pte[s][w].frame # tab'[r]
      BY <1>8, <2>1, <2>2 DEF PagingInv, Distinct
  <2>7. \A r, s \in Pids : \A w \in VPages :
            pte'[s][w].frame # None => pte'[s][w].frame # dir'[r] /\ pte'[s][w].frame # tab'[r]
      BY <1>10, <2>6
  <2>8. \A r \in Pids : \A v, w \in VPages :
            pte'[r][v].frame # None /\ pte'[r][v].frame = pte'[r][w].frame => v = w
      BY <1>10 DEF PagingInv, Distinct
  <2> QED
      BY <2>3, <2>4, <2>5, <2>7, <2>8 DEF Distinct
<1>20. Living'
  <2>1. d # None /\ (tab[p] # None => t # None)
      BY <1>3, <1>4
  <2>2. \A r \in Pids : dir'[r] = None => dir[r] = None
      BY <1>8, <2>1
  <2>3. \A r \in Pids : r # q => tab'[r] = tab[r]
      BY <1>8
  <2>4. \A v \in VPages : pte[p][v].frame # None => tab[p] # None
      BY DEF PagingInv, Living
  <2>5. \A v \in VPages : pte'[q][v].frame # None => tab'[q] # None
      BY <1>8, <1>10, <2>1, <2>4
  <2>6. dir'[q] # None
      BY <1>8, <2>1
  <2>7. ASSUME NEW r \in Pids, r # q
        PROVE  \A v \in VPages : pte'[r][v].frame # None => tab'[r] # None
      BY <1>10, <2>3, <2>7 DEF PagingInv, Living
  <2>8. op' = op
      BY <1>1
  <2> QED
      BY <1>5, <2>2, <2>3, <2>5, <2>6, <2>7, <2>8 DEF PagingInv, Living, Alive
<1>21. Taking'
  <2> SUFFICES ASSUME NEW r \in Pids, op[r].pc = "frame"
               PROVE  /\ op[r].page \in VPages
                      /\ op[r].frame # None
                      /\ pte'[r][op[r].page] = Absent
                      /\ \A s \in Pids :
                             /\ op[r].frame # dir'[s] /\ op[r].frame # tab'[s]
                             /\ \A v \in VPages : op[r].frame # pte'[s][v].frame
                             /\ op[s].pc = "frame" /\ op[s].frame = op[r].frame => r = s
    <3>1. op' = op
        BY <1>1
    <3> QED
        BY <3>1 DEF Taking
  <2>1. r # p /\ r # q
      BY <1>1, <1>5
  <2>2. op[r].frame # d /\ (tab[p] # None => op[r].frame # t)
      BY <1>3, <1>4 DEF Uses
  <2>3. /\ op[r].page \in VPages
        /\ op[r].frame # None
        /\ pte[r][op[r].page] = Absent
        /\ \A s \in Pids :
               /\ op[r].frame # dir[s] /\ op[r].frame # tab[s]
               /\ \A v \in VPages : op[r].frame # pte[s][v].frame
               /\ op[s].pc = "frame" /\ op[s].frame = op[r].frame => r = s
      BY DEF PagingInv, Taking
  <2>4. pte'[r][op[r].page] = Absent
      BY <1>8, <2>1, <2>3
  <2>5. \A s \in Pids : op[r].frame # dir'[s] /\ op[r].frame # tab'[s]
      BY <1>8, <2>2, <2>3
  <2>6. \A s \in Pids : \A v \in VPages : op[r].frame # pte'[s][v].frame
      BY <1>10, <2>3
  <2> QED
      BY <2>3, <2>4, <2>5, <2>6
<1>22. Dropping'
    BY <1>1, <1>6 DEF Dropping
<1>23. Filled'
  <2>1. content' = content
      BY <1>1
  <2>2. ASSUME NEW r \in Pids, NEW w \in VPages, pte'[r][w].frame # None
        PROVE  content[pte'[r][w].frame] # None
    <3>1. \E s \in Pids : pte'[r][w].frame = pte[s][w].frame
        BY <1>10
    <3> QED
        BY <2>2, <3>1 DEF PagingInv, Filled
  <2> QED
      BY <2>1, <2>2 DEF Filled
<1> QED
    BY <1>12, <1>16, <1>17, <1>18, <1>19, <1>20, <1>21, <1>22, <1>23 DEF PagingInv, FramesExact

-----------------------------------------------------------------------------
LEMMA InitInv == Init => PagingInv
<1> SUFFICES ASSUME Init PROVE PagingInv
    OBVIOUS
<1>1. PICK p \in Pids :
          LET f == Grab(Frames) IN
              /\ free = Frames \ {f}
              /\ ref = [g \in Frames |-> IF g = f THEN 1 ELSE 0]
              /\ dir = [q \in Pids |-> IF q = p THEN f ELSE None]
              /\ tab = [q \in Pids |-> None]
              /\ pte = [q \in Pids |-> [v \in VPages |-> Absent]]
              /\ content = [g \in Frames |-> None]
              /\ op = [q \in Pids |-> Running]
              /\ halted = FALSE
    BY DEF Init
<1> DEFINE f == Grab(Frames)
<1>2. f \in Frames /\ f # None
    BY GrabLemma, PagingConstants
<1>3. /\ free = Frames \ {f}
      /\ ref = [g \in Frames |-> IF g = f THEN 1 ELSE 0]
      /\ dir = [q \in Pids |-> IF q = p THEN f ELSE None]
      /\ tab = [q \in Pids |-> None]
      /\ pte = [q \in Pids |-> [v \in VPages |-> Absent]]
      /\ content = [g \in Frames |-> None]
      /\ op = [q \in Pids |-> Running]
      /\ halted = FALSE
    BY <1>1
<1> HIDE DEF f
<1>4. \A q \in Pids : /\ dir[q] = IF q = p THEN f ELSE None
                      /\ tab[q] = None /\ op[q] = Running
                      /\ \A v \in VPages : pte[q][v] = Absent
    BY <1>3
<1>5. TypeOK
  <2>1. [v \in VPages |-> Absent] \in [VPages -> Entry]
      BY DEF Entry, Absent
  <2>2. pte \in [Pids -> [VPages -> Entry]]
      BY <1>3, <2>1
  <2>3. Running \in Ops
      BY DEF Running, Ops
  <2> QED
      BY <1>2, <1>3, <2>2, <2>3 DEF TypeOK
<1>6. \A g \in Frames : \A q \in Pids : Uses(q, g) <=> q = p /\ g = f
    BY <1>2, <1>4, PagingConstants DEF Uses, Absent, Running
<1>7. NoDanglingMap /\ NoFrameLost
  <2>1. \A g \in Frames : g \in free <=> \A q \in Pids : ~ Uses(q, g)
      BY <1>3, <1>6
  <2> QED
      BY <1>5, <2>1, FreeLemma
<1>8. RefCountsExact
  <2> SUFFICES ASSUME NEW g \in Frames PROVE ref[g] = CountOf(g)
      BY CountLemma
  <2>1. CASE g # f
      BY <1>3, <1>6, <2>1, CountedUsed
  <2>2. CASE g = f
    <3>1. \A q \in Pids, v \in VPages : ~ Counts(q, v, g)
        BY <1>2, <1>4, <2>2 DEF Counts, Absent
    <3>2. Entries(g) = {}
        BY <3>1 DEF Entries
    <3>3. Tabs(g) = {}
        BY <1>2, <1>4, <2>2 DEF Tabs
    <3>4. Dirs(g) = {p}
        BY <1>2, <1>4, <2>2 DEF Dirs
    <3>5. Cardinality(Entries(g)) = 0 /\ Cardinality(Tabs(g)) = 0
        BY <3>2, <3>3, FS_EmptySet
    <3>6. Cardinality(Dirs(g)) = 1
        BY <3>4, FS_Singleton
    <3> QED
        BY <1>3, <2>2, <3>5, <3>6 DEF CountOf
  <2> QED
      BY <2>1, <2>2
<1>9. WritableIsPrivate
    BY <1>4 DEF WritableIsPrivate, Mapped, Absent
<1>10. Distinct /\ Living /\ Taking /\ Dropping /\ Filled
    BY <1>2, <1>4 DEF Distinct, Living, Taking, Dropping, Filled, Absent, Running, Alive
<1> QED
    BY <1>5, <1>7, <1>8, <1>9, <1>10 DEF PagingInv, FramesExact

LEMMA NextInv == PagingInv /\ [QuietNext]_vars => PagingInv'
<1> SUFFICES ASSUME PagingInv, [QuietNext]_vars PROVE PagingInv'
    OBVIOUS
<1>1. ASSUME NEW p \in Pids, Undisturbed(p), Step(p)
      PROVE  PagingInv'
  <2>1. ASSUME NEW v \in VPages, AllocTable(p, v) PROVE PagingInv'
      BY <2>1, AllocTableKeeps
  <2>2. ASSUME NEW v \in VPages, AllocFrame(p, v) PROVE PagingInv'
      BY <2>2, AllocFrameKeeps
  <2>3. ASSUME NEW v \in VPages, NEW x \in Values, Store(p, v, x) PROVE PagingInv'
      BY <2>3, StoreKeeps
  <2>4. ASSUME NEW v \in VPages, PageFault(p, v) PROVE PagingInv'
      BY <1>1, <2>4, PageFaultKeeps
  <2>5. ASSUME NEW v \in VPages, ClearDeref(p, v) PROVE PagingInv'
      BY <1>1, <2>5, ClearDerefKeeps
  <2>6. ASSUME AllocMap(p) PROVE PagingInv'
      BY <2>6, AllocMapKeeps
  <2>7. ASSUME NEW q \in Pids, Fork(p, q) PROVE PagingInv'
      BY <1>1, <2>7, ForkKeeps
  <2>8. ASSUME Exit(p) PROVE PagingInv'
      BY <1>1, <2>8, ExitKeeps
  <2>9. ASSUME ClearFree(p) PROVE PagingInv'
      BY <2>9, ClearFreeKeeps
  <2>10. ASSUME ClearTable(p) PROVE PagingInv'
      BY <2>10, ClearTableKeeps
  <2> QED
      BY <1>1, <2>1, <2>2, <2>3, <2>4, <2>5, <2>6, <2>7, <2>8, <2>9, <2>10 DEF Step
<1>2. ASSUME NEW p \in Pids, NEW v \in VPages, Undisturbed(p),
             Dealloc(p, v), ~ Shared(pte[p][v].frame)
      PROVE  PagingInv'
    BY <1>2, DeallocKeeps
<1>3. ASSUME NEW p \in Pids, NEW v \in VPages, NEW x \in Values, KernelStore(p, v, x)
      PROVE  PagingInv'
    BY <1>3, StoreKeeps
<1>4. CASE UNCHANGED vars
  <2> USE <1>4 DEF vars
  <2>1. TypeOK'
      BY DEF PagingInv, TypeOK
  <2>2. NoDanglingMap' /\ NoFrameLost'
      BY DEF PagingInv, FramesExact, NoDanglingMap, NoFrameLost, Held, FramesOf, Mapped
  <2>3. RefCountsExact' /\ WritableIsPrivate'
      BY DEF PagingInv, FramesExact, RefCountsExact, Entries, Counts, WritableIsPrivate, Mapped
  <2>4. Distinct' /\ Living' /\ Taking' /\ Dropping' /\ Filled'
      BY DEF PagingInv, Distinct, Living, Alive, Taking, Dropping, Undisturbed, Filled
  <2> QED
      BY <2>1, <2>2, <2>3, <2>4 DEF PagingInv, FramesExact
<1> QED
    BY <1>1, <1>2, <1>3, <1>4 DEF QuietNext

(* Along every run of the quiet system the invariant holds.                *)
THEOREM PagingInvariant == QuietSpec => []PagingInv
<1> QED
    BY InitInv, NextInv, PTL DEF QuietSpec

(* Every variable keeps its type; a count is never taken below zero.       *)
THEOREM PagingTyped == QuietSpec => []TypeOK
<1>1. PagingInv => TypeOK
    BY DEF PagingInv
<1> QED
    BY <1>1, PagingInvariant, PTL

(* Whatever the order of faults, forks, execs, exits and brk()s: a frame   *)
(* is free exactly while nobody uses it, giRefCount says by how many it is *)
(* used, and a page that can be written without a fault is mapped once.    *)
THEOREM FramesAlwaysExact == QuietSpec => []FramesExact
<1>1. PagingInv => FramesExact
    BY DEF PagingInv
<1> QED
    BY <1>1, PagingInvariant, PTL

-----------------------------------------------------------------------------
(* Fork and copy-on-write implement private memory.                        *)
AliveOnes == {p \in Pids : Alive(p)}
Holds(p, v) == IF pte[p][v].frame # None THEN content[pte[p][v].frame] ELSE None
Memory == [p \in Pids |-> [v \in VPages |-> Holds(p, v)]]

(* The refinement mapping of Paging, in these terms.                       *)
Promised == Private!Next \/ UNCHANGED <<AliveOnes, Memory>>

LEMMA MemoryIs ==
    /\ Memory = [p \in Pids |-> [v \in VPages |->
                    IF v \in Mapped(p) THEN content[pte[p][v].frame] ELSE None]]
    /\ Memory' = [p \in Pids |-> [v \in VPages |->
                    IF v \in Mapped(p) THEN content[pte[p][v].frame] ELSE None]]'
    BY DEF Memory, Holds, Mapped

LEMMA SameMemory ==
    ASSUME \A p \in Pids, v \in VPages : Holds(p, v)' = Holds(p, v)
    PROVE  Memory' = Memory
    BY DEF Memory

LEMMA OneChange ==
    ASSUME NEW p \in Pids, NEW v \in VPages, NEW x,
           \A q \in Pids, w \in VPages :
               Holds(q, w)' = IF q = p /\ w = v THEN x ELSE Holds(q, w)
    PROVE  Memory' = [Memory EXCEPT ![p][v] = x]
    BY DEF Memory

(* A step of the abstract specification, in terms of Memory.               *)
LEMMA MapPromised ==
    ASSUME NEW p \in AliveOnes, NEW v \in VPages, NEW x \in Values, Memory[p][v] = None,
           Memory' = [Memory EXCEPT ![p][v] = x], AliveOnes' = AliveOnes
    PROVE  Promised
<1>1. Private!Map(p, v)
    BY MemoryIs DEF Private!Map, AliveOnes
<1> QED
    BY <1>1 DEF Promised, Private!Next, AliveOnes

LEMMA UnmapPromised ==
    ASSUME NEW p \in AliveOnes, NEW v \in VPages,
           Memory' = [Memory EXCEPT ![p][v] = None], AliveOnes' = AliveOnes
    PROVE  Promised
<1>1. Private!Unmap(p, v)
    BY MemoryIs DEF Private!Unmap, AliveOnes
<1> QED
    BY <1>1 DEF Promised, Private!Next, AliveOnes

LEMMA StorePromised ==
    ASSUME NEW p \in AliveOnes, NEW v \in VPages, NEW x \in Values, Memory[p][v] # None,
           Memory' = [Memory EXCEPT ![p][v] = x], AliveOnes' = AliveOnes
    PROVE  Promised
<1>1. Private!Store(p, v, x)
    BY MemoryIs DEF Private!Store, AliveOnes
<1> QED
    BY <1>1 DEF Promised, Private!Next, AliveOnes

LEMMA ForkPromised ==
    ASSUME NEW p \in AliveOnes, NEW q \in Pids \ AliveOnes,
           Memory' = [Memory EXCEPT ![q] = Memory[p]], AliveOnes' = AliveOnes \cup {q}
    PROVE  Promised
<1>1. Private!Fork(p, q)
    BY MemoryIs DEF Private!Fork, AliveOnes
<1> QED
    BY <1>1 DEF Promised, Private!Next, AliveOnes

LEMMA ExitPromised ==
    ASSUME NEW p \in AliveOnes,
           Memory' = [Memory EXCEPT ![p] = [v \in VPages |-> None]], AliveOnes' = AliveOnes \ {p}
    PROVE  Promised
<1>1. Private!Exit(p)
    BY MemoryIs DEF Private!Exit, AliveOnes
<1> QED
    BY <1>1 DEF Promised, Private!Next, AliveOnes

(* A store to a page that is mapped nowhere else.                          *)
LEMMA StoreRefines ==
    ASSUME PagingInv, NEW p \in Pids, NEW v \in VPages, NEW x \in Values,
           Alive(p), pte[p][v].frame # None, pte[p][v].mode = "write",
           content' = [content EXCEPT ![pte[p][v].frame] = x],
           dir' = dir, pte' = pte
    PROVE  Promised
<1>1. \A q \in Pids, w \in VPages : pte[q][w].frame # None => pte[q][w].frame \in Frames
    BY DEF PagingInv, TypeOK, Entry
<1>2. \A q \in Pids, w \in VPages :
          pte[q][w].frame # None /\ pte[q][w].frame = pte[p][v].frame => q = p /\ w = v
    BY DEF PagingInv, FramesExact, WritableIsPrivate, Mapped
<1>3. \A f \in Frames : content'[f] = IF f = pte[p][v].frame THEN x ELSE content[f]
    BY DEF PagingInv, TypeOK
<1>4. \A q \in Pids, w \in VPages :
          Holds(q, w)' = IF q = p /\ w = v THEN x ELSE Holds(q, w)
    BY <1>1, <1>2, <1>3 DEF Holds
<1>5. Memory' = [Memory EXCEPT ![p][v] = x]
    BY <1>4, OneChange
<1>6. Memory[p][v] # None
    BY DEF Memory, Holds, PagingInv, Filled
<1>7. p \in AliveOnes /\ AliveOnes' = AliveOnes
    BY DEF AliveOnes, Alive
<1> QED
    BY <1>5, <1>6, <1>7, StorePromised

(* A page whose frame nobody else has is unmapped; what the frame held is  *)
(* forgotten if it is freed.                                               *)
LEMMA UnmapRefines ==
    ASSUME PagingInv, NEW p \in Pids, NEW v \in VPages, NEW s,
           Alive(p), dir' = dir,
           pte' = [pte EXCEPT ![p][v] = Absent],
           content' = [f \in Frames |-> IF f \in s THEN None ELSE content[f]],
           \A q \in Pids, w \in VPages :
               pte[q][w].frame # None /\ pte[q][w].frame \in s => q = p /\ w = v
    PROVE  Promised
<1>1. \A q \in Pids, w \in VPages : pte'[q][w] = IF q = p /\ w = v THEN Absent ELSE pte[q][w]
    BY DEF PagingInv, TypeOK
<1>2. \A q \in Pids, w \in VPages : pte[q][w].frame # None => pte[q][w].frame \in Frames
    BY DEF PagingInv, TypeOK, Entry
<1>3. \A q \in Pids, w \in VPages :
          Holds(q, w)' = IF q = p /\ w = v THEN None ELSE Holds(q, w)
    BY <1>1, <1>2 DEF Holds, Absent
<1>4. Memory' = [Memory EXCEPT ![p][v] = None]
    BY <1>3, OneChange
<1>5. p \in AliveOnes /\ AliveOnes' = AliveOnes
    BY DEF AliveOnes, Alive
<1> QED
    BY <1>4, <1>5, UnmapPromised

(* Steps that change neither what is mapped nor what it holds.             *)
LEMMA StutterRefines ==
    ASSUME dir' = dir, pte' = pte, content' = content
    PROVE  Promised
<1>1. Memory' = Memory /\ AliveOnes' = AliveOnes
    BY DEF Memory, Holds, AliveOnes, Alive
<1> QED
    BY <1>1 DEF Promised

LEMMA AllocMapRefines ==
    ASSUME PagingInv, NEW p \in Pids, AllocMap(p)
    PROVE  Promised
<1>0. PICK g \in Frames, v \in VPages : g = op[p].frame /\ v = op[p].page
    BY PagingConstants DEF AllocMap, PagingInv, TypeOK, Ops, Taking
<1>1. PICK x \in Values : content' = [content EXCEPT ![g] = x]
    BY <1>0 DEF AllocMap
<1>2. /\ op[p].pc = "frame" /\ dir' = dir
      /\ pte' = [pte EXCEPT ![p][v] = [frame |-> g, mode |-> "write"]]
    BY <1>0 DEF AllocMap
<1>3. g # None /\ pte[p][v] = Absent /\ \A q \in Pids, w \in VPages : pte[q][w].frame # g
    BY <1>0, <1>2 DEF PagingInv, Taking
<1>4. /\ \A q \in Pids, w \in VPages :
             pte'[q][w] = IF q = p /\ w = v THEN [frame |-> g, mode |-> "write"] ELSE pte[q][w]
      /\ \A q \in Pids, w \in VPages : pte[q][w].frame # None => pte[q][w].frame \in Frames
      /\ \A f \in Frames : content'[f] = IF f = g THEN x ELSE content[f]
    BY <1>1, <1>2 DEF PagingInv, TypeOK, Entry
<1>5. \A q \in Pids, w \in VPages :
          Holds(q, w)' = IF q = p /\ w = v THEN x ELSE Holds(q, w)
    BY <1>3, <1>4 DEF Holds
<1>6. Memory' = [Memory EXCEPT ![p][v] = x]
    BY <1>5, OneChange
<1>7. Memory[p][v] = None
    BY <1>3 DEF Memory, Holds, Absent
<1>8. p \in AliveOnes /\ AliveOnes' = AliveOnes
    BY <1>2 DEF PagingInv, Living, AliveOnes, Alive
<1> QED
    BY <1>6, <1>7, <1>8, MapPromised

LEMMA ForkRefines ==
    ASSUME PagingInv, NEW p \in Pids, NEW q \in Pids, Undisturbed(p), Fork(p, q)
    PROVE  Promised
<1>0. CASE Halt
    BY <1>0, StutterRefines DEF Halt
<1>1. CASE ~ Halt
  <2>1. PICK d \in Frames : dir' = [dir EXCEPT ![q] = d]
    <3>1. dir' = [dir EXCEPT ![q] = Grab(free)] /\ free # {}
        BY <1>1 DEF Fork
    <3> QED
        BY <3>1, GrabFree
  <2>2. /\ dir[p] # None /\ dir[q] = None /\ p # q
        /\ pte' = [pte EXCEPT ![p] = Cowed(p), ![q] = Cowed(p)]
        /\ content' = content
      BY <1>1 DEF Fork, Runs, Alive
  <2>3. \A v \in VPages : Cowed(p)[v].frame = pte[p][v].frame
    <3>1. \A v \in VPages : pte[p][v] \in Entry
        BY DEF PagingInv, TypeOK
    <3> QED
        BY <3>1 DEF Cowed, Mapped, Absent, Entry
  <2>4. \A r \in Pids, w \in VPages :
            pte'[r][w].frame = IF r = q THEN pte[p][w].frame ELSE pte[r][w].frame
    <3>1. \A r \in Pids : pte'[r] = IF r = p \/ r = q THEN Cowed(p) ELSE pte[r]
        BY <2>2 DEF PagingInv, TypeOK
    <3> QED
        BY <2>3, <3>1
  <2>5. \A r \in Pids, w \in VPages :
            Holds(r, w)' = IF r = q THEN Holds(p, w) ELSE Holds(r, w)
    <3>1. content' = content
        BY <2>2
    <3> QED
        BY <2>4, <3>1 DEF Holds
  <2>6. Memory' = [Memory EXCEPT ![q] = Memory[p]]
      BY <2>5 DEF Memory
  <2>7. \A r \in Pids : dir'[r] = IF r = q THEN d ELSE dir[r]
      BY <2>1 DEF PagingInv, TypeOK
  <2>8. d # None
      BY PagingConstants
  <2>9. p \in AliveOnes /\ q \in Pids \ AliveOnes /\ AliveOnes' = AliveOnes \cup {q}
      BY <2>2, <2>7, <2>8 DEF AliveOnes, Alive
  <2> QED
      BY <2>6, <2>9, ForkPromised
<1> QED
    BY <1>0, <1>1

LEMMA PageFaultRefines ==
    ASSUME PagingInv, NEW p \in Pids, NEW v \in VPages, PageFault(p, v)
    PROVE  Promised
<1>0. CASE Halt
    BY <1>0, StutterRefines DEF Halt
<1>1. CASE Shared(pte[p][v].frame) /\ ~ Halt
  <2>1. free # {}
      BY <1>1 DEF PageFault
  <2>2. PICK g \in Frames : g = Grab(free) /\ g # None /\ \A q \in Pids : ~ Uses(q, g)
      BY <2>1, GrabFree
  <2>3. PICK f \in Frames : f = pte[p][v].frame /\ f # None
      BY DEF PageFault, Mapped, PagingInv, TypeOK, Entry
  <2>4. /\ content' = [content EXCEPT ![g] = content[f]]
        /\ pte' = [pte EXCEPT ![p][v] = [frame |-> g, mode |-> "write"]]
        /\ dir' = dir
      BY <1>1, <2>1, <2>2, <2>3 DEF PageFault
  <2>5. /\ \A q \in Pids, w \in VPages :
               pte'[q][w] = IF q = p /\ w = v THEN [frame |-> g, mode |-> "write"] ELSE pte[q][w]
        /\ \A q \in Pids, w \in VPages : pte[q][w].frame # None =>
               pte[q][w].frame \in Frames /\ pte[q][w].frame # g
        /\ \A h \in Frames : content'[h] = IF h = g THEN content[f] ELSE content[h]
      BY <2>2, <2>4 DEF PagingInv, TypeOK, Entry, Uses
  <2>6. \A q \in Pids, w \in VPages : Holds(q, w)' = Holds(q, w)
      BY <2>2, <2>3, <2>5 DEF Holds
  <2>7. Memory' = Memory
      BY <2>6, SameMemory
  <2>8. AliveOnes' = AliveOnes
      BY <2>4 DEF AliveOnes, Alive
  <2> QED
      BY <2>7, <2>8 DEF Promised
<1>2. CASE ~ Shared(pte[p][v].frame)
  <2>1. pte' = [pte EXCEPT ![p][v].mode = "write"] /\ dir' = dir /\ content' = content
      BY <1>2 DEF PageFault
  <2>2. \A q \in Pids, w \in VPages : pte'[q][w].frame = pte[q][w].frame
      BY <2>1 DEF PagingInv, TypeOK, Entry
  <2>3. \A q \in Pids, w \in VPages : Holds(q, w)' = Holds(q, w)
      BY <2>1, <2>2 DEF Holds
  <2>4. Memory' = Memory
      BY <2>3, SameMemory
  <2>5. AliveOnes' = AliveOnes
      BY <2>1 DEF AliveOnes, Alive
  <2> QED
      BY <2>4, <2>5 DEF Promised
<1> QED
    BY <1>0, <1>1, <1>2

LEMMA ClearFreeRefines ==
    ASSUME PagingInv, NEW p \in Pids, ClearFree(p)
    PROVE  Promised
<1>0. PICK f \in Frames, v \in VPages : f = op[p].frame /\ v = op[p].page
    BY PagingConstants DEF ClearFree, PagingInv, TypeOK, Ops, Dropping
<1> DEFINE s == {f} \cap {h \in Frames : ref[h] = 0}
<1>1. /\ op[p].pc = "drop" /\ dir' = dir
      /\ pte' = [pte EXCEPT ![p][v] = Absent]
      /\ content' = [h \in Frames |-> IF h \in s THEN None ELSE content[h]]
    BY <1>0 DEF ClearFree, FreePhys
<1>2. Alive(p)
    BY <1>1 DEF PagingInv, Living
<1>3. f # None /\ pte[p][v].frame = f /\ \A q \in Pids : q # p => op[q].pc # "drop"
    BY <1>0, <1>1 DEF PagingInv, Dropping, Undisturbed
<1>4. \A q \in Pids, w \in VPages :
          pte[q][w].frame # None /\ pte[q][w].frame \in s => q = p /\ w = v
  <2> SUFFICES ASSUME NEW q \in Pids, NEW w \in VPages, pte[q][w].frame \in s
               PROVE  q = p /\ w = v
      OBVIOUS
  <2>1. pte[q][w].frame = f /\ ref[f] = 0
      OBVIOUS
  <2>2. ~ Counts(q, w, f)
      BY <2>1, CountZero, EntryLemma
  <2>3. q = p
      BY <1>3, <2>1, <2>2 DEF Counts
  <2> QED
      BY <1>3, <2>1, <2>3 DEF PagingInv, Distinct
<1> HIDE DEF s
<1> QED
    BY <1>1, <1>2, <1>4, UnmapRefines

LEMMA ClearTableRefines ==
    ASSUME PagingInv, NEW p \in Pids, ClearTable(p)
    PROVE  Promised
<1>1. /\ dir' = dir /\ pte' = pte /\ tab[p] # None
      /\ content' = [h \in Frames |-> IF h \in Unused({tab[p]}) THEN None ELSE content[h]]
    BY DEF ClearTable, FreePhys
<1>2. \A q \in Pids, w \in VPages :
          pte[q][w].frame # None => pte[q][w].frame \in Frames /\ pte[q][w].frame # tab[p]
    BY DEF PagingInv, TypeOK, Entry, Distinct
<1>3. \A q \in Pids, w \in VPages : Holds(q, w)' = Holds(q, w)
    BY <1>1, <1>2 DEF Holds, Unused
<1>4. Memory' = Memory
    BY <1>3, SameMemory
<1>5. AliveOnes' = AliveOnes
    BY <1>1 DEF AliveOnes, Alive
<1> QED
    BY <1>4, <1>5 DEF Promised

LEMMA DeallocRefines ==
    ASSUME PagingInv, NEW p \in Pids, NEW v \in VPages, Undisturbed(p),
           Dealloc(p, v), ~ Shared(pte[p][v].frame)
    PROVE  Promised
<1>1. /\ dir' = dir /\ Alive(p) /\ op[p].pc = "run"
      /\ pte' = [pte EXCEPT ![p][v] = Absent]
      /\ content' = [h \in Frames |-> IF h \in {pte[p][v].frame} THEN None ELSE content[h]]
    BY DEF Dealloc, FreePhys, Runs
<1>2. PICK f \in Frames : f = pte[p][v].frame
    BY DEF Dealloc, Mapped, PagingInv, TypeOK, Entry
<1>3. ref[f] \in Nat /\ ~ (ref[f] > 1)
    BY <1>2 DEF Shared, PagingInv, TypeOK
<1>4. ref[f] =< 1
    BY <1>3
<1>5. \A q \in Pids, w \in VPages : pte[q][w].frame = f => q = p /\ w = v
    BY <1>1, <1>2, <1>4, LastUser
<1>6. /\ content' = [h \in Frames |-> IF h \in {f} THEN None ELSE content[h]]
      /\ \A q \in Pids, w \in VPages :
             pte[q][w].frame # None /\ pte[q][w].frame \in {f} => q = p /\ w = v
    BY <1>1, <1>2, <1>5
<1> QED
    BY <1>1, <1>6, UnmapRefines

LEMMA ExitRefines ==
    ASSUME PagingInv, NEW p \in Pids, Undisturbed(p), Exit(p), PagingInv'
    PROVE  Promised
<1>1. /\ dir[p] # None
      /\ dir' = [dir EXCEPT ![p] = None]
      /\ pte' = [pte EXCEPT ![p] = [v \in VPages |-> Absent]]
      /\ content' = [h \in Frames |-> IF h \in Unused(Own(p)) THEN None ELSE content[h]]
    BY DEF Exit, Runs, Alive, Remove, FreePhys
<1>2. \A q \in Pids : /\ dir'[q] = IF q = p THEN None ELSE dir[q]
                      /\ \A w \in VPages : pte'[q][w] = IF q = p THEN Absent ELSE pte[q][w]
    BY <1>1 DEF PagingInv, TypeOK
(* What the others read was not given back: it would be lost.              *)
<1>3. ASSUME NEW q \in Pids, NEW w \in VPages
      PROVE  Holds(q, w)' = IF q = p THEN None ELSE Holds(q, w)
  <2>1. CASE q = p
      BY <1>2, <2>1 DEF Holds, Absent
  <2>2. CASE q # p /\ pte[q][w].frame # None
    <3>1. PICK f \in Frames : f = pte[q][w].frame /\ f # None
        BY <2>2 DEF PagingInv, TypeOK, Entry
    <3>2. pte'[q][w].frame = f
        BY <1>2, <2>2, <3>1
    <3>3. content'[f] # None
        BY <3>1, <3>2 DEF PagingInv, Filled
    <3>4. content'[f] = content[f]
        BY <1>1, <3>3
    <3> QED
        BY <2>2, <3>1, <3>2, <3>4 DEF Holds
  <2>3. CASE q # p /\ pte[q][w].frame = None
      BY <1>2, <2>3 DEF Holds
  <2> QED
      BY <2>1, <2>2, <2>3
<1>4. Memory' = [Memory EXCEPT ![p] = [v \in VPages |-> None]]
    BY <1>3 DEF Memory
<1>5. p \in AliveOnes /\ AliveOnes' = AliveOnes \ {p}
    BY <1>1, <1>2 DEF AliveOnes, Alive
<1> QED
    BY <1>4, <1>5, ExitPromised

LEMMA NextRefines == PagingInv /\ PagingInv' /\ [QuietNext]_vars => Promised
<1> SUFFICES ASSUME PagingInv, PagingInv', [QuietNext]_vars PROVE Promised
    OBVIOUS
<1>1. ASSUME NEW p \in Pids, Undisturbed(p), Step(p)
      PROVE  Promised
  <2>1. ASSUME NEW v \in VPages, AllocTable(p, v) \/ AllocFrame(p, v) \/ ClearDeref(p, v)
        PROVE  Promised
    <3>1. dir' = dir /\ pte' = pte /\ content' = content
        BY <2>1 DEF AllocTable, AllocFrame, ClearDeref, Halt
    <3> QED
        BY <3>1, StutterRefines
  <2>2. ASSUME NEW v \in VPages, NEW x \in Values, Store(p, v, x) PROVE Promised
    <3>1. /\ Alive(p) /\ pte[p][v].frame # None /\ pte[p][v].mode = "write"
          /\ content' = [content EXCEPT ![pte[p][v].frame] = x]
          /\ dir' = dir /\ pte' = pte
        BY <2>2 DEF Store, Runs, Mapped
    <3> QED
        BY <3>1, StoreRefines
  <2>3. ASSUME NEW v \in VPages, PageFault(p, v) PROVE Promised
      BY <2>3, PageFaultRefines
  <2>4. ASSUME AllocMap(p) PROVE Promised
      BY <2>4, AllocMapRefines
  <2>5. ASSUME NEW q \in Pids, Fork(p, q) PROVE Promised
      BY <1>1, <2>5, ForkRefines
  <2>6. ASSUME Exit(p) PROVE Promised
      BY <1>1, <2>6, ExitRefines
  <2>7. ASSUME ClearFree(p) PROVE Promised
      BY <2>7, ClearFreeRefines
  <2>8. ASSUME ClearTable(p) PROVE Promised
      BY <2>8, ClearTableRefines
  <2> QED
      BY <1>1, <2>1, <2>2, <2>3, <2>4, <2>5, <2>6, <2>7, <2>8 DEF Step
<1>2. ASSUME NEW p \in Pids, NEW v \in VPages, Undisturbed(p),
             Dealloc(p, v), ~ Shared(pte[p][v].frame)
      PROVE  Promised
    BY <1>2, DeallocRefines
<1>3. ASSUME NEW p \in Pids, NEW v \in VPages, NEW x \in Values,
             KernelStore(p, v, x), pte[p][v].mode = "write"
      PROVE  Promised
  <2>1. /\ Alive(p) /\ pte[p][v].frame # None
        /\ content' = [content EXCEPT ![pte[p][v].frame] = x]
        /\ dir' = dir /\ pte' = pte
      BY <1>3 DEF KernelStore, Runs, Mapped
  <2> QED
      BY <1>3, <2>1, StoreRefines
<1>4. CASE UNCHANGED vars
    BY <1>4, StutterRefines DEF vars
<1> QED
    BY <1>1, <1>2, <1>3, <1>4 DEF QuietNext

LEMMA InitRefines == Init => Private!Init
<1> SUFFICES ASSUME Init PROVE Private!Init
    OBVIOUS
<1>1. PICK p \in Pids : /\ dir = [q \in Pids |-> IF q = p THEN Grab(Frames) ELSE None]
                        /\ pte = [q \in Pids |-> [v \in VPages |-> Absent]]
    BY DEF Init
<1>2. Grab(Frames) # None
    BY GrabLemma, PagingConstants
<1>3. AliveOnes = {p}
    BY <1>1, <1>2 DEF AliveOnes, Alive
<1>4. Memory = [q \in Pids |-> [v \in VPages |-> None]]
    BY <1>1 DEF Memory, Holds, Absent
<1> QED
    BY <1>3, <1>4, MemoryIs DEF Private!Init, AliveOnes

(* Page tables, counts and copy-on-write implement processes with a memory *)
(* of their own: fork gives the child a copy, and from then on neither     *)
(* sees what the other one writes.                                         *)
THEOREM PagingIsPrivate == QuietSpec => PrivateSpec
<1>1. Init => Private!Init
    BY InitRefines
<1>2. PagingInv /\ PagingInv' /\ [QuietNext]_vars =>
          [Private!Next]_<<{p \in Pids : Alive(p)},
                           [p \in Pids |-> [v \in VPages |->
                               IF v \in Mapped(p) THEN content[pte[p][v].frame] ELSE None]]>>
    BY NextRefines, MemoryIs DEF Promised, AliveOnes
<1> QED
    BY <1>1, <1>2, PagingInvariant, PTL DEF QuietSpec, PrivateSpec, Private!Spec
=============================================================================
