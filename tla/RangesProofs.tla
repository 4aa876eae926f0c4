---------------------------- MODULE RangesProofs ----------------------------
(***************************************************************************)
(* Proofs about the page allocator (PhysMem) and the kernel's mappings on  *)
(* top of it (KernelRanges), for any number of processes, drivers, pages,  *)
(* slots and bits in a word.                                               *)
(*                                                                         *)
(* The inductive invariant RangesInv has a part for each group of          *)
(* variables: the bitmaps, the hardware range, the slots, what processes do*)
(* with slots, and the page directories, which are the only pages that are *)
(* given back.                                                             *)
(***************************************************************************)
EXTENDS KernelRanges, FiniteSetTheorems, WellFoundedInduction, TLAPS

-----------------------------------------------------------------------------
(* The invariant                                                           *)

BitInv ==
    /\ bits \subseteq Pages
    /\ supers \subseteq Words
    /\ given \in [Pages -> Nat]
    /\ state \in {"runs", "hang", "panic"}
    /\ GrantedOnce
    /\ SearchSound

(* What a driver has mapped is marked, is mapped, and is nobody else's.  A *)
(* word of the hardware range that is searched has a free page.            *)
HwInv ==
    /\ hwBits \subseteq HWPages
    /\ hwSupers \subseteq 0 .. HW \div W - 1
    /\ table \in [HWPages -> Opt(Nat)]
    /\ hw \in [Holders -> [at : Opt(HWPages), phys : Opt(Nat), count : 0 .. HW]]
    /\ \A w \in 0 .. HW \div W - 1 : w \notin hwSupers => ~ PagesOf(w) \subseteq hwBits
    /\ \A h \in Holders : hw[h] # NoMap =>
          /\ hw[h].at \in HWPages
          /\ hw[h].phys \in Nat
          /\ Run(hw[h].at, hw[h].count) \subseteq hwBits
          /\ \A v \in Run(hw[h].at, hw[h].count) : table[v] = hw[h].phys + v - hw[h].at
    /\ \A g, h \in Holders : g # h /\ hw[g] # NoMap /\ hw[h] # NoMap =>
          Run(hw[g].at, hw[g].count) \cap Run(hw[h].at, hw[h].count) = {}

InSlots(t, f) == {i \in Slot : t[i] = f}
SlotInv ==
    /\ temp \in [Slot -> Opt(Pages)]
    /\ refs \in [Pages -> Nat]
    /\ \A f \in Pages : refs[f] = Cardinality(InSlots(temp, f))

JobType == [pc : {"idle", "map", "fill", "read", "zero", "local", "dup", "dup2", "copy"},
            from : Opt(Pages), to : Opt(Pages), a : Opt(Slot), b : Opt(Slot),
            tries : 0 .. Tries, child : Opt(Procs), dir : Opt(Pages)]

Cloning(p) == job[p].pc \in {"local", "dup", "dup2", "copy"}
Copying(p) == job[p].pc \in {"dup", "dup2", "copy"}
UsesA(p) == job[p].pc \in {"read", "dup2", "copy"}
UsesB(p) == job[p].pc = "copy"
Uses(p, i) == (UsesA(p) /\ job[p].a = i) \/ (UsesB(p) /\ job[p].b = i)

JobOK(p) ==
    /\ job[p].pc \in {"idle", "map", "read", "local", "dup", "dup2", "copy"}
    /\ job[p].pc = "map" => job[p].to \in Pages
    /\ UsesA(p) => job[p].a \in Slot /\ job[p].to \in Pages /\ temp[job[p].a] = job[p].to
    /\ UsesB(p) => job[p].b \in Slot /\ temp[job[p].b] = job[p].from
    /\ Copying(p) =>
          /\ job[p].to \in Pages /\ job[p].from \in Pages
          /\ job[p].from # job[p].to
          /\ ToCopy(job[p].child) # {}
    /\ Cloning(p) => job[p].child \in Procs /\ dir[job[p].child] = None /\ job[p].dir \in Pages

JobInv ==
    /\ dir \in [Procs -> Opt(Pages)]
    /\ local \in [Procs -> [1 .. Local -> Opt(Pages)]]
    /\ job \in [Procs -> JobType]
    /\ \A p \in Procs : JobOK(p)
    /\ \A p, q \in Procs : p # q =>
          /\ \A i \in Slot : ~ (Uses(p, i) /\ Uses(q, i))
          /\ Cloning(p) /\ Cloning(q) => job[p].child # job[q].child

(* The directories that mm_remove() will give back: all but the first one. *)
Dirs == {f \in Pages : f # 0 /\ \E p \in Procs : dir[p] = f \/ (Cloning(p) /\ job[p].dir = f)}

(* They are in use, of one process each, and no page of data is one.       *)
DirInv ==
    /\ \A p \in Procs : dir[p] # None => dir[p] \in bits
    /\ \A p \in Procs : Cloning(p) => job[p].dir \in bits /\ job[p].dir # 0
    /\ \A p \in Procs : Copying(p) => job[p].to \in bits
    /\ \A p \in Procs : \A i \in 1 .. Local : local[p][i] # None => local[p][i] \in bits
    /\ \A p \in Procs : \A i \in 1 .. Local : dir[p] # None => local[p][i] # None
    /\ \A f \in Dirs :
          /\ given[f] = 1
          /\ \A p \in Procs : Copying(p) => job[p].to # f
          /\ \A p \in Procs : \A i \in 1 .. Local : local[p][i] # f
    /\ \A p, q \in Procs : p # q /\ dir[p] # None => dir[p] # dir[q]
    /\ \A p, q \in Procs : Cloning(p) => job[p].dir # dir[q]
    /\ \A p, q \in Procs : p # q /\ Cloning(p) /\ Cloning(q) => job[p].dir # job[q].dir

(* A run counts as one page, so that the count is too low rather than too  *)
(* high; but it covers the directories, and so never falls below 0.        *)
CountInv ==
    /\ used \in Int
    /\ Cardinality(Dirs) <= used
    /\ used <= Cardinality(bits)

RangesInv == BitInv /\ HwInv /\ SlotInv /\ JobInv /\ DirInv /\ CountInv
-----------------------------------------------------------------------------
(* Words and pages                                                         *)

LessNat == {ss \in Nat \X Nat : ss[1] < ss[2]}

(* First() finds the least of any numbers, if there are any.               *)
LEMMA FirstIsLeast ==
    ASSUME NEW S \in SUBSET Nat, S # {}
    PROVE  First(S) \in S /\ \A y \in S : First(S) <= y
<1>1. IsWellFoundedOn(LessNat, Nat)
  BY NatLessThanWellFounded DEF OpToRel, LessNat
<1>2. \E x \in S : \A y \in S : ~ (<<y, x>> \in LessNat)
  BY <1>1, WFMin, Zenon
<1>3. PICK x \in S : \A y \in S : ~ (<<y, x>> \in LessNat)
  BY <1>2
<1>4. \A y \in S : x <= y
  <2>1. SUFFICES ASSUME NEW y \in S, y < x PROVE FALSE
    OBVIOUS
  <2>2. <<y, x>> \in Nat \X Nat
    BY <2>1
  <2>3. <<y, x>>[1] < <<y, x>>[2]
    BY <2>1
  <2> QED
    BY <1>3, <2>2, <2>3 DEF LessNat
<1> QED
  BY <1>4 DEF First

LEMMA ConstantsFacts ==
    /\ W \in Nat /\ W >= 1 /\ Total \in Nat /\ Reserved \in Nat
    /\ Reserved >= 1 /\ Reserved < Total /\ HW \in Nat
    /\ Slots \in Nat /\ Local \in Nat /\ Tries \in Nat
    /\ None \notin Nat
BY PhysConstants, RangesConstants

LEMMA WordOfPage ==
    ASSUME NEW w \in Nat, NEW f \in PagesOf(w)
    PROVE  f \in Nat /\ f \div W = w
BY PhysConstants DEF PagesOf

LEMMA PageOfWord ==
    ASSUME NEW f \in Nat
    PROVE  f \div W \in Nat /\ f \in PagesOf(f \div W)
BY PhysConstants DEF PagesOf

LEMMA WordInUse ==
    ASSUME NEW w \in Nat
    PROVE  PagesOf(w) # {} /\ PagesOf(w) \subseteq Nat
<1>1. w * W \in Nat /\ w * W <= w * W + W - 1
  BY PhysConstants
<1>2. w * W \in PagesOf(w)
  BY <1>1, ConstantsFacts DEF PagesOf
<1>3. \A f \in PagesOf(w) : f \in Nat
  BY <1>1, ConstantsFacts DEF PagesOf
<1> QED
  BY <1>2, <1>3

LEMMA WordIsWord ==
    ASSUME NEW f \in Pages
    PROVE  f \in Nat /\ f \div W \in Words /\ f \div W \in Nat
BY PhysConstants DEF Pages, Words

(* All words a search looks at are summarised, and all of their pages are  *)
(* pages.                                                                  *)
LEMMA SearchedWords ==
    ASSUME NEW a \in 0 .. SuperCount - 1, NEW w \in WordsOf(a)
    PROVE  w \in 0 .. SuperCount * W - 1 /\ w \in Nat
BY PhysConstants DEF SuperCount, WordsOf

LEMMA SummarisedPages ==
    ASSUME NEW w \in 0 .. SuperCount * W - 1
    PROVE  PagesOf(w) \subseteq Pages /\ w \in Nat
<1>1. SuperCount \in Nat /\ SuperCount * (W * W) <= Total
  BY PhysConstants DEF SuperCount
<1>2. w \in Nat /\ w + 1 <= SuperCount * W
  BY <1>1, ConstantsFacts
<1>3. (w + 1) * W <= (SuperCount * W) * W
  BY <1>1, <1>2, ConstantsFacts
<1>4. (SuperCount * W) * W = SuperCount * (W * W)
  BY <1>1, ConstantsFacts
<1>5. (w + 1) * W = w * W + W
  BY <1>2, ConstantsFacts
<1>6. w * W \in Nat /\ w * W + W <= Total
  BY <1>1, <1>2, <1>3, <1>4, <1>5, ConstantsFacts
<1>7. \A f \in PagesOf(w) : f \in Int /\ w * W <= f /\ f <= w * W + W - 1
  BY <1>6, ConstantsFacts DEF PagesOf
<1> QED
  BY <1>2, <1>6, <1>7, ConstantsFacts DEF Pages

-----------------------------------------------------------------------------
(* The bitmaps                                                             *)

(* A page that a search finds is not in use; and if words are left to be   *)
(* searched it finds one.                                                  *)
LEMMA FoundPage ==
    ASSUME Open # {}, supers \subseteq Words
    PROVE  /\ OpenWord \in 0 .. SuperCount * W - 1
           /\ OpenWord \in Nat /\ OpenWord \notin supers
           /\ OpenPages # {} => First(OpenPages) \in Nat \ bits
<1>1. SuperCount \in Nat
  BY PhysConstants DEF SuperCount
<1>2. Open \in SUBSET Nat
  BY <1>1 DEF Open
<1>3. First(Open) \in Open
  BY <1>2, FirstIsLeast
<1>4. First(Open) \in 0 .. SuperCount - 1 /\ WordsOf(First(Open)) \ supers # {}
  BY <1>3 DEF Open
<1>5. \A w \in WordsOf(First(Open)) : w \in 0 .. SuperCount * W - 1 /\ w \in Nat
  BY <1>4, SearchedWords
<1>6. OpenWord \in WordsOf(First(Open)) \ supers
  BY <1>4, <1>5, FirstIsLeast DEF OpenWord
<1>7. OpenWord \in Nat
  BY <1>5, <1>6
<1>8. OpenPages \in SUBSET Nat
  BY <1>7, WordInUse DEF OpenPages
<1>9. OpenPages # {} => First(OpenPages) \in OpenPages
  BY <1>8, FirstIsLeast
<1> QED
  BY <1>5, <1>6, <1>7, <1>8, <1>9 DEF OpenPages

LEMMA SearchEnds ==
    ASSUME BitInv, Open # {}
    PROVE  OpenPages # {}
<1>1. supers \subseteq Words
  BY DEF BitInv
<1>2. OpenWord \in 0 .. SuperCount * W - 1 /\ OpenWord \notin supers
  BY <1>1, FoundPage
<1> QED
  BY <1>2 DEF BitInv, SearchSound, OpenPages

LEMMA MarkKeepsBits ==
    ASSUME BitInv, NEW S \in SUBSET Pages, S \cap bits = {}, NEW n, Mark(S, n)
    PROVE  BitInv'
<1>1. /\ bits' = bits \cup S
      /\ supers' = supers \cup {w \in {f \div W : f \in S} : PagesOf(w) \subseteq bits \cup S}
      /\ given' = [f \in Pages |-> given[f] + IF f \in S THEN 1 ELSE 0]
      /\ state' = state
  BY DEF Mark, Full
<1>2. bits' \subseteq Pages
  BY <1>1 DEF BitInv
<1>3. supers' \subseteq Words
  <2>1. SUFFICES ASSUME NEW f \in S PROVE f \div W \in Words
    BY <1>1 DEF BitInv
  <2> QED
    BY WordIsWord
<1>4. given' \in [Pages -> Nat]
  BY <1>1 DEF BitInv
<1>5. GrantedOnce'
  <2>1. \A f \in Pages : given[f] <= 1 /\ given[f] \in Nat /\ (given[f] = 1 => f \in bits /\ f >= Reserved)
    BY DEF BitInv, GrantedOnce
  <2>2. \A f \in S : given[f] = 0
    BY <2>1
  <2>3. \A f \in Pages : given'[f] = IF f \in S THEN given[f] + 1 ELSE given[f]
    BY <1>1, <2>1
  <2>4. 0 .. Reserved - 1 \subseteq bits
    BY DEF BitInv, GrantedOnce
  <2>5. \A f \in S : f >= Reserved
    BY <2>4, ConstantsFacts DEF Pages
  <2> QED
    BY <1>1, <2>1, <2>2, <2>3, <2>4, <2>5 DEF GrantedOnce
<1>6. SearchSound'
  <2>1. SUFFICES ASSUME NEW w \in 0 .. SuperCount * W - 1
                 PROVE  IF w \in supers' THEN PagesOf(w) \cap bits' # {} ELSE ~ PagesOf(w) \subseteq bits'
    BY DEF SearchSound
  <2>2. w \in Nat
    BY SummarisedPages
  <2>3. IF w \in supers THEN PagesOf(w) \cap bits # {} ELSE ~ PagesOf(w) \subseteq bits
    BY DEF BitInv, SearchSound
  <2>4. CASE w \in supers
    BY <1>1, <2>3, <2>4
  <2>5. CASE w \notin supers /\ w \in supers'
    BY <1>1, <2>2, <2>5, WordInUse
  <2>6. CASE w \notin supers'
    <3>1. w \notin supers
      BY <1>1, <2>6
    <3>2. SUFFICES ASSUME PagesOf(w) \subseteq bits \cup S PROVE FALSE
      BY <1>1, <2>6
    <3>3. PICK g \in PagesOf(w) : g \notin bits
      BY <2>3, <3>1
    <3>4. g \in S /\ g \div W = w
      BY <2>2, <3>2, <3>3, WordOfPage
    <3>5. w \in {f \div W : f \in S}
      BY <3>4
    <3> QED
      BY <1>1, <2>6, <3>2, <3>5
  <2> QED
    BY <2>4, <2>5, <2>6
<1> QED
  BY <1>1, <1>2, <1>3, <1>4, <1>5, <1>6 DEF BitInv

LEMMA FreeKeepsBits ==
    ASSUME BitInv, NEW S \in SUBSET Pages, \A f \in S : given[f] = 1, Free(S)
    PROVE  BitInv'
<1>1. /\ bits' = bits \ S
      /\ supers' = supers \ {w \in {f \div W : f \in S} : PagesOf(w) \cap (bits \ S) = {}}
      /\ given' = [f \in Pages |-> given[f] - IF f \in S THEN 1 ELSE 0]
      /\ state' = state
  BY DEF Free, Emptied
<1>2. \A f \in Pages : given[f] \in Nat /\ given[f] <= 1 /\ (given[f] = 1 => f \in bits /\ f >= Reserved)
  BY DEF BitInv, GrantedOnce
<1>3. \A f \in Pages : given'[f] = IF f \in S THEN 0 ELSE given[f]
  BY <1>1, <1>2
<1>4. given' \in [Pages -> Nat]
  BY <1>1, <1>2, <1>3
<1>5. GrantedOnce'
  <2>1. 0 .. Reserved - 1 \subseteq bits
    BY DEF BitInv, GrantedOnce
  <2>2. \A f \in S : f >= Reserved
    BY <1>2
  <2>3. 0 .. Reserved - 1 \subseteq bits'
    BY <1>1, <2>1, <2>2, ConstantsFacts
  <2> QED
    BY <1>1, <1>2, <1>3, <2>3 DEF GrantedOnce
<1>6. SearchSound'
  <2>1. SUFFICES ASSUME NEW w \in 0 .. SuperCount * W - 1
                 PROVE  IF w \in supers' THEN PagesOf(w) \cap bits' # {} ELSE ~ PagesOf(w) \subseteq bits'
    BY DEF SearchSound
  <2>2. w \in Nat
    BY SummarisedPages
  <2>3. IF w \in supers THEN PagesOf(w) \cap bits # {} ELSE ~ PagesOf(w) \subseteq bits
    BY DEF BitInv, SearchSound
  <2>4. CASE w \in supers'
    <3>1. PICK g \in PagesOf(w) : g \in bits
      BY <1>1, <2>3, <2>4
    <3>2. SUFFICES ASSUME PagesOf(w) \cap (bits \ S) = {} PROVE FALSE
      BY <1>1, <2>4
    <3>3. g \in S /\ g \div W = w
      BY <2>2, <3>1, <3>2, WordOfPage
    <3>4. w \in {f \div W : f \in S}
      BY <3>3
    <3> QED
      BY <1>1, <2>4, <3>2, <3>4
  <2>5. CASE w \notin supers
    BY <1>1, <2>3, <2>5
  <2>6. CASE w \in supers /\ w \notin supers'
    BY <1>1, <2>2, <2>6, WordInUse
  <2> QED
    BY <2>4, <2>5, <2>6
<1> QED
  BY <1>1, <1>4, <1>5, <1>6 DEF BitInv

LEMMA BitsFinite ==
    ASSUME bits \subseteq Pages
    PROVE  /\ IsFiniteSet(bits) /\ Cardinality(bits) \in Nat
           /\ Cardinality(bits) <= Total
<1>1. IsFiniteSet(Pages) /\ Cardinality(Pages) = Total
  BY FS_Interval, ConstantsFacts DEF Pages
<1> QED
  BY <1>1, FS_Subset, FS_CardinalityType

LEMMA DirsFinite == IsFiniteSet(Dirs) /\ Cardinality(Dirs) \in Nat
<1>1. IsFiniteSet(Pages)
  BY FS_Interval, ConstantsFacts DEF Pages
<1>2. Dirs \subseteq Pages
  BY DEF Dirs
<1> QED
  BY <1>1, <1>2, FS_Subset, FS_CardinalityType

-----------------------------------------------------------------------------
(* The hardware range                                                      *)

LEMMA WordBelow ==
    ASSUME NEW m \in Nat, NEW x \in Nat, x < m * W
    PROVE  x \div W \in 0 .. m - 1
<1>1. x \div W \in Nat /\ (x \div W) * W <= x
  BY PhysConstants
<1>2. ASSUME m <= x \div W PROVE FALSE
  <2>1. m * W <= (x \div W) * W
    BY <1>1, <1>2, ConstantsFacts
  <2> QED
    BY <1>1, <2>1, ConstantsFacts
<1> QED
  BY <1>1, <1>2

LEMMA HwWords ==
    /\ \A x \in HWPages : x \in Nat /\ x \div W \in 0 .. HW \div W - 1
    /\ \A a \in 0 .. HW \div (W * W) - 1 : \A w \in WordsOf(a) : w \in Nat /\ w \in 0 .. HW \div W - 1
<1> DEFINE k == HW \div (W * W)
<1>1. W * W \in Nat /\ W * W >= 1
  BY PhysConstants
<1>2. k \in Nat /\ HW = k * (W * W)
  BY <1>1, RangesConstants
<1>3. HW = (k * W) * W /\ k * W \in Nat
  BY <1>2, ConstantsFacts
<1>4. HW \div W = k * W
  BY <1>3, ConstantsFacts
<1> HIDE DEF k
<1>5. ASSUME NEW x \in HWPages PROVE x \in Nat /\ x \div W \in 0 .. HW \div W - 1
  <2>1. x \in Nat /\ x < (k * W) * W
    BY <1>3 DEF HWPages
  <2>2. PICK m \in Nat : m = k * W
    BY <1>3
  <2>3. x \div W \in 0 .. m - 1
    BY <2>1, <2>2, WordBelow
  <2> QED
    BY <2>1, <2>2, <2>3, <1>4
<1>6. ASSUME NEW a \in 0 .. k - 1, NEW w \in WordsOf(a)
      PROVE  w \in Nat /\ w \in 0 .. HW \div W - 1
  <2>1. a \in Nat /\ a + 1 <= k
    BY <1>2
  <2>2. (a + 1) * W <= k * W /\ (a + 1) * W = a * W + W /\ a * W \in Nat
    BY <2>1, <1>2, ConstantsFacts
  <2>3. w \in Int /\ a * W <= w /\ w <= a * W + W - 1
    BY <2>2, ConstantsFacts DEF WordsOf
  <2> QED
    BY <2>2, <2>3, <1>3, <1>4, ConstantsFacts
<1> QED
  BY <1>5, <1>6 DEF k

(* The search for addresses finds a page that is not mapped.               *)
LEMMA FoundAddress ==
    ASSUME HwInv, HWOpen # {}
    PROVE  HWFrom \in Nat \ hwBits
<1> DEFINE a == First(HWOpen)
           w == First(WordsOf(a) \ hwSupers)
<1>1. HWOpen \in SUBSET Nat
  <2>1. HW \div (W * W) \in Int
    BY PhysConstants, RangesConstants
  <2> QED
    BY <2>1 DEF HWOpen
<1>2. a \in HWOpen
  BY <1>1, FirstIsLeast
<1>3. a \in 0 .. HW \div (W * W) - 1 /\ WordsOf(a) \ hwSupers # {}
  BY <1>2 DEF HWOpen
<1>4. \A x \in WordsOf(a) : x \in Nat /\ x \in 0 .. HW \div W - 1
  BY <1>3, HwWords
<1>5. w \in WordsOf(a) \ hwSupers
  <2>1. WordsOf(a) \ hwSupers \in SUBSET Nat
    BY <1>4
  <2> HIDE DEF a
  <2> QED
    BY <1>3, <2>1, FirstIsLeast
<1>6. w \in Nat /\ w \in 0 .. HW \div W - 1 /\ w \notin hwSupers
  BY <1>4, <1>5
<1> HIDE DEF a, w
<1>7. PagesOf(w) \ hwBits # {}
  BY <1>6 DEF HwInv
<1>8. PagesOf(w) \ hwBits \in SUBSET Nat
  BY <1>6, WordInUse
<1>9. First(PagesOf(w) \ hwBits) \in PagesOf(w) \ hwBits
  BY <1>7, <1>8, FirstIsLeast
<1> QED
  BY <1>8, <1>9 DEF HWFrom, a, w

LEMMA HWMarkKeeps ==
    ASSUME HwInv, NEW h \in Holders, hw[h] = NoMap,
           NEW v \in Nat, NEW phys \in Nat, NEW count \in 1 .. HW,
           Run(v, count) \subseteq HWPages \ hwBits,
           HWMark(v, [phys |-> phys, count |-> count], h)
    PROVE  HwInv'
<1> DEFINE range == Run(v, count)
           m == [at |-> v, phys |-> phys, count |-> count]
<1>1. /\ table' = [x \in HWPages |-> IF x \in range THEN phys + x - v ELSE table[x]]
      /\ hwBits' = hwBits \cup range
      /\ hwSupers' = hwSupers \cup {w \in {x \div W : x \in range} : PagesOf(w) \subseteq hwBits'}
      /\ hw' = [hw EXCEPT ![h] = m]
  BY DEF HWMark
<1>2. \A x \in range : x \in Nat /\ v <= x
  BY ConstantsFacts DEF Run
<1>3. v \in range
  BY ConstantsFacts DEF Run
<1>4. m.at = v /\ m.phys = phys /\ m.count = count
  OBVIOUS
<1>5. m # NoMap
  BY <1>4, ConstantsFacts DEF NoMap
<1>6. m \in [at : Opt(HWPages), phys : Opt(Nat), count : 0 .. HW]
  BY <1>3, ConstantsFacts DEF Opt
<1>7. \A g \in Holders : hw'[g] = IF g = h THEN m ELSE hw[g]
  BY <1>1 DEF HwInv
<1>8. range \subseteq HWPages /\ range \cap hwBits = {}
  OBVIOUS
<1> HIDE DEF range, m
<1>9. hwBits' \subseteq HWPages
  BY <1>1, <1>8 DEF HwInv
<1>10. hwSupers' \subseteq 0 .. HW \div W - 1
  <2>1. \A x \in range : x \div W \in 0 .. HW \div W - 1
    BY <1>8, HwWords
  <2> QED
    BY <1>1, <2>1 DEF HwInv
<1>11. table' \in [HWPages -> Opt(Nat)]
  <2>1. \A x \in HWPages : (IF x \in range THEN phys + x - v ELSE table[x]) \in Opt(Nat)
    BY <1>2 DEF HwInv, Opt
  <2> QED
    BY <1>1, <2>1
<1>12. hw' \in [Holders -> [at : Opt(HWPages), phys : Opt(Nat), count : 0 .. HW]]
  BY <1>1, <1>6 DEF HwInv
<1>13. ASSUME NEW w \in 0 .. HW \div W - 1, w \notin hwSupers', PagesOf(w) \subseteq hwBits'
       PROVE  FALSE
  <2>1. w \notin hwSupers
    BY <1>1, <1>13
  <2>2. PICK x \in PagesOf(w) : x \notin hwBits
    BY <2>1 DEF HwInv
  <2>3. x \in range
    BY <1>1, <1>13, <2>2
  <2>4. w \in Nat
    BY PhysConstants, RangesConstants
  <2>5. x \div W = w
    BY <2>2, <2>4, WordOfPage
  <2>6. w \in {y \div W : y \in range}
    BY <2>3, <2>5
  <2> QED
    BY <1>1, <1>13, <2>6
<1>14. ASSUME NEW g \in Holders, hw'[g] # NoMap
       PROVE  /\ hw'[g].at \in HWPages
              /\ hw'[g].phys \in Nat
              /\ Run(hw'[g].at, hw'[g].count) \subseteq hwBits'
              /\ \A x \in Run(hw'[g].at, hw'[g].count) : table'[x] = hw'[g].phys + x - hw'[g].at
  <2>1. CASE g = h
    <3>1. Run(hw'[g].at, hw'[g].count) = range
      BY <1>4, <1>7, <2>1 DEF range
    <3> QED
      BY <1>1, <1>3, <1>4, <1>7, <1>8, <2>1, <3>1
  <2>2. CASE g # h
    <3>1. hw'[g] = hw[g] /\ hw[g] # NoMap
      BY <1>7, <1>14, <2>2
    <3>2. /\ Run(hw[g].at, hw[g].count) \subseteq hwBits
          /\ \A x \in Run(hw[g].at, hw[g].count) : table[x] = hw[g].phys + x - hw[g].at
          /\ hw[g].at \in HWPages /\ hw[g].phys \in Nat
      BY <3>1 DEF HwInv
    <3>3. \A x \in Run(hw[g].at, hw[g].count) : table'[x] = table[x]
      BY <1>1, <1>8, <3>2 DEF HwInv
    <3> QED
      BY <1>1, <3>1, <3>2, <3>3
  <2> QED
    BY <2>1, <2>2
<1>15. ASSUME NEW g \in Holders, NEW e \in Holders, g # e, hw'[g] # NoMap, hw'[e] # NoMap
       PROVE  Run(hw'[g].at, hw'[g].count) \cap Run(hw'[e].at, hw'[e].count) = {}
  <2>1. \A c \in Holders : c # h /\ hw'[c] # NoMap =>
            Run(hw'[c].at, hw'[c].count) \cap range = {}
    BY <1>7, <1>8 DEF HwInv
  <2>2. Run(hw'[h].at, hw'[h].count) = range
    BY <1>4, <1>7 DEF range
  <2>3. CASE g = h \/ e = h
    BY <1>15, <2>1, <2>2, <2>3
  <2>4. CASE g # h /\ e # h
    BY <1>7, <1>15, <2>4 DEF HwInv
  <2> QED
    BY <2>3, <2>4
<1> QED
  BY <1>9, <1>10, <1>11, <1>12, <1>13, <1>14, <1>15 DEF HwInv

LEMMA UnmapKeeps ==
    ASSUME HwInv, NEW h \in Holders, UnmapHW(h)
    PROVE  HwInv'
<1>1. /\ table' = [v \in HWPages |-> IF v \in Run(hw[h].at, hw[h].count) THEN None ELSE table[v]]
      /\ hw' = [hw EXCEPT ![h] = NoMap]
      /\ hwBits' = hwBits /\ hwSupers' = hwSupers /\ hw[h] # NoMap
  BY DEF UnmapHW, Unmapped
<1>2. NoMap \in [at : Opt(HWPages), phys : Opt(Nat), count : 0 .. HW]
  BY ConstantsFacts DEF NoMap, Opt
<1>3. \A g \in Holders : hw'[g] = IF g = h THEN NoMap ELSE hw[g]
  BY <1>1 DEF HwInv
<1>4. table' \in [HWPages -> Opt(Nat)]
  BY <1>1 DEF HwInv, Opt
<1>5. hw' \in [Holders -> [at : Opt(HWPages), phys : Opt(Nat), count : 0 .. HW]]
  BY <1>1, <1>2 DEF HwInv
<1>6. ASSUME NEW g \in Holders, hw'[g] # NoMap
      PROVE  /\ hw'[g] = hw[g] /\ g # h
             /\ \A x \in Run(hw[g].at, hw[g].count) : table'[x] = table[x]
  <2>1. g # h /\ hw'[g] = hw[g]
    BY <1>3, <1>6
  <2>2. Run(hw[g].at, hw[g].count) \cap Run(hw[h].at, hw[h].count) = {}
    BY <1>1, <1>6, <2>1 DEF HwInv
  <2>3. Run(hw[g].at, hw[g].count) \subseteq HWPages
    BY <1>6, <2>1 DEF HwInv
  <2> QED
    BY <1>1, <2>1, <2>2, <2>3
<1>7. ASSUME NEW g \in Holders, hw'[g] # NoMap
      PROVE  /\ hw'[g].at \in HWPages
             /\ hw'[g].phys \in Nat
             /\ Run(hw'[g].at, hw'[g].count) \subseteq hwBits'
             /\ \A x \in Run(hw'[g].at, hw'[g].count) : table'[x] = hw'[g].phys + x - hw'[g].at
  BY SMTT(30), <1>1, <1>6, <1>7 DEF HwInv
<1>8. \A g, e \in Holders : g # e /\ hw'[g] # NoMap /\ hw'[e] # NoMap =>
          Run(hw'[g].at, hw'[g].count) \cap Run(hw'[e].at, hw'[e].count) = {}
  BY <1>6 DEF HwInv
<1> QED
  BY <1>1, <1>4, <1>5, <1>7, <1>8 DEF HwInv

-----------------------------------------------------------------------------
(* The slots                                                               *)

LEMMA SlotsFinite ==
    ASSUME NEW t, NEW f
    PROVE  IsFiniteSet(InSlots(t, f)) /\ Cardinality(InSlots(t, f)) \in Nat
<1>1. IsFiniteSet(Slot)
  BY FS_Interval, ConstantsFacts DEF Slot
<1>2. InSlots(t, f) \subseteq Slot
  BY DEF InSlots
<1> QED
  BY <1>1, <1>2, FS_Subset, FS_CardinalityType

LEMMA FreeSlotIsFree ==
    ASSUME FreeSlots # {}
    PROVE  FreeSlot \in Slot /\ temp[FreeSlot] = None
<1>1. FreeSlots \in SUBSET Nat
  BY ConstantsFacts DEF FreeSlots, Slot
<1>2. FreeSlot \in FreeSlots
  BY <1>1, FirstIsLeast DEF FreeSlot
<1> QED
  BY <1>2 DEF FreeSlots

LEMMA FillKeeps ==
    ASSUME SlotInv, NEW i \in Slot, temp[i] = None, NEW f \in Pages, Fill(i, f)
    PROVE  SlotInv' /\ \A j \in Slot : temp'[j] = IF j = i THEN f ELSE temp[j]
<1>1. temp' = [temp EXCEPT ![i] = f] /\ refs' = [refs EXCEPT ![f] = @ + 1]
  BY DEF Fill
<1>2. temp' \in [Slot -> Opt(Pages)] /\ refs' \in [Pages -> Nat]
  BY <1>1 DEF SlotInv, Opt
<1>3. \A j \in Slot : temp'[j] = IF j = i THEN f ELSE temp[j]
  BY <1>1 DEF SlotInv
<1>4. f # None
  BY ConstantsFacts DEF Pages
<1>5. ASSUME NEW g \in Pages PROVE refs'[g] = Cardinality(InSlots(temp', g))
  <2>1. refs[g] = Cardinality(InSlots(temp, g)) /\ refs[g] \in Nat
    BY DEF SlotInv
  <2>2. CASE g = f
    <3>1. InSlots(temp', g) = InSlots(temp, g) \cup {i} /\ i \notin InSlots(temp, g)
      BY <1>3, <1>4, <2>2 DEF InSlots
    <3>2. Cardinality(InSlots(temp', g)) = Cardinality(InSlots(temp, g)) + 1
      BY <3>1, SlotsFinite, FS_AddElement
    <3> QED
      BY <1>1, <2>1, <2>2, <3>2 DEF SlotInv
  <2>3. CASE g # f
    <3>1. InSlots(temp', g) = InSlots(temp, g)
      <4>1. g # None
        BY ConstantsFacts DEF Pages
      <4> QED
        BY <1>3, <2>3, <4>1 DEF InSlots
    <3> QED
      BY <1>1, <2>1, <2>3, <3>1 DEF SlotInv
  <2> QED
    BY <2>2, <2>3
<1> QED
  BY <1>2, <1>3, <1>5 DEF SlotInv

(* The slots of one job hold different pages, so that each of them is      *)
(* counted down once.                                                      *)
LEMMA ReleaseKeeps ==
    ASSUME SlotInv, NEW S \in SUBSET Slot, Release(S),
           \A i \in S : temp[i] \in Pages,
           \A i, j \in S : i # j => temp[i] # temp[j]
    PROVE  SlotInv' /\ \A j \in Slot : temp'[j] = IF j \in S THEN None ELSE temp[j]
<1>1. /\ temp' = [i \in Slot |-> IF i \in S THEN None ELSE temp[i]]
      /\ refs' = [f \in Pages |-> IF f \in {temp[i] : i \in S} /\ refs[f] > 0 THEN refs[f] - 1 ELSE refs[f]]
  BY DEF Release, Less
<1>2. temp' \in [Slot -> Opt(Pages)]
  BY <1>1 DEF SlotInv, Opt
<1>3. \A f \in Pages : refs[f] \in Nat
  BY DEF SlotInv
<1>4. \A f \in Pages : refs'[f] = IF f \in {temp[i] : i \in S} /\ refs[f] > 0 THEN refs[f] - 1 ELSE refs[f]
  BY <1>1
<1>5. refs' \in [Pages -> Nat]
  <2>1. \A f \in Pages : (IF f \in {temp[i] : i \in S} /\ refs[f] > 0 THEN refs[f] - 1 ELSE refs[f]) \in Nat
    BY <1>3
  <2> QED
    BY <1>1, <2>1
<1>6. \A j \in Slot : temp'[j] = IF j \in S THEN None ELSE temp[j]
  BY <1>1
<1>7. ASSUME NEW f \in Pages PROVE refs'[f] = Cardinality(InSlots(temp', f))
  <2>1. refs[f] = Cardinality(InSlots(temp, f))
    BY DEF SlotInv
  <2>2. f # None
    BY ConstantsFacts DEF Pages
  <2>3. CASE \E i \in S : temp[i] = f
    <3>1. PICK i \in S : temp[i] = f
      BY <2>3
    <3>a. \A j \in Slot : temp'[j] = f <=> temp[j] = f /\ j # i
      <4>1. \A j \in S : j # i => temp[j] # f
        BY <3>1
      <4> QED
        BY <1>6, <2>2, <3>1, <4>1
    <3>2. InSlots(temp', f) = InSlots(temp, f) \ {i} /\ i \in InSlots(temp, f)
      BY <3>a, <3>1 DEF InSlots
    <3>3. Cardinality(InSlots(temp', f)) = Cardinality(InSlots(temp, f)) - 1
      <4>1. IsFiniteSet(InSlots(temp, f))
        BY SlotsFinite
      <4>2. Cardinality(InSlots(temp, f) \ {i}) = Cardinality(InSlots(temp, f)) - 1
        BY <3>2, <4>1, FS_RemoveElement, Zenon
      <4> QED
        BY <3>2, <4>2
    <3>4. Cardinality(InSlots(temp', f)) \in Nat
      BY SlotsFinite
    <3>5. refs[f] > 0
      BY <1>3, <2>1, <3>3, <3>4
    <3> QED
      BY <1>4, <2>1, <3>1, <3>3, <3>5
  <2>4. CASE ~ \E i \in S : temp[i] = f
    <3>1. InSlots(temp', f) = InSlots(temp, f)
      BY <1>6, <2>2, <2>4 DEF InSlots
    <3> QED
      BY <1>4, <2>1, <2>4, <3>1
  <2> QED
    BY <2>3, <2>4
<1> QED
  BY <1>2, <1>5, <1>6, <1>7 DEF SlotInv

-----------------------------------------------------------------------------
(* Jobs and directories: what a step has to leave alone                    *)

LEMMA NoneFacts ==
    /\ None \notin Pages /\ None \notin Slot
    /\ 0 \in Pages /\ Pages \subseteq Nat /\ Slot \subseteq Nat
BY ConstantsFacts DEF Pages, Slot

LEMMA NoJobTyped ==
    /\ NoJob \in [pc : {"idle"}, from : {None}, to : {None}, a : {None}, b : {None},
                  tries : {0}, child : {None}, dir : {None}]
    /\ NoJob \in JobType
BY ConstantsFacts DEF NoJob, JobType, Opt

(* A step of process p keeps what is said of the others if it leaves their *)
(* slots and their children alone.                                         *)
LEMMA JobStep ==
    ASSUME JobInv, NEW p \in Procs, NEW j \in JobType, job' = [job EXCEPT ![p] = j],
           dir' \in [Procs -> Opt(Pages)],
           local' \in [Procs -> [1 .. Local -> Opt(Pages)]],
           \A q \in Procs : q # p =>
              /\ \A i \in Slot : Uses(q, i) => temp'[i] = temp[i] /\ ~ Uses(p, i)'
              /\ Cloning(q) => /\ dir'[job[q].child] = None
                               /\ local'[job[q].child] = local[job[q].child]
                               /\ Cloning(p)' => j.child # job[q].child,
           JobOK(p)'
    PROVE  JobInv'
<1>1. /\ job' \in [Procs -> JobType]
      /\ job'[p] = j
      /\ \A q \in Procs : q # p => job'[q] = job[q]
  BY DEF JobInv
<1>2. ASSUME NEW q \in Procs, q # p
      PROVE  /\ Cloning(q)' <=> Cloning(q)
             /\ Copying(q)' <=> Copying(q)
             /\ UsesA(q)' <=> UsesA(q)
             /\ UsesB(q)' <=> UsesB(q)
             /\ \A i \in Slot : Uses(q, i)' <=> Uses(q, i)
  BY <1>1, <1>2 DEF Cloning, Copying, UsesA, UsesB, Uses
<1>3. ASSUME NEW q \in Procs PROVE JobOK(q)'
  <2>1. SUFFICES ASSUME q # p PROVE JobOK(q)'
    OBVIOUS
  <2>2. JobOK(q)
    BY DEF JobInv
  <2>3. job'[q] = job[q]
    BY <1>1, <2>1
  <2>4. UsesA(q) => temp'[job[q].a] = temp[job[q].a]
    BY <2>1, <2>2 DEF JobOK, Uses
  <2>5. UsesB(q) => temp'[job[q].b] = temp[job[q].b]
    BY <2>1, <2>2 DEF JobOK, Uses
  <2>6. Copying(q) => Cloning(q)
    BY DEF Copying, Cloning
  <2>7. Cloning(q) => dir'[job[q].child] = None /\ local'[job[q].child] = local[job[q].child]
    BY <2>1
  <2>8. Copying(q) => ToCopy(job[q].child)' = ToCopy(job[q].child)
    BY <2>3, <2>6, <2>7 DEF ToCopy
  <2> QED
    BY <1>2, <2>1, <2>2, <2>3, <2>4, <2>5, <2>6, <2>7, <2>8 DEF JobOK
<1>4. ASSUME NEW q \in Procs, NEW r \in Procs, q # r
      PROVE  /\ \A i \in Slot : ~ (Uses(q, i)' /\ Uses(r, i)')
             /\ Cloning(q)' /\ Cloning(r)' => job'[q].child # job'[r].child
  <2>1. CASE q = p
    BY <1>1, <1>2, <1>4, <2>1
  <2>2. CASE r = p
    BY <1>1, <1>2, <1>4, <2>2
  <2>3. CASE q # p /\ r # p
    BY <1>1, <1>2, <1>4, <2>3 DEF JobInv
  <2> QED
    BY <2>1, <2>2, <2>3
<1>5. \A q, r \in Procs : q # r =>
          /\ \A i \in Slot : ~ (Uses(q, i)' /\ Uses(r, i)')
          /\ Cloning(q)' /\ Cloning(r)' => job'[q].child # job'[r].child
  BY <1>4
<1>6. \A q \in Procs : JobOK(q)'
  BY <1>3
<1>7. dir' \in [Procs -> Opt(Pages)] /\ local' \in [Procs -> [1 .. Local -> Opt(Pages)]]
  OBVIOUS
<1> QED
  BY <1>1, <1>5, <1>6, <1>7, Zenon DEF JobInv

LEMMA DirsInUse ==
    ASSUME DirInv
    PROVE  Dirs \subseteq bits
BY NoneFacts DEF DirInv, Dirs

(* A step that makes no directory and gives none back, and takes none for a*)
(* page of data.                                                           *)
LEMMA DirStep ==
    ASSUME DirInv, dir' = dir,
           \A q \in Procs : Cloning(q)' <=> Cloning(q),
           \A q \in Procs : Cloning(q) => job'[q].dir = job[q].dir,
           \A q \in Procs : Copying(q)' => job'[q].to \in bits' /\ job'[q].to \notin Dirs,
           \A q \in Procs : \A i \in 1 .. Local : local'[q][i] # None =>
               local'[q][i] \in bits' /\ local'[q][i] \notin Dirs,
           \A q \in Procs : \A i \in 1 .. Local : dir[q] # None => local'[q][i] # None,
           bits \subseteq bits',
           \A f \in Dirs : given'[f] = given[f]
    PROVE  DirInv' /\ Dirs' = Dirs
<1>1. Dirs' = Dirs
  BY DEF Dirs
<1>2. None \notin Dirs
  BY NoneFacts DEF Dirs
<1>3. \A q \in Procs : dir'[q] # None => dir'[q] \in bits'
  BY DEF DirInv
<1>4. \A q \in Procs : Cloning(q)' => job'[q].dir \in bits' /\ job'[q].dir # 0
  BY DEF DirInv
<1>5. \A f \in Dirs' :
          /\ given'[f] = 1
          /\ \A q \in Procs : Copying(q)' => job'[q].to # f
          /\ \A q \in Procs : \A i \in 1 .. Local : local'[q][i] # f
  BY <1>1, <1>2 DEF DirInv
<1>6. /\ \A q, r \in Procs : q # r /\ dir'[q] # None => dir'[q] # dir'[r]
      /\ \A q, r \in Procs : Cloning(q)' => job'[q].dir # dir'[r]
      /\ \A q, r \in Procs : q # r /\ Cloning(q)' /\ Cloning(r)' => job'[q].dir # job'[r].dir
  BY DEF DirInv
<1>7. /\ \A q \in Procs : Copying(q)' => job'[q].to \in bits'
      /\ \A q \in Procs : \A i \in 1 .. Local : local'[q][i] # None => local'[q][i] \in bits'
      /\ \A q \in Procs : \A i \in 1 .. Local : dir'[q] # None => local'[q][i] # None
  OBVIOUS
<1> QED
  BY <1>1, <1>3, <1>4, <1>5, <1>6, <1>7 DEF DirInv

LEMMA GrabFacts ==
    ASSUME RangesInv, NEW f \in Pages, Grab(f)
    PROVE  /\ f \notin bits /\ f # 0 /\ f \notin Dirs
           /\ bits' = bits \cup {f}
           /\ given'[f] = 1 /\ \A g \in Pages : g # f => given'[g] = given[g]
           /\ used' = used + 1
           /\ Cardinality(bits') = Cardinality(bits) + 1
           /\ BitInv'
<1>1. bits \subseteq Pages /\ supers \subseteq Words /\ BitInv /\ GrantedOnce /\ given \in [Pages -> Nat]
  BY DEF RangesInv, BitInv
<1>2. f \notin bits
  BY <1>1, FoundPage DEF Grab
<1>3. Mark({f}, 1)
  BY DEF Grab
<1>4. BitInv'
  BY <1>1, <1>2, <1>3, MarkKeepsBits
<1>5. f # 0
  <2>1. 0 \in bits
    BY <1>1, ConstantsFacts DEF GrantedOnce
  <2> QED
    BY <1>2, <2>1
<1>6. bits' = bits \cup {f} /\ used' = used + 1
  BY <1>3 DEF Mark
<1>7. given[f] = 0
  BY <1>1, <1>2 DEF GrantedOnce
<1>8. given'[f] = 1 /\ \A g \in Pages : g # f => given'[g] = given[g]
  BY <1>1, <1>3, <1>7 DEF Mark
<1>9. Cardinality(bits') = Cardinality(bits) + 1
  BY <1>1, <1>2, <1>6, BitsFinite, FS_AddElement
<1>10. f \notin Dirs
  BY <1>2, DirsInUse DEF RangesInv
<1> QED
  BY <1>2, <1>4, <1>5, <1>6, <1>8, <1>9, <1>10

(* A page taken that does not become a directory keeps the count.          *)
LEMMA GrabCounts ==
    ASSUME RangesInv, NEW f \in Pages, Grab(f), Dirs' = Dirs
    PROVE  CountInv'
<1>1. used' = used + 1 /\ Cardinality(bits') = Cardinality(bits) + 1
  BY GrabFacts
<1>2. bits \subseteq Pages
  BY DEF RangesInv, BitInv
<1>3. Cardinality(bits) \in Nat /\ Cardinality(Dirs) \in Nat
  BY <1>2, BitsFinite, DirsFinite
<1> QED
  BY <1>1, <1>3 DEF RangesInv, CountInv

-----------------------------------------------------------------------------
(* What a step does not touch                                              *)

LEMMA BitSame ==
    ASSUME BitInv, bits' = bits, supers' = supers, given' = given, state' \in {"runs", "hang", "panic"}
    PROVE  BitInv'
BY DEF BitInv, GrantedOnce, SearchSound

LEMMA HwSame ==
    ASSUME HwInv, UNCHANGED hwVars
    PROVE  HwInv'
BY DEF HwInv, hwVars

LEMMA SlotSame ==
    ASSUME SlotInv, UNCHANGED tempVars
    PROVE  SlotInv'
BY DEF SlotInv, tempVars

LEMMA JobSame ==
    ASSUME JobInv, UNCHANGED <<tempVars, spaceVars, job>>
    PROVE  JobInv'
BY DEF JobInv, JobOK, Uses, UsesA, UsesB, Cloning, Copying, ToCopy, tempVars, spaceVars

LEMMA SpacesSame ==
    ASSUME DirInv, UNCHANGED <<spaceVars, job>>, bits \subseteq bits',
           \A f \in Dirs : given'[f] = given[f]
    PROVE  DirInv' /\ Dirs' = Dirs
<1>1. dir' = dir /\ local' = local /\ job' = job
  BY DEF spaceVars
<1>2. Dirs' = Dirs
  BY <1>1 DEF Dirs, Cloning
<1>3. None \notin Dirs
  BY NoneFacts DEF Dirs
<1> QED
  BY <1>1, <1>2, <1>3 DEF DirInv, Cloning, Copying

LEMMA CountSame ==
    ASSUME CountInv, Dirs' = Dirs, bits' = bits, used' = used
    PROVE  CountInv'
BY DEF CountInv

-----------------------------------------------------------------------------
(* The steps of drivers                                                    *)

LEMMA MapHWKeeps ==
    ASSUME RangesInv, NEW h \in Holders, NEW d \in Devices, MapHW(h, d)
    PROVE  RangesInv'
<1>1. d.phys \in Nat /\ d.count \in 1 .. HW /\ d = [phys |-> d.phys, count |-> d.count]
  BY RangesConstants, ConstantsFacts
<1>2. /\ HWOpen # {} /\ hw[h] = NoMap
      /\ Run(HWFrom, d.count) \subseteq HWPages
      /\ Run(HWFrom, d.count) \cap hwBits = {}
      /\ HWMark(HWFrom, d, h)
      /\ UNCHANGED <<physVars, tempVars, spaceVars, job>>
  BY DEF MapHW, FitsFrom
<1>3. HWFrom \in Nat
  BY <1>2, FoundAddress DEF RangesInv
<1>4. PICK v \in Nat : v = HWFrom
  BY <1>3
<1>5. HWMark(v, [phys |-> d.phys, count |-> d.count], h)
  BY <1>1, <1>2, <1>4
<1>6. HwInv'
  BY <1>1, <1>2, <1>4, <1>5, HWMarkKeeps DEF RangesInv
<1>7. bits' = bits /\ supers' = supers /\ given' = given /\ state' = state /\ used' = used
  BY <1>2 DEF physVars
<1>8. BitInv'
  BY <1>7, BitSame DEF RangesInv, BitInv
<1>9. SlotInv' /\ JobInv'
  BY <1>2, SlotSame, JobSame DEF RangesInv
<1>10. DirInv' /\ CountInv'
  BY <1>2, <1>7, SpacesSame, CountSame DEF RangesInv
<1> QED
  BY <1>6, <1>8, <1>9, <1>10 DEF RangesInv

LEMMA UnmapHWKeeps ==
    ASSUME RangesInv, NEW h \in Holders, UnmapHW(h)
    PROVE  RangesInv'
<1>1. UNCHANGED <<physVars, tempVars, spaceVars, job>>
  BY DEF UnmapHW
<1>2. bits' = bits /\ supers' = supers /\ given' = given /\ state' = state /\ used' = used
  BY <1>1 DEF physVars
<1>3. HwInv'
  BY UnmapKeeps DEF RangesInv
<1>4. BitInv'
  BY <1>2, BitSame DEF RangesInv, BitInv
<1>5. SlotInv' /\ JobInv'
  BY <1>1, SlotSame, JobSame DEF RangesInv
<1>6. DirInv' /\ CountInv'
  BY <1>1, <1>2, SpacesSame, CountSame DEF RangesInv
<1> QED
  BY <1>3, <1>4, <1>5, <1>6 DEF RangesInv

(* A run that is counted as one page covers at least one.                  *)
LEMMA RunCounts ==
    ASSUME bits \subseteq Pages, NEW S \in SUBSET (Pages \ bits), S # {}
    PROVE  Cardinality(bits) + 1 <= Cardinality(bits \cup S)
<1>1. PICK f \in S : TRUE
  OBVIOUS
<1>2. Cardinality(bits \cup {f}) = Cardinality(bits) + 1
  BY <1>1, BitsFinite, FS_AddElement
<1>3. IsFiniteSet(bits \cup S)
  <2>1. IsFiniteSet(Pages) /\ bits \cup S \subseteq Pages
    BY FS_Interval, ConstantsFacts DEF Pages
  <2> QED
    BY <2>1, FS_Subset
<1>4. Cardinality(bits \cup {f}) <= Cardinality(bits \cup S)
  BY <1>1, <1>3, FS_Subset
<1> QED
  BY <1>2, <1>4

LEMMA AllocDMAKeeps ==
    ASSUME RangesInv, NEW h \in Holders, NEW d \in Devices, AllocDMA(h, d.count)
    PROVE  RangesInv'
<1>1. PICK n \in 1 .. HW : n = d.count
  BY RangesConstants
<1>2. PICK f \in Pages :
         /\ hw[h] = NoMap
         /\ HWOpen # {}
         /\ Run(HWFrom, n) \subseteq HWPages
         /\ Run(HWFrom, n) \cap hwBits = {}
         /\ GrabRun(f, n)
         /\ HWMark(HWFrom, [phys |-> f, count |-> n], h)
         /\ UNCHANGED <<tempVars, spaceVars, job>>
  BY <1>1 DEF AllocDMA, FitsFrom
<1>3. PICK v \in Nat : v = HWFrom
  BY <1>2, FoundAddress DEF RangesInv
<1>4. f \in Nat
  BY NoneFacts
<1>5. HwInv'
  BY <1>2, <1>3, <1>4, HWMarkKeeps DEF RangesInv
<1>6. PICK S \in SUBSET Pages : S = Run(f, n)
  BY <1>2 DEF GrabRun
<1>7. S \cap bits = {} /\ Mark(S, 1)
  BY <1>2, <1>6 DEF GrabRun
<1>8. BitInv'
  BY <1>7, MarkKeepsBits DEF RangesInv
<1>9. bits' = bits \cup S /\ used' = used + 1 /\ given' = [g \in Pages |-> given[g] + IF g \in S THEN 1 ELSE 0]
  BY <1>7 DEF Mark
<1>10. \A g \in Dirs : given'[g] = given[g]
  <2>1. Dirs \subseteq bits /\ bits \subseteq Pages /\ given \in [Pages -> Nat]
    BY DirsInUse DEF RangesInv, BitInv
  <2> QED
    BY <1>7, <1>9, <2>1
<1>11. DirInv' /\ Dirs' = Dirs
  BY <1>2, <1>9, <1>10, SpacesSame DEF RangesInv
<1>12. Cardinality(bits) + 1 <= Cardinality(bits')
  <2>1. f \in S
    BY <1>4, <1>6 DEF Run
  <2> QED
    BY <1>7, <1>9, <2>1, RunCounts DEF RangesInv, BitInv
<1>13. CountInv'
  <2>1. bits \subseteq Pages /\ bits' \subseteq Pages
    BY <1>8 DEF RangesInv, BitInv
  <2>2. Cardinality(bits) \in Nat /\ Cardinality(Dirs) \in Nat
    BY <2>1, BitsFinite, DirsFinite
  <2>3. Cardinality(bits') \in Nat
    <3>1. PICK B \in SUBSET Pages : B = bits'
      BY <2>1
    <3>2. IsFiniteSet(Pages)
      BY FS_Interval, ConstantsFacts DEF Pages
    <3> QED
      BY <3>1, <3>2, FS_Subset, FS_CardinalityType
  <2> QED
    BY <1>9, <1>11, <1>12, <2>2, <2>3 DEF RangesInv, CountInv
<1>14. SlotInv' /\ JobInv'
  BY <1>2, SlotSame, JobSame DEF RangesInv
<1> QED
  BY <1>5, <1>8, <1>11, <1>13, <1>14 DEF RangesInv

(* What the undone allocation leaves: the bitmaps as they were, but for    *)
(* words that are full now, and a lower count.                             *)
LEMMA UndoDMAKeeps ==
    ASSUME RangesInv, NEW d \in Devices, UndoDMA(d.count)
    PROVE  RangesInv'
<1>1. PICK n \in 1 .. HW : n = d.count
  BY RangesConstants
<1>2. PICK run : run = Run(First(OpenPages), n)
  OBVIOUS
<1>3. /\ run \subseteq Pages \ bits
      /\ used = Cardinality(bits) /\ n <= Reserved + 1
      /\ used' = used + 1 - n
      /\ supers' = Full(run) \ {f \div W : f \in {g \in run : PagesOf(g \div W) \cap bits = {}}}
      /\ UNCHANGED <<bits, given, state, hwVars, tempVars, spaceVars, job>>
  BY <1>1, <1>2 DEF UndoDMA
<1>4. \A w \in supers' : w \in supers \/ \E f \in run : w = f \div W /\ PagesOf(w) \subseteq bits \cup run
  BY <1>3 DEF Full
<1>5. supers' \subseteq Words
  BY <1>3, <1>4, WordIsWord DEF RangesInv, BitInv
<1>6. SearchSound'
  <2>1. SUFFICES ASSUME NEW w \in 0 .. SuperCount * W - 1
                 PROVE  IF w \in supers' THEN PagesOf(w) \cap bits # {} ELSE ~ PagesOf(w) \subseteq bits
    BY <1>3 DEF SearchSound
  <2>2. w \in Nat
    BY SummarisedPages
  <2>3. IF w \in supers THEN PagesOf(w) \cap bits # {} ELSE ~ PagesOf(w) \subseteq bits
    BY DEF RangesInv, BitInv, SearchSound
  <2>4. ASSUME w \in supers', w \notin supers PROVE PagesOf(w) \cap bits # {}
    <3>1. PICK f \in run : w = f \div W
      BY <1>4, <2>4
    <3>2. ASSUME PagesOf(f \div W) \cap bits = {} PROVE FALSE
      <4>1. f \in {g \in run : PagesOf(g \div W) \cap bits = {}}
        BY <3>2
      <4> QED
        BY <1>3, <2>4, <3>1, <4>1
    <3> QED
      BY <3>1, <3>2
  <2>5. ASSUME w \notin supers', w \in supers PROVE ~ PagesOf(w) \subseteq bits
    <3>1. w \in {f \div W : f \in {g \in run : PagesOf(g \div W) \cap bits = {}}}
      BY <1>3, <2>5 DEF Full
    <3>2. PagesOf(w) \cap bits = {}
      BY <3>1
    <3> QED
      BY <2>2, <3>2, WordInUse
  <2> QED
    BY <2>3, <2>4, <2>5
<1>7. BitInv'
  BY <1>3, <1>5, <1>6 DEF RangesInv, BitInv, GrantedOnce
<1>8. DirInv' /\ Dirs' = Dirs
  BY <1>3, SpacesSame DEF RangesInv
<1>9. CountInv'
  <2>1. bits \subseteq Pages /\ 0 .. Reserved - 1 \subseteq bits
    BY DEF RangesInv, BitInv, GrantedOnce
  <2>2. IsFiniteSet(bits) /\ Cardinality(bits) \in Nat
    BY <2>1, BitsFinite
  <2>3. Dirs \cap (0 .. Reserved - 1) = {} /\ Dirs \subseteq bits
    <3>1. \A f \in Dirs : f \in bits /\ f >= Reserved
      BY DirsInUse DEF RangesInv, BitInv, DirInv, GrantedOnce, Dirs
    <3> QED
      BY <3>1, ConstantsFacts
  <2>4. IsFiniteSet(0 .. Reserved - 1) /\ Cardinality(0 .. Reserved - 1) = Reserved
    BY FS_Interval, ConstantsFacts
  <2>5. Cardinality(Dirs \cup (0 .. Reserved - 1)) = Cardinality(Dirs) + Reserved
    <3>1. Cardinality(Dirs \cap (0 .. Reserved - 1)) = 0
      BY <2>3, FS_EmptySet
    <3>2. Cardinality(Dirs \cup (0 .. Reserved - 1))
          = Cardinality(Dirs) + Cardinality(0 .. Reserved - 1) - Cardinality(Dirs \cap (0 .. Reserved - 1))
      BY <2>4, DirsFinite, FS_Union
    <3> QED
      BY <2>4, <3>1, <3>2, DirsFinite, ConstantsFacts
  <2>6. Cardinality(Dirs \cup (0 .. Reserved - 1)) <= Cardinality(bits)
    BY <2>1, <2>2, <2>3, FS_Subset
  <2> QED
    BY <1>3, <1>8, <2>2, <2>5, <2>6, DirsFinite, ConstantsFacts DEF CountInv
<1>10. HwInv' /\ SlotInv' /\ JobInv'
  BY <1>3, HwSame, SlotSame, JobSame DEF RangesInv
<1> QED
  BY <1>7, <1>8, <1>9, <1>10 DEF RangesInv

LEMMA OutOfMemoryKeeps ==
    ASSUME RangesInv, OutOfMemory
    PROVE  RangesInv'
<1>1. /\ state' = "panic"
      /\ UNCHANGED <<bits, supers, used, given, hwVars, tempVars, spaceVars, job>>
  BY DEF OutOfMemory, Stop
<1>2. BitInv'
  BY <1>1, BitSame DEF RangesInv
<1>3. DirInv' /\ CountInv'
  BY <1>1, SpacesSame, CountSame DEF RangesInv
<1>4. HwInv' /\ SlotInv' /\ JobInv'
  BY <1>1, HwSame, SlotSame, JobSame DEF RangesInv
<1> QED
  BY <1>2, <1>3, <1>4 DEF RangesInv

-----------------------------------------------------------------------------
(* Loading a page                                                          *)

LEMMA LoadPageKeeps ==
    ASSUME RangesInv, NEW p \in Procs, LoadPage(p)
    PROVE  RangesInv'
<1>1. PICK f \in Pages :
         /\ job[p].pc = "idle"
         /\ Grab(f)
         /\ job' = [job EXCEPT ![p] = [NoJob EXCEPT !.pc = "map", !.to = f, !.tries = Tries]]
         /\ UNCHANGED <<hwVars, tempVars, spaceVars>>
  BY DEF LoadPage
<1>2. PICK j : j = [NoJob EXCEPT !.pc = "map", !.to = f, !.tries = Tries]
  OBVIOUS
<1>3. j \in JobType /\ j.pc = "map" /\ j.to = f
  <2>1. j = [pc |-> "map", from |-> None, to |-> f, a |-> None, b |-> None,
             tries |-> Tries, child |-> None, dir |-> None]
    BY <1>2 DEF NoJob
  <2> QED
    BY <2>1, ConstantsFacts DEF JobType, Opt
<1>4. job' = [job EXCEPT ![p] = j] /\ dir' = dir /\ local' = local /\ temp' = temp
  BY <1>1, <1>2 DEF spaceVars, tempVars
<1>5. job'[p] = j /\ \A q \in Procs : q # p => job'[q] = job[q]
  BY <1>4 DEF RangesInv, JobInv
<1>6. /\ ~ Cloning(p)' /\ ~ Copying(p)' /\ ~ UsesA(p)' /\ ~ UsesB(p)'
      /\ ~ Cloning(p) /\ ~ Copying(p)
  BY <1>1, <1>3, <1>5 DEF Cloning, Copying, UsesA, UsesB
<1>7. JobOK(p)'
  BY <1>3, <1>5, <1>6 DEF JobOK
<1>8. JobInv'
  <2>1. dir' \in [Procs -> Opt(Pages)] /\ local' \in [Procs -> [1 .. Local -> Opt(Pages)]]
    BY <1>4 DEF RangesInv, JobInv
  <2>2. \A q \in Procs : Cloning(q) => dir[job[q].child] = None
    BY DEF RangesInv, JobInv, JobOK
  <2>3. \A i \in Slot : ~ Uses(p, i)'
    BY <1>6 DEF Uses
  <2> QED
    BY <1>3, <1>4, <1>6, <1>7, <2>1, <2>2, <2>3, JobStep DEF RangesInv
<1>9. BitInv' /\ bits \subseteq bits' /\ (\A g \in Dirs : given'[g] = given[g])
  BY <1>1, GrabFacts DEF Dirs
<1>10. \A q \in Procs : /\ Cloning(q)' <=> Cloning(q)
                        /\ Copying(q)' <=> Copying(q)
                        /\ Copying(q) => job'[q] = job[q]
                        /\ Cloning(q) => job'[q] = job[q]
  BY <1>5, <1>6 DEF Cloning, Copying
<1>11. DirInv' /\ Dirs' = Dirs
  BY <1>4, <1>9, <1>10, DirStep DEF RangesInv, DirInv
<1>12. CountInv'
  BY <1>1, <1>11, GrabCounts
<1>13. HwInv' /\ SlotInv'
  BY <1>1, HwSame, SlotSame DEF RangesInv
<1> QED
  BY <1>8, <1>9, <1>11, <1>12, <1>13 DEF RangesInv

(* A step that only moves process p on, and perhaps fills or frees slots:  *)
(* it takes and gives back no page, and directories stay.                  *)
LEMMA SlotStep ==
    ASSUME RangesInv, NEW p \in Procs, NEW j \in JobType, job' = [job EXCEPT ![p] = j],
           UNCHANGED <<physVars, hwVars, spaceVars>>, SlotInv',
           Cloning(p)' <=> Cloning(p), Copying(p)' => Copying(p),
           Cloning(p) => j.dir = job[p].dir /\ j.child = job[p].child,
           Copying(p)' => j.to = job[p].to,
           \A q \in Procs : \A i \in Slot : q # p /\ Uses(q, i) => temp'[i] = temp[i] /\ ~ Uses(p, i)',
           JobOK(p)'
    PROVE  RangesInv'
<1>1. /\ bits' = bits /\ supers' = supers /\ used' = used /\ given' = given /\ state' = state
      /\ dir' = dir /\ local' = local
  BY DEF physVars, spaceVars
<1>2. job'[p] = j /\ \A q \in Procs : q # p => job'[q] = job[q]
  BY DEF RangesInv, JobInv
<1>3. dir' \in [Procs -> Opt(Pages)] /\ local' \in [Procs -> [1 .. Local -> Opt(Pages)]]
  BY <1>1 DEF RangesInv, JobInv
<1>4. ASSUME NEW q \in Procs, q # p, Cloning(q)
      PROVE  /\ dir'[job[q].child] = None
             /\ local'[job[q].child] = local[job[q].child]
             /\ Cloning(p)' => j.child # job[q].child
  BY <1>1, <1>4 DEF RangesInv, JobInv, JobOK
<1>5. JobInv'
  BY <1>3, <1>4, JobStep DEF RangesInv
<1>6. \A q \in Procs : Cloning(q)' <=> Cloning(q)
  BY <1>2 DEF Cloning
<1>7. \A q \in Procs : Cloning(q) => job'[q].dir = job[q].dir
  BY <1>2
<1>8. ASSUME NEW q \in Procs, Copying(q)'
      PROVE  Copying(q) /\ job'[q].to = job[q].to
  BY <1>2, <1>8 DEF Copying
<1>9. \A q \in Procs : Copying(q)' => job'[q].to \in bits' /\ job'[q].to \notin Dirs
  BY <1>1, <1>8 DEF RangesInv, DirInv
<1>10. DirInv' /\ Dirs' = Dirs
  BY <1>1, <1>6, <1>7, <1>9, DirStep DEF RangesInv, DirInv
<1>11. BitInv' /\ HwInv' /\ CountInv'
  BY <1>1, <1>10, BitSame, HwSame, CountSame DEF RangesInv, BitInv
<1> QED
  BY <1>5, <1>10, <1>11 DEF RangesInv

(* The slot a process fills is nobody else's.                              *)
LEMMA FreeIsUnused ==
    ASSUME JobInv, FreeSlots # {}
    PROVE  \A q \in Procs : ~ Uses(q, FreeSlot)
<1>1. FreeSlot \in Slot /\ temp[FreeSlot] = None
  BY FreeSlotIsFree
<1>2. SUFFICES ASSUME NEW q \in Procs, Uses(q, FreeSlot) PROVE FALSE
  OBVIOUS
<1>3. JobOK(q)
  BY DEF JobInv
<1>4. UsesA(q) => temp[job[q].a] # None
  BY <1>3, NoneFacts DEF JobOK
<1>5. UsesB(q) => temp[job[q].b] # None
  BY <1>3, NoneFacts DEF JobOK, UsesB, Copying
<1> QED
  BY <1>1, <1>2, <1>4, <1>5 DEF Uses

LEMMA LoadMapKeeps ==
    ASSUME RangesInv, NEW p \in Procs, LoadMap(p)
    PROVE  RangesInv'
<1>1. PICK s \in Slot : s = FreeSlot
  BY FreeSlotIsFree DEF LoadMap
<1>2. /\ job[p].pc = "map" /\ FreeSlots # {}
      /\ Fill(s, job[p].to)
      /\ job' = [job EXCEPT ![p].pc = "read", ![p].a = s]
      /\ UNCHANGED <<physVars, hwVars, spaceVars>>
  BY <1>1 DEF LoadMap
<1>3. PICK j : j = [job[p] EXCEPT !.pc = "read", !.a = s]
  OBVIOUS
<1>4. job[p] \in JobType /\ job[p].to \in Pages
  BY <1>2 DEF RangesInv, JobInv, JobOK
<1>5. j \in JobType /\ j.pc = "read" /\ j.a = s /\ j.to = job[p].to
  BY <1>3, <1>4 DEF JobType, Opt
<1>6. job' = [job EXCEPT ![p] = j]
  BY <1>2, <1>3 DEF RangesInv, JobInv
<1>7. job'[p] = j
  BY <1>6 DEF RangesInv, JobInv
<1>8. temp[s] = None
  BY <1>1, <1>2, FreeSlotIsFree
<1>9. SlotInv' /\ \A i \in Slot : temp'[i] = IF i = s THEN job[p].to ELSE temp[i]
  BY <1>2, <1>4, <1>8, FillKeeps DEF RangesInv
<1>10. /\ ~ Cloning(p)' /\ ~ Copying(p)' /\ UsesA(p)' /\ ~ UsesB(p)' /\ ~ Cloning(p)
       /\ \A i \in Slot : Uses(p, i)' => i = s
  BY <1>2, <1>5, <1>7 DEF Cloning, Copying, UsesA, UsesB, Uses
<1>11. JobOK(p)'
  BY <1>4, <1>5, <1>7, <1>9, <1>10 DEF JobOK
<1>12. ASSUME NEW q \in Procs, NEW i \in Slot, q # p, Uses(q, i)
       PROVE  temp'[i] = temp[i] /\ ~ Uses(p, i)'
  BY <1>1, <1>2, <1>9, <1>10, <1>12, FreeIsUnused DEF RangesInv
<1> QED
  BY <1>2, <1>5, <1>6, <1>9, <1>10, <1>11, <1>12, SlotStep

LEMMA LoadReadKeeps ==
    ASSUME RangesInv, NEW p \in Procs, LoadRead(p)
    PROVE  RangesInv'
<1>1. /\ job[p].pc = "read"
      /\ Release({job[p].a})
      /\ job' = [job EXCEPT ![p] = NoJob]
      /\ UNCHANGED <<physVars, hwVars, spaceVars>>
  BY DEF LoadRead
<1>2. /\ job[p].a \in Slot /\ temp[job[p].a] = job[p].to /\ job[p].to \in Pages
      /\ UsesA(p) /\ Uses(p, job[p].a)
  BY <1>1 DEF RangesInv, JobInv, JobOK, UsesA, Uses
<1>3. PICK S \in SUBSET Slot : S = {job[p].a}
  BY <1>2
<1>4. SlotInv' /\ \A i \in Slot : temp'[i] = IF i \in S THEN None ELSE temp[i]
  BY <1>1, <1>2, <1>3, ReleaseKeeps DEF RangesInv
<1>5. job'[p] = NoJob
  BY <1>1 DEF RangesInv, JobInv
<1>6. NoJob \in JobType /\ NoJob.pc = "idle"
  BY NoJobTyped
<1>7. /\ ~ Cloning(p)' /\ ~ Copying(p)' /\ ~ UsesA(p)' /\ ~ UsesB(p)' /\ ~ Cloning(p)
      /\ \A i \in Slot : ~ Uses(p, i)'
  BY <1>1, <1>5, <1>6 DEF Cloning, Copying, UsesA, UsesB, Uses
<1>8. JobOK(p)'
  BY <1>5, <1>6, <1>7 DEF JobOK
<1>9. ASSUME NEW q \in Procs, NEW i \in Slot, q # p, Uses(q, i)
      PROVE  temp'[i] = temp[i] /\ ~ Uses(p, i)'
  BY <1>2, <1>3, <1>4, <1>7, <1>9 DEF RangesInv, JobInv
<1> QED
  BY <1>1, <1>4, <1>6, <1>7, <1>8, <1>9, SlotStep

LEMMA WaitsKeeps ==
    ASSUME RangesInv, NEW p \in Procs, Waits(p)
    PROVE  RangesInv'
<1>1. /\ job[p].pc \in {"map", "dup", "dup2"} /\ job[p].tries > 1
      /\ job' = [job EXCEPT ![p].tries = @ - 1]
      /\ UNCHANGED <<physVars, hwVars, tempVars, spaceVars>>
  BY DEF Waits
<1>2. PICK j : j = [job[p] EXCEPT !.tries = job[p].tries - 1]
  OBVIOUS
<1>3. job[p] \in JobType
  BY DEF RangesInv, JobInv
<1>4. /\ j \in JobType /\ j.pc = job[p].pc /\ j.to = job[p].to /\ j.from = job[p].from
      /\ j.a = job[p].a /\ j.b = job[p].b /\ j.child = job[p].child /\ j.dir = job[p].dir
  BY <1>1, <1>2, <1>3, ConstantsFacts DEF JobType
<1>5. job' = [job EXCEPT ![p] = j]
  BY <1>1, <1>2 DEF RangesInv, JobInv
<1>6. job'[p] = j
  BY <1>5 DEF RangesInv, JobInv
<1>7. temp' = temp /\ dir' = dir /\ local' = local
  BY <1>1 DEF tempVars, spaceVars
<1>8. /\ Cloning(p)' <=> Cloning(p)
      /\ Copying(p)' <=> Copying(p)
      /\ UsesA(p)' <=> UsesA(p)
      /\ UsesB(p)' <=> UsesB(p)
      /\ \A i \in Slot : Uses(p, i)' <=> Uses(p, i)
  BY <1>4, <1>6 DEF Cloning, Copying, UsesA, UsesB, Uses
<1>9. JobOK(p)'
  <2>1. JobOK(p)
    BY DEF RangesInv, JobInv
  <2>2. ToCopy(job[p].child)' = ToCopy(job[p].child)
    BY <1>4, <1>6, <1>7 DEF ToCopy
  <2> QED
    BY <1>4, <1>6, <1>7, <1>8, <2>1, <2>2 DEF JobOK
<1>10. SlotInv'
  BY <1>1, SlotSame DEF RangesInv
<1>11. ASSUME NEW q \in Procs, NEW i \in Slot, q # p, Uses(q, i)
       PROVE  temp'[i] = temp[i] /\ ~ Uses(p, i)'
  BY <1>7, <1>8, <1>11 DEF RangesInv, JobInv
<1> QED
  BY <1>1, <1>4, <1>5, <1>8, <1>9, <1>10, <1>11, SlotStep

-----------------------------------------------------------------------------
(* Address spaces                                                          *)

LEMMA CloneKeeps ==
    ASSUME RangesInv, NEW p \in Procs, NEW q \in Procs, Clone(p, q)
    PROVE  RangesInv'
<1>1. PICK f \in Pages :
         /\ job[p].pc = "idle"
         /\ dir[q] = None
         /\ \A r \in Procs : job[r].child # q
         /\ Grab(f)
         /\ job' = [job EXCEPT ![p] = [NoJob EXCEPT !.pc = "local", !.child = q, !.dir = f]]
         /\ UNCHANGED <<hwVars, tempVars, spaceVars>>
  BY DEF Clone
<1>2. PICK j : j = [NoJob EXCEPT !.pc = "local", !.child = q, !.dir = f]
  OBVIOUS
<1>3. j \in JobType /\ j.pc = "local" /\ j.child = q /\ j.dir = f
  <2>1. j = [pc |-> "local", from |-> None, to |-> None, a |-> None, b |-> None,
             tries |-> 0, child |-> q, dir |-> f]
    BY <1>2 DEF NoJob
  <2> QED
    BY <2>1, ConstantsFacts DEF JobType, Opt
<1>4. job' = [job EXCEPT ![p] = j] /\ dir' = dir /\ local' = local /\ temp' = temp
  BY <1>1, <1>2 DEF spaceVars, tempVars
<1>5. job'[p] = j /\ \A r \in Procs : r # p => job'[r] = job[r]
  BY <1>4 DEF RangesInv, JobInv
<1>6. /\ Cloning(p)' /\ ~ Copying(p)' /\ ~ UsesA(p)' /\ ~ UsesB(p)'
      /\ ~ Cloning(p) /\ ~ Copying(p)
  BY <1>1, <1>3, <1>5 DEF Cloning, Copying, UsesA, UsesB
<1>7. JobOK(p)'
  BY <1>1, <1>3, <1>4, <1>5, <1>6 DEF JobOK
<1>8. JobInv'
  <2>1. dir' \in [Procs -> Opt(Pages)] /\ local' \in [Procs -> [1 .. Local -> Opt(Pages)]]
    BY <1>4 DEF RangesInv, JobInv
  <2>2. \A r \in Procs : Cloning(r) => dir[job[r].child] = None
    BY DEF RangesInv, JobInv, JobOK
  <2>3. \A i \in Slot : ~ Uses(p, i)'
    BY <1>6 DEF Uses
  <2>4. \A r \in Procs : j.child # job[r].child
    BY <1>1, <1>3
  <2> QED
    BY <1>3, <1>4, <1>7, <2>1, <2>2, <2>3, <2>4, JobStep DEF RangesInv
<1>9. /\ BitInv' /\ f \notin bits /\ f # 0 /\ f \notin Dirs
      /\ bits' = bits \cup {f} /\ given'[f] = 1 /\ used' = used + 1
      /\ \A g \in Pages : g # f => given'[g] = given[g]
      /\ Cardinality(bits') = Cardinality(bits) + 1
  BY <1>1, GrabFacts
<1>10. \A r \in Procs : /\ Cloning(r)' <=> Cloning(r) \/ r = p
                        /\ Copying(r)' <=> Copying(r)
                        /\ Copying(r) => r # p
                        /\ Cloning(r) => r # p
  BY <1>5, <1>6 DEF Cloning, Copying
<1>11. Dirs' = Dirs \cup {f}
  BY <1>3, <1>4, <1>5, <1>9, <1>10 DEF Dirs
<1>12. DirInv'
  <2>1. \A r \in Procs : /\ dir[r] # f
                         /\ Cloning(r) => job[r].dir # f
                         /\ Copying(r) => job[r].to # f
                         /\ \A i \in 1 .. Local : local[r][i] # f
    <3>1. f # None
      BY NoneFacts
    <3> QED
      BY <1>9, <3>1 DEF RangesInv, DirInv
  <2>2. /\ \A r \in Procs : dir'[r] # None => dir'[r] \in bits'
        /\ \A r \in Procs : Cloning(r)' => job'[r].dir \in bits' /\ job'[r].dir # 0
        /\ \A r \in Procs : Copying(r)' => job'[r].to \in bits'
        /\ \A r \in Procs : \A i \in 1 .. Local : local'[r][i] # None => local'[r][i] \in bits'
        /\ \A r \in Procs : \A i \in 1 .. Local : dir'[r] # None => local'[r][i] # None
    BY <1>3, <1>4, <1>5, <1>9, <1>10 DEF RangesInv, DirInv
  <2>3. \A g \in Dirs' :
          /\ given'[g] = 1
          /\ \A r \in Procs : Copying(r)' => job'[r].to # g
          /\ \A r \in Procs : \A i \in 1 .. Local : local'[r][i] # g
    <3>1. \A g \in Dirs : g \in Pages /\ g # f
      BY <1>9 DEF Dirs
    <3> QED
      BY <1>4, <1>5, <1>9, <1>10, <1>11, <2>1, <3>1 DEF RangesInv, DirInv
  <2>4. \A r, s \in Procs : r # s /\ dir'[r] # None => dir'[r] # dir'[s]
    BY <1>4 DEF RangesInv, DirInv
  <2>5. \A r, s \in Procs : Cloning(r)' => job'[r].dir # dir'[s]
    BY <1>3, <1>4, <1>5, <1>10, <2>1 DEF RangesInv, DirInv
  <2>6. \A r, s \in Procs : r # s /\ Cloning(r)' /\ Cloning(s)' => job'[r].dir # job'[s].dir
    BY <1>3, <1>5, <1>10, <2>1 DEF RangesInv, DirInv
  <2> QED
    BY <2>2, <2>3, <2>4, <2>5, <2>6 DEF DirInv
<1>13. CountInv'
  <2>1. Cardinality(Dirs') = Cardinality(Dirs) + 1
    BY <1>9, <1>11, DirsFinite, FS_AddElement
  <2>2. bits \subseteq Pages
    BY DEF RangesInv, BitInv
  <2>3. Cardinality(bits) \in Nat /\ Cardinality(Dirs) \in Nat
    BY <2>2, BitsFinite, DirsFinite
  <2> QED
    BY <1>9, <2>1, <2>3 DEF RangesInv, CountInv
<1>14. HwInv' /\ SlotInv'
  BY <1>1, HwSame, SlotSame DEF RangesInv
<1> QED
  BY <1>8, <1>9, <1>12, <1>13, <1>14 DEF RangesInv

LEMMA FirstToCopy ==
    ASSUME NEW q \in Procs, ToCopy(q) # {}
    PROVE  First(ToCopy(q)) \in 1 .. Local /\ local[q][First(ToCopy(q))] = None
<1>1. ToCopy(q) \in SUBSET Nat
  BY ConstantsFacts DEF ToCopy
<1>2. First(ToCopy(q)) \in ToCopy(q)
  BY <1>1, FirstIsLeast
<1> QED
  BY <1>2 DEF ToCopy

LEMMA LocalPageKeeps ==
    ASSUME RangesInv, NEW p \in Procs, LocalPage(p)
    PROVE  RangesInv'
<1>1. job[p].child \in Procs /\ dir[job[p].child] = None /\ job[p].dir \in Pages
  BY DEF LocalPage, RangesInv, JobInv, JobOK, Cloning
<1>2. PICK c \in Procs : c = job[p].child
  BY <1>1
<1>3. PICK i \in 1 .. Local : i = First(ToCopy(c))
  BY <1>2, FirstToCopy DEF LocalPage
<1>4. PICK f \in Pages :
         /\ dir[p] # None /\ job[p].pc = "local" /\ ToCopy(c) # {}
         /\ Grab(f)
         /\ job' = [job EXCEPT ![p].pc = "dup", ![p].to = f, ![p].tries = Tries, ![p].from = local[p][i]]
         /\ UNCHANGED <<hwVars, tempVars, spaceVars>>
  BY <1>2, <1>3 DEF LocalPage, Runs
<1>5. job[p] \in JobType /\ local[p][i] \in Pages
  <2>1. local[p][i] # None /\ local[p][i] \in Opt(Pages)
    BY ZenonT(30), <1>4 DEF RangesInv, DirInv, JobInv
  <2> QED
    BY <2>1 DEF RangesInv, JobInv, Opt
<1>6. PICK j : j = [job[p] EXCEPT !.pc = "dup", !.to = f, !.tries = Tries, !.from = local[p][i]]
  OBVIOUS
<1>7. /\ j \in JobType /\ j.pc = "dup" /\ j.to = f /\ j.from = local[p][i]
      /\ j.child = c /\ j.dir = job[p].dir
  <2>1. Tries \in 0 .. Tries /\ f \in Opt(Pages) /\ local[p][i] \in Opt(Pages)
    BY <1>5, ConstantsFacts DEF Opt
  <2>2. j \in JobType
    BY <1>5, <1>6, <2>1 DEF JobType
  <2> QED
    BY <1>2, <1>5, <1>6, <2>2 DEF JobType
<1>8. job' = [job EXCEPT ![p] = j] /\ dir' = dir /\ local' = local /\ temp' = temp
  BY <1>4, <1>6 DEF spaceVars, tempVars, RangesInv, JobInv
<1>9. job'[p] = j /\ \A q \in Procs : q # p => job'[q] = job[q]
  BY <1>8 DEF RangesInv, JobInv
<1>10. /\ Cloning(p)' /\ Copying(p)' /\ ~ UsesA(p)' /\ ~ UsesB(p)'
       /\ Cloning(p) /\ ~ Copying(p)
  BY <1>4, <1>7, <1>9 DEF Cloning, Copying, UsesA, UsesB
<1>11. /\ BitInv' /\ f \notin bits /\ f \notin Dirs
       /\ bits' = bits \cup {f}
       /\ \A g \in Pages : g # f => given'[g] = given[g]
  BY <1>4, GrabFacts
<1>12. local[p][i] # f
  BY <1>4, <1>5, <1>11, NoneFacts DEF RangesInv, DirInv
<1>13. JobOK(p)'
  <2>1. ToCopy(c)' = ToCopy(c)
    BY <1>8 DEF ToCopy
  <2>2. (ToCopy(job[p].child) # {})'
    BY <1>4, <1>7, <1>8, <1>9 DEF ToCopy
  <2> QED
    BY <1>1, <1>2, <1>5, <1>7, <1>8, <1>9, <1>10, <1>12, <2>2 DEF JobOK
<1>14. JobInv'
  <2>1. dir' \in [Procs -> Opt(Pages)] /\ local' \in [Procs -> [1 .. Local -> Opt(Pages)]]
    BY <1>8 DEF RangesInv, JobInv
  <2>2. \A q \in Procs : q # p /\ Cloning(q) => dir[job[q].child] = None /\ j.child # job[q].child
    BY <1>2, <1>7, <1>10 DEF RangesInv, JobInv, JobOK
  <2>3. \A s \in Slot : ~ Uses(p, s)'
    BY <1>10 DEF Uses
  <2> QED
    BY <1>7, <1>8, <1>13, <2>1, <2>2, <2>3, JobStep DEF RangesInv
<1>15. DirInv' /\ Dirs' = Dirs
  <2>1. \A q \in Procs : Cloning(q)' <=> Cloning(q)
    BY <1>9, <1>10 DEF Cloning
  <2>2. \A q \in Procs : Cloning(q) => job'[q].dir = job[q].dir
    BY <1>7, <1>9
  <2>3. \A q \in Procs : q # p /\ Copying(q)' => Copying(q) /\ job'[q].to = job[q].to
    BY <1>9 DEF Copying
  <2>4. \A q \in Procs : Copying(q)' => job'[q].to \in bits' /\ job'[q].to \notin Dirs
    BY <1>7, <1>9, <1>11, <2>3 DEF RangesInv, DirInv
  <2>5. \A g \in Dirs : given'[g] = given[g]
    BY <1>11 DEF Dirs
  <2>6. \A q \in Procs : \A k \in 1 .. Local : local'[q][k] # None =>
            local'[q][k] \in bits' /\ local'[q][k] \notin Dirs
    BY <1>8, <1>11 DEF RangesInv, DirInv
  <2>7. \A q \in Procs : \A k \in 1 .. Local : dir[q] # None => local'[q][k] # None
    BY <1>8 DEF RangesInv, DirInv
  <2> QED
    BY <1>8, <1>11, <2>1, <2>2, <2>4, <2>5, <2>6, <2>7, DirStep DEF RangesInv
<1>16. CountInv'
  BY <1>4, <1>15, GrabCounts
<1>17. HwInv' /\ SlotInv'
  BY <1>4, HwSame, SlotSame DEF RangesInv
<1> QED
  BY <1>11, <1>14, <1>15, <1>16, <1>17 DEF RangesInv

LEMMA DupToKeeps ==
    ASSUME RangesInv, NEW p \in Procs, DupTo(p)
    PROVE  RangesInv'
<1>1. PICK s \in Slot : s = FreeSlot
  BY FreeSlotIsFree DEF DupTo
<1>2. /\ job[p].pc = "dup" /\ FreeSlots # {}
      /\ Fill(s, job[p].to)
      /\ job' = [job EXCEPT ![p].pc = "dup2", ![p].a = s, ![p].tries = Tries]
      /\ UNCHANGED <<physVars, hwVars, spaceVars>>
  BY <1>1 DEF DupTo
<1>3. PICK j : j = [job[p] EXCEPT !.pc = "dup2", !.a = s, !.tries = Tries]
  OBVIOUS
<1>4. job[p] \in JobType /\ JobOK(p) /\ Copying(p) /\ Cloning(p)
  BY <1>2 DEF RangesInv, JobInv, Copying, Cloning
<1>5. /\ j \in JobType /\ j.pc = "dup2" /\ j.a = s /\ j.to = job[p].to /\ j.from = job[p].from
      /\ j.child = job[p].child /\ j.dir = job[p].dir
  <2>1. Tries \in 0 .. Tries /\ s \in Opt(Slot)
    BY ConstantsFacts DEF Opt
  <2> QED
    BY <1>3, <1>4, <2>1 DEF JobType
<1>6. job' = [job EXCEPT ![p] = j] /\ dir' = dir /\ local' = local
  BY <1>2, <1>3 DEF RangesInv, JobInv, spaceVars
<1>7. job'[p] = j
  BY <1>6 DEF RangesInv, JobInv
<1>8. temp[s] = None /\ job[p].to \in Pages
  BY <1>1, <1>2, <1>4, FreeSlotIsFree DEF JobOK
<1>9. SlotInv' /\ \A i \in Slot : temp'[i] = IF i = s THEN job[p].to ELSE temp[i]
  BY <1>2, <1>8, FillKeeps DEF RangesInv
<1>10. /\ Cloning(p)' /\ Copying(p)' /\ UsesA(p)' /\ ~ UsesB(p)'
       /\ \A i \in Slot : Uses(p, i)' => i = s
  BY <1>5, <1>7 DEF Cloning, Copying, UsesA, UsesB, Uses
<1>11. JobOK(p)'
  <2>1. ToCopy(job[p].child)' = ToCopy(job[p].child)
    BY <1>5, <1>6, <1>7 DEF ToCopy
  <2> QED
    BY <1>4, <1>5, <1>6, <1>7, <1>8, <1>9, <1>10, <2>1 DEF JobOK
<1>12. ASSUME NEW q \in Procs, NEW i \in Slot, q # p, Uses(q, i)
       PROVE  temp'[i] = temp[i] /\ ~ Uses(p, i)'
  BY <1>1, <1>2, <1>9, <1>10, <1>12, FreeIsUnused DEF RangesInv
<1> QED
  BY <1>2, <1>4, <1>5, <1>6, <1>9, <1>10, <1>11, <1>12, SlotStep

LEMMA DupFromKeeps ==
    ASSUME RangesInv, NEW p \in Procs, DupFrom(p)
    PROVE  RangesInv'
<1>1. PICK s \in Slot : s = FreeSlot
  BY FreeSlotIsFree DEF DupFrom
<1>2. /\ job[p].pc = "dup2" /\ FreeSlots # {}
      /\ Fill(s, job[p].from)
      /\ job' = [job EXCEPT ![p].pc = "copy", ![p].b = s]
      /\ UNCHANGED <<physVars, hwVars, spaceVars>>
  BY <1>1 DEF DupFrom
<1>3. PICK j : j = [job[p] EXCEPT !.pc = "copy", !.b = s]
  OBVIOUS
<1>4. job[p] \in JobType /\ JobOK(p) /\ Copying(p) /\ Cloning(p) /\ UsesA(p)
  BY <1>2 DEF RangesInv, JobInv, Copying, Cloning, UsesA
<1>5. /\ j \in JobType /\ j.pc = "copy" /\ j.b = s /\ j.a = job[p].a
      /\ j.to = job[p].to /\ j.from = job[p].from
      /\ j.child = job[p].child /\ j.dir = job[p].dir
  BY <1>3, <1>4 DEF JobType, Opt
<1>6. job' = [job EXCEPT ![p] = j] /\ dir' = dir /\ local' = local
  BY <1>2, <1>3 DEF RangesInv, JobInv, spaceVars
<1>7. job'[p] = j
  BY <1>6 DEF RangesInv, JobInv
<1>8. temp[s] = None /\ job[p].from \in Pages
  BY <1>1, <1>2, <1>4, FreeSlotIsFree DEF JobOK
<1>9. SlotInv' /\ \A i \in Slot : temp'[i] = IF i = s THEN job[p].from ELSE temp[i]
  BY <1>2, <1>8, FillKeeps DEF RangesInv
<1>10. /\ Cloning(p)' /\ Copying(p)' /\ UsesA(p)' /\ UsesB(p)'
       /\ \A i \in Slot : Uses(p, i)' => i = s \/ Uses(p, i)
  BY <1>4, <1>5, <1>7 DEF Cloning, Copying, UsesA, UsesB, Uses
<1>11. JobOK(p)'
  <2>1. ToCopy(job[p].child)' = ToCopy(job[p].child)
    BY <1>5, <1>6, <1>7 DEF ToCopy
  <2>2. /\ job[p].a \in Slot /\ job[p].a # s /\ temp'[job[p].a] = job[p].to
        /\ job[p].to \in Pages
    BY <1>4, <1>8, <1>9, NoneFacts DEF JobOK
  <2> QED
    BY <1>4, <1>5, <1>6, <1>7, <1>8, <1>9, <1>10, <2>1, <2>2 DEF JobOK
<1>12. ASSUME NEW q \in Procs, NEW i \in Slot, q # p, Uses(q, i)
       PROVE  temp'[i] = temp[i] /\ ~ Uses(p, i)'
  <2>1. i # s
    BY <1>1, <1>2, <1>12, FreeIsUnused DEF RangesInv
  <2>2. ~ Uses(p, i)
    BY <1>12 DEF RangesInv, JobInv
  <2> QED
    BY <1>9, <1>10, <2>1, <2>2
<1> QED
  BY <1>2, <1>4, <1>5, <1>6, <1>9, <1>10, <1>11, <1>12, SlotStep

(* The copy is made and belongs to the child; both slots are free again.   *)
LEMMA DupCopyKeeps ==
    ASSUME RangesInv, NEW p \in Procs, DupCopy(p)
    PROVE  RangesInv'
<1>1. /\ JobOK(p) /\ job[p] \in JobType /\ job[p].pc = "copy"
      /\ UsesA(p) /\ UsesB(p) /\ Copying(p) /\ Cloning(p)
  BY DEF DupCopy, RangesInv, JobInv, UsesA, UsesB, Copying, Cloning
<1>2. PICK c \in Procs : c = job[p].child /\ ToCopy(c) # {} /\ dir[c] = None
  BY <1>1 DEF JobOK
<1>3. PICK i \in 1 .. Local : i = First(ToCopy(c))
  BY <1>2, FirstToCopy
<1>4. PICK S \in SUBSET Slot : S = {job[p].a, job[p].b}
  BY <1>1 DEF JobOK
<1>5. PICK f \in Pages : f = job[p].to
  BY <1>1 DEF JobOK
<1>6. PICK j : j = [NoJob EXCEPT !.pc = "local", !.child = c, !.dir = job[p].dir]
  OBVIOUS
<1>7. /\ Release(S)
      /\ local' = [local EXCEPT ![c][i] = f]
      /\ job' = [job EXCEPT ![p] = j]
      /\ UNCHANGED <<physVars, hwVars>> /\ dir' = dir
  BY <1>2, <1>3, <1>4, <1>5, <1>6 DEF DupCopy
<1>8. j \in JobType /\ j.pc = "local" /\ j.child = c /\ j.dir = job[p].dir
  <2>1. j = [pc |-> "local", from |-> None, to |-> None, a |-> None, b |-> None,
             tries |-> 0, child |-> c, dir |-> job[p].dir]
    BY <1>6 DEF NoJob
  <2>2. job[p].dir \in Opt(Pages)
    BY <1>1 DEF JobType
  <2> QED
    BY <2>1, <2>2, ConstantsFacts DEF JobType, Opt
<1>9. job'[p] = j /\ \A q \in Procs : q # p => job'[q] = job[q]
  BY <1>7 DEF RangesInv, JobInv
<1>10. /\ local' \in [Procs -> [1 .. Local -> Opt(Pages)]]
       /\ \A q \in Procs : \A k \in 1 .. Local :
             local'[q][k] = IF q = c /\ k = i THEN f ELSE local[q][k]
       /\ \A q \in Procs : q # c => local'[q] = local[q]
  BY <1>7 DEF RangesInv, JobInv, Opt
<1>11. SlotInv' /\ \A k \in Slot : temp'[k] = IF k \in S THEN None ELSE temp[k]
  <2>1. \A k \in S : temp[k] \in Pages
    BY <1>1, <1>4 DEF JobOK
  <2>2. \A k, l \in S : k # l => temp[k] # temp[l]
    BY <1>1, <1>4 DEF JobOK
  <2> QED
    BY <1>7, <2>1, <2>2, ReleaseKeeps DEF RangesInv
<1>12. /\ Cloning(p)' /\ ~ Copying(p)' /\ ~ UsesA(p)' /\ ~ UsesB(p)'
       /\ \A k \in Slot : ~ Uses(p, k)'
       /\ \A k \in S : Uses(p, k)
  BY <1>1, <1>4, <1>8, <1>9 DEF Cloning, Copying, UsesA, UsesB, Uses
<1>13. JobOK(p)'
  <2>1. job[p].dir \in Pages
    BY <1>1 DEF JobOK
  <2> QED
    BY <1>2, <1>7, <1>8, <1>9, <1>12, <2>1 DEF JobOK
<1>14. JobInv'
  <2>1. dir' \in [Procs -> Opt(Pages)]
    BY <1>7 DEF RangesInv, JobInv
  <2>2. ASSUME NEW q \in Procs, q # p, Cloning(q)
        PROVE  /\ dir'[job[q].child] = None
               /\ local'[job[q].child] = local[job[q].child]
               /\ j.child # job[q].child
    <3>1. job[q].child \in Procs /\ dir[job[q].child] = None /\ job[q].child # c
      BY <1>1, <1>2, <2>2 DEF RangesInv, JobInv, JobOK
    <3> QED
      BY <1>7, <1>8, <1>10, <3>1
  <2>3. ASSUME NEW q \in Procs, NEW k \in Slot, q # p, Uses(q, k)
        PROVE  temp'[k] = temp[k] /\ ~ Uses(p, k)'
    <3>1. k \notin S
      BY <1>12, <2>3 DEF RangesInv, JobInv
    <3> QED
      BY <1>11, <1>12, <3>1
  <2>4. JobInv /\ job' = [job EXCEPT ![p] = j] /\ j \in JobType
    BY <1>7, <1>8 DEF RangesInv
  <2>5. local' \in [Procs -> [1 .. Local -> Opt(Pages)]]
    BY <1>10
  <2> QED
    BY <1>13, <2>1, <2>2, <2>3, <2>4, <2>5, JobStep
<1>15. /\ bits' = bits /\ supers' = supers /\ used' = used /\ given' = given /\ state' = state
  BY <1>7 DEF physVars
<1>16. DirInv' /\ Dirs' = Dirs
  <2>1. \A q \in Procs : Cloning(q)' <=> Cloning(q)
    BY <1>1, <1>9, <1>12 DEF Cloning
  <2>2. \A q \in Procs : Cloning(q) => job'[q].dir = job[q].dir
    BY <1>8, <1>9
  <2>3. \A q \in Procs : Copying(q)' => q # p /\ Copying(q) /\ job'[q].to = job[q].to
    BY <1>9, <1>12 DEF Copying
  <2>4. \A q \in Procs : Copying(q)' => job'[q].to \in bits' /\ job'[q].to \notin Dirs
    BY <1>15, <2>3 DEF RangesInv, DirInv
  <2>5. f \in bits /\ f \notin Dirs /\ f # None
    BY <1>1, <1>5, NoneFacts DEF RangesInv, DirInv
  <2>6. \A q \in Procs : \A k \in 1 .. Local : local'[q][k] # None =>
            local'[q][k] \in bits' /\ local'[q][k] \notin Dirs
    BY <1>10, <1>15, <2>5 DEF RangesInv, DirInv
  <2>7. \A q \in Procs : \A k \in 1 .. Local : dir[q] # None => local'[q][k] # None
    BY <1>10, <2>5 DEF RangesInv, DirInv
  <2> QED
    BY <1>7, <1>15, <2>1, <2>2, <2>4, <2>6, <2>7, DirStep DEF RangesInv
<1>17. BitInv' /\ HwInv' /\ CountInv'
  BY <1>7, <1>15, <1>16, BitSame, HwSame, CountSame DEF RangesInv, BitInv
<1> QED
  BY <1>11, <1>14, <1>16, <1>17 DEF RangesInv

(* The directory passes from the job to the child.                         *)
LEMMA ClonedKeeps ==
    ASSUME RangesInv, NEW p \in Procs, Cloned(p)
    PROVE  RangesInv'
<1>1. JobOK(p) /\ job[p].pc = "local" /\ Cloning(p) /\ ~ Copying(p) /\ ToCopy(job[p].child) = {}
  BY DEF Cloned, RangesInv, JobInv, Cloning, Copying
<1>2. PICK c \in Procs : c = job[p].child /\ dir[c] = None /\ ToCopy(c) = {}
  BY <1>1 DEF JobOK
<1>3. PICK f \in Pages : f = job[p].dir
  BY <1>1 DEF JobOK
<1>4. /\ dir' = [dir EXCEPT ![c] = f]
      /\ job' = [job EXCEPT ![p] = NoJob]
      /\ UNCHANGED <<physVars, hwVars, tempVars, local>>
  BY <1>2, <1>3 DEF Cloned
<1>5. temp' = temp /\ local' = local
      /\ bits' = bits /\ supers' = supers /\ used' = used /\ given' = given /\ state' = state
  BY <1>4 DEF tempVars, physVars
<1>6. job'[p] = NoJob /\ \A q \in Procs : q # p => job'[q] = job[q]
  BY <1>4 DEF RangesInv, JobInv
<1>7. dir' \in [Procs -> Opt(Pages)] /\ \A q \in Procs : dir'[q] = IF q = c THEN f ELSE dir[q]
  BY <1>4 DEF RangesInv, JobInv, Opt
<1>8. NoJob \in JobType /\ NoJob.pc = "idle"
  BY NoJobTyped
<1>9. /\ ~ Cloning(p)' /\ ~ Copying(p)' /\ ~ UsesA(p)' /\ ~ UsesB(p)'
      /\ \A k \in Slot : ~ Uses(p, k)'
  BY <1>6, <1>8 DEF Cloning, Copying, UsesA, UsesB, Uses
<1>10. \A q \in Procs : q # p => /\ Cloning(q)' <=> Cloning(q)
                                 /\ Copying(q)' <=> Copying(q)
  BY <1>6 DEF Cloning, Copying
<1>11. JobInv'
  <2>1. JobOK(p)'
    BY <1>6, <1>8, <1>9 DEF JobOK
  <2>2. local' \in [Procs -> [1 .. Local -> Opt(Pages)]]
    BY <1>5 DEF RangesInv, JobInv
  <2>3. ASSUME NEW q \in Procs, q # p, Cloning(q)
        PROVE  dir'[job[q].child] = None /\ local'[job[q].child] = local[job[q].child]
    <3>1. job[q].child \in Procs /\ dir[job[q].child] = None /\ job[q].child # c
      BY <1>1, <1>2, <2>3 DEF RangesInv, JobInv, JobOK
    <3> QED
      BY <1>5, <1>7, <3>1
  <2> QED
    BY <1>4, <1>5, <1>7, <1>8, <1>9, <2>1, <2>2, <2>3, JobStep DEF RangesInv
<1>12. f \in bits /\ f # 0 /\ f \in Dirs /\ f # None
  BY <1>1, <1>3, NoneFacts DEF RangesInv, DirInv, Dirs
<1>13. Dirs' = Dirs
  <2>1. ASSUME NEW g \in Pages, \E q \in Procs : dir'[q] = g \/ (Cloning(q)' /\ job'[q].dir = g)
        PROVE  \E q \in Procs : dir[q] = g \/ (Cloning(q) /\ job[q].dir = g)
    BY <1>1, <1>3, <1>6, <1>7, <1>9, <1>10, <2>1
  <2>2. ASSUME NEW g \in Pages, \E q \in Procs : dir[q] = g \/ (Cloning(q) /\ job[q].dir = g)
        PROVE  \E q \in Procs : dir'[q] = g \/ (Cloning(q)' /\ job'[q].dir = g)
    <3>1. g # None
      BY NoneFacts
    <3> QED
      BY <1>2, <1>3, <1>6, <1>7, <1>10, <2>2, <3>1
  <2> QED
    BY <2>1, <2>2 DEF Dirs
<1>14. DirInv'
  <2>1. /\ \A q \in Procs : dir'[q] # None => dir'[q] \in bits'
        /\ \A q \in Procs : Cloning(q)' => job'[q].dir \in bits' /\ job'[q].dir # 0
        /\ \A q \in Procs : Copying(q)' => job'[q].to \in bits'
        /\ \A q \in Procs : \A i \in 1 .. Local : local'[q][i] # None => local'[q][i] \in bits'
    BY <1>5, <1>6, <1>7, <1>9, <1>10, <1>12 DEF RangesInv, DirInv
  <2>2. \A q \in Procs : \A i \in 1 .. Local : dir'[q] # None => local'[q][i] # None
    <3>1. \A i \in 1 .. Local : local[c][i] # None
      BY <1>2 DEF ToCopy
    <3> QED
      BY <1>5, <1>7, <3>1 DEF RangesInv, DirInv
  <2>3. \A g \in Dirs' :
          /\ given'[g] = 1
          /\ \A q \in Procs : Copying(q)' => job'[q].to # g
          /\ \A q \in Procs : \A i \in 1 .. Local : local'[q][i] # g
    BY <1>5, <1>6, <1>9, <1>10, <1>13 DEF RangesInv, DirInv
  <2>4. \A q, r \in Procs : q # r /\ dir'[q] # None => dir'[q] # dir'[r]
    BY <1>1, <1>3, <1>7, <1>12 DEF RangesInv, DirInv
  <2>5. \A q, r \in Procs : Cloning(q)' => job'[q].dir # dir'[r]
    BY <1>1, <1>3, <1>6, <1>7, <1>9, <1>10 DEF RangesInv, DirInv
  <2>6. \A q, r \in Procs : q # r /\ Cloning(q)' /\ Cloning(r)' => job'[q].dir # job'[r].dir
    BY <1>6, <1>9, <1>10 DEF RangesInv, DirInv
  <2> QED
    BY <2>1, <2>2, <2>3, <2>4, <2>5, <2>6 DEF DirInv
<1>15. BitInv' /\ HwInv' /\ SlotInv' /\ CountInv'
  BY <1>4, <1>5, <1>13, BitSame, HwSame, SlotSame, CountSame DEF RangesInv, BitInv
<1> QED
  BY <1>11, <1>14, <1>15 DEF RangesInv

(* Only the directory is given back; it was this process's alone.          *)
LEMMA RemoveKeeps ==
    ASSUME RangesInv, NEW p \in Procs, Remove(p)
    PROVE  RangesInv'
<1>1. dir[p] # None /\ dir[p] # 0 /\ job[p].pc = "idle" /\ ~ Cloning(p)
  BY DEF Remove, Runs, Cloning
<1>2. PICK f \in Pages : f = dir[p]
  BY <1>1 DEF RangesInv, JobInv, Opt
<1>3. f \in Dirs /\ f # None /\ given[f] = 1 /\ f \in bits
  <2>1. f \in Dirs
    BY <1>1, <1>2 DEF Dirs
  <2> QED
    BY <2>1, DirsInUse, NoneFacts DEF RangesInv, DirInv
<1>4. PICK S \in SUBSET Pages : S = {f}
  OBVIOUS
<1>5. /\ Free(S)
      /\ dir' = [dir EXCEPT ![p] = None]
      /\ local' = [local EXCEPT ![p] = [i \in 1 .. Local |-> None]]
      /\ UNCHANGED <<hwVars, tempVars, job>>
  BY <1>2, <1>4 DEF Remove
<1>6. BitInv'
  BY <1>3, <1>4, <1>5, FreeKeepsBits DEF RangesInv
<1>7. /\ bits' = bits \ {f}
      /\ used' = used - Cardinality(S)
      /\ given' = [g \in Pages |-> given[g] - IF g \in S THEN 1 ELSE 0]
  BY <1>4, <1>5 DEF Free
<1>8. job' = job /\ temp' = temp
  BY <1>5 DEF tempVars
<1>9. /\ dir' \in [Procs -> Opt(Pages)]
      /\ \A q \in Procs : dir'[q] = IF q = p THEN None ELSE dir[q]
  BY <1>5 DEF RangesInv, JobInv, Opt
<1>10. /\ local' \in [Procs -> [1 .. Local -> Opt(Pages)]]
       /\ \A q \in Procs : \A i \in 1 .. Local :
             local'[q][i] = IF q = p THEN None ELSE local[q][i]
       /\ \A q \in Procs : q # p => local'[q] = local[q]
  BY <1>5 DEF RangesInv, JobInv, Opt
<1>11. \A q \in Procs : /\ Cloning(q)' <=> Cloning(q)
                        /\ Copying(q)' <=> Copying(q)
                        /\ UsesA(q)' <=> UsesA(q)
                        /\ UsesB(q)' <=> UsesB(q)
  BY <1>8 DEF Cloning, Copying, UsesA, UsesB
<1>12. JobInv'
  <2>1. ASSUME NEW q \in Procs PROVE JobOK(q)'
    <3>1. JobOK(q)
      BY DEF RangesInv, JobInv
    <3>2. Cloning(q) => job[q].child \in Procs /\ job[q].child # p
      BY <1>1, <3>1 DEF JobOK
    <3>3. Cloning(q) => ToCopy(job[q].child)' = ToCopy(job[q].child)
      BY <1>8, <1>10, <3>2 DEF ToCopy
    <3>4. Copying(q) => Cloning(q)
      BY DEF Copying, Cloning
    <3> QED
      BY <1>8, <1>9, <1>11, <3>1, <3>2, <3>3, <3>4 DEF JobOK
  <2>2. \A q, r \in Procs : q # r =>
          /\ \A i \in Slot : ~ (Uses(q, i)' /\ Uses(r, i)')
          /\ Cloning(q)' /\ Cloning(r)' => job'[q].child # job'[r].child
    BY <1>8, <1>11 DEF RangesInv, JobInv, Uses
  <2>3. job' \in [Procs -> JobType]
    BY <1>8 DEF RangesInv, JobInv
  <2> QED
    BY <1>9, <1>10, <2>1, <2>2, <2>3, Zenon DEF JobInv
<1>13. Dirs' = Dirs \ {f}
  <2>1. ASSUME NEW g \in Pages, g # f
        PROVE  (\E q \in Procs : dir'[q] = g \/ (Cloning(q)' /\ job'[q].dir = g))
               <=> (\E q \in Procs : dir[q] = g \/ (Cloning(q) /\ job[q].dir = g))
    BY <1>2, <1>8, <1>9, <1>11, <2>1, NoneFacts
  <2>2. ~ (\E q \in Procs : dir'[q] = f \/ (Cloning(q)' /\ job'[q].dir = f))
    BY <1>1, <1>2, <1>3, <1>8, <1>9, <1>11 DEF RangesInv, DirInv
  <2> QED
    BY <2>1, <2>2 DEF Dirs
<1>14. DirInv'
  <2>1. /\ \A q \in Procs : q # p => dir[q] # f
        /\ \A q \in Procs : Cloning(q) => job[q].dir # f
        /\ \A q \in Procs : Copying(q) => job[q].to # f
        /\ \A q \in Procs : \A i \in 1 .. Local : local[q][i] # f
    BY <1>1, <1>2, <1>3 DEF RangesInv, DirInv
  <2>2. /\ \A q \in Procs : dir'[q] # None => dir'[q] \in bits'
        /\ \A q \in Procs : Cloning(q)' => job'[q].dir \in bits' /\ job'[q].dir # 0
        /\ \A q \in Procs : Copying(q)' => job'[q].to \in bits'
        /\ \A q \in Procs : \A i \in 1 .. Local : local'[q][i] # None => local'[q][i] \in bits'
        /\ \A q \in Procs : \A i \in 1 .. Local : dir'[q] # None => local'[q][i] # None
    BY <1>7, <1>8, <1>9, <1>10, <1>11, <2>1 DEF RangesInv, DirInv
  <2>3. ASSUME NEW g \in Dirs'
        PROVE  /\ given'[g] = 1
               /\ \A q \in Procs : Copying(q)' => job'[q].to # g
               /\ \A q \in Procs : \A i \in 1 .. Local : local'[q][i] # g
    <3>1. g \in Dirs /\ g # f /\ g \in Pages /\ g # None
      BY <1>13, NoneFacts DEF Dirs
    <3>2. given[g] = 1
      BY <3>1 DEF RangesInv, DirInv
    <3>3. given'[g] = 1
      BY <1>4, <1>7, <3>1, <3>2
    <3> QED
      BY <1>8, <1>10, <1>11, <3>1, <3>3 DEF RangesInv, DirInv
  <2>4. /\ \A q, r \in Procs : q # r /\ dir'[q] # None => dir'[q] # dir'[r]
        /\ \A q, r \in Procs : Cloning(q)' => job'[q].dir # dir'[r]
        /\ \A q, r \in Procs : q # r /\ Cloning(q)' /\ Cloning(r)' => job'[q].dir # job'[r].dir
    <3>1. \A q \in Procs : Cloning(q) => job[q].dir # None
      BY NoneFacts DEF RangesInv, JobInv, JobOK
    <3> QED
      BY <1>8, <1>9, <1>11, <3>1 DEF RangesInv, DirInv
  <2> QED
    BY <2>2, <2>3, <2>4 DEF DirInv
<1>15. CountInv'
  <2>1. bits \subseteq Pages
    BY DEF RangesInv, BitInv
  <2>2. IsFiniteSet(bits) /\ Cardinality(bits) \in Nat /\ IsFiniteSet(Dirs) /\ Cardinality(Dirs) \in Nat
    BY <2>1, BitsFinite, DirsFinite
  <2>3. Cardinality(bits') = Cardinality(bits) - 1
    BY <1>3, <1>7, <2>2, FS_RemoveElement
  <2>4. Cardinality(Dirs') = Cardinality(Dirs) - 1
    BY <1>3, <1>13, <2>2, FS_RemoveElement
  <2>5. Cardinality(S) = 1
    BY <1>4, FS_Singleton
  <2> QED
    BY <1>7, <2>2, <2>3, <2>4, <2>5 DEF RangesInv, CountInv
<1>16. HwInv' /\ SlotInv'
  BY <1>5, HwSame, SlotSame DEF RangesInv
<1> QED
  BY <1>6, <1>12, <1>14, <1>15, <1>16 DEF RangesInv

-----------------------------------------------------------------------------
(* The theorems                                                            *)

LEMMA InitRangesInv == Init => RangesInv
<1> SUFFICES ASSUME Init PROVE RangesInv
  OBVIOUS
<1>1. /\ bits = 0 .. Reserved - 1 /\ supers = 0 .. Reserved \div W - 1
      /\ used = Reserved /\ given = [f \in Pages |-> 0] /\ state = "runs"
  BY DEF Init, PhysInit
<1>2. PICK p \in Procs : dir = [q \in Procs |-> IF q = p THEN 0 ELSE None]
  BY DEF Init
<1>3. /\ hwBits = {} /\ hwSupers = {} /\ table = [v \in HWPages |-> None]
      /\ hw = [h \in Holders |-> NoMap]
      /\ temp = [i \in Slot |-> None] /\ refs = [f \in Pages |-> 0]
      /\ local = [q \in Procs |-> [i \in 1 .. Local |-> IF dir[q] = 0 THEN 0 ELSE None]]
      /\ job = [q \in Procs |-> NoJob]
  BY DEF Init
<1>4. BitInv
  <2>1. bits \subseteq Pages
    BY <1>1, ConstantsFacts DEF Pages
  <2>2. Reserved \div W \in Nat /\ (Reserved \div W) * W <= Reserved
    BY PhysConstants
  <2>3. \A w \in 0 .. Reserved \div W - 1 : w \in Nat /\ (w + 1) * W <= Reserved
    <3>1. SUFFICES ASSUME NEW w \in 0 .. Reserved \div W - 1 PROVE w \in Nat /\ (w + 1) * W <= Reserved
      OBVIOUS
    <3>2. w \in Nat /\ w + 1 <= Reserved \div W
      BY <2>2
    <3>3. (w + 1) * W <= (Reserved \div W) * W
      BY <2>2, <3>2, ConstantsFacts
    <3> QED
      BY <2>2, <3>2, <3>3, ConstantsFacts
  <2>4. supers \subseteq Words
    <3>1. SUFFICES ASSUME NEW w \in supers PROVE w \in Words
      OBVIOUS
    <3>2. w \in Nat /\ (w + 1) * W <= Reserved
      BY <1>1, <2>3
    <3>3. w * W \in Nat /\ w * W < Reserved
      BY <3>2, ConstantsFacts
    <3>4. w * W \in Pages
      BY <3>3, ConstantsFacts DEF Pages
    <3>5. w * W \in PagesOf(w)
      BY <3>2, <3>3, ConstantsFacts DEF PagesOf
    <3>6. (w * W) \div W = w
      BY <3>2, <3>5, WordOfPage
    <3> QED
      BY <3>4, <3>6, WordIsWord
  <2>5. GrantedOnce
    BY <1>1 DEF GrantedOnce
  <2>6. SearchSound
    <3>1. SUFFICES ASSUME NEW w \in 0 .. SuperCount * W - 1
                   PROVE  IF w \in supers THEN PagesOf(w) \cap bits # {} ELSE ~ PagesOf(w) \subseteq bits
      BY DEF SearchSound
    <3>2. w \in Nat
      BY SummarisedPages
    <3>3. w * W \in Nat /\ (w + 1) * W = w * W + W
      BY <3>2, ConstantsFacts
    <3>4. CASE w \in supers
      <4>1. (w + 1) * W <= Reserved
        BY <1>1, <2>3, <3>4
      <4>2. w * W \in bits
        BY <1>1, <3>3, <4>1, ConstantsFacts
      <4>3. w * W \in PagesOf(w)
        BY <3>3, ConstantsFacts DEF PagesOf
      <4> QED
        BY <3>4, <4>2, <4>3
    <3>5. CASE w \notin supers
      <4>1. Reserved \div W <= w
        BY <1>1, <2>2, <3>2, <3>5
      <4>2. Reserved <= w * W + W - 1
        <5>1. Reserved < (Reserved \div W) * W + W
          BY PhysConstants
        <5>2. (Reserved \div W) * W <= w * W
          BY <2>2, <3>2, <4>1, ConstantsFacts
        <5> QED
          BY <2>2, <3>3, <5>1, <5>2, ConstantsFacts
      <4>3. w * W + W - 1 \in PagesOf(w)
        BY <3>3, ConstantsFacts DEF PagesOf
      <4>4. w * W + W - 1 \notin bits
        BY <1>1, <3>3, <4>2, ConstantsFacts
      <4> QED
        BY <3>5, <4>3, <4>4
    <3> QED
      BY <3>4, <3>5
  <2> QED
    BY <1>1, <2>1, <2>4, <2>5, <2>6 DEF BitInv
<1>5. HwInv
  <2>1. NoMap \in [at : Opt(HWPages), phys : Opt(Nat), count : 0 .. HW]
    BY ConstantsFacts DEF NoMap, Opt
  <2>2. \A w \in 0 .. HW \div W - 1 : ~ PagesOf(w) \subseteq hwBits
    <3>1. \A w \in 0 .. HW \div W - 1 : w \in Nat
      BY PhysConstants, RangesConstants
    <3> QED
      BY <1>3, <3>1, WordInUse
  <2> QED
    BY <1>3, <2>1, <2>2 DEF HwInv, Opt
<1>6. SlotInv
  <2>1. \A f \in Pages : InSlots(temp, f) = {}
    BY <1>3, NoneFacts DEF InSlots
  <2> QED
    BY <1>3, <2>1, FS_EmptySet DEF SlotInv, Opt
<1>7. /\ \A q \in Procs : dir[q] = IF q = p THEN 0 ELSE None
      /\ \A q \in Procs : \A i \in 1 .. Local : local[q][i] = IF q = p THEN 0 ELSE None
      /\ \A q \in Procs : job[q] = NoJob
  BY <1>2, <1>3, NoneFacts
<1>8. NoJob \in JobType /\ NoJob.pc = "idle"
  BY NoJobTyped
<1>9. \A q \in Procs : ~ Cloning(q) /\ ~ Copying(q) /\ ~ UsesA(q) /\ ~ UsesB(q)
  BY <1>7, <1>8 DEF Cloning, Copying, UsesA, UsesB
<1>10. JobInv
  <2>1. dir \in [Procs -> Opt(Pages)]
    BY <1>2, NoneFacts DEF Opt
  <2>2. local \in [Procs -> [1 .. Local -> Opt(Pages)]]
    BY <1>3, NoneFacts DEF Opt
  <2>3. job \in [Procs -> JobType]
    BY <1>3, <1>8
  <2>4. \A q \in Procs : JobOK(q)
    BY <1>7, <1>8, <1>9 DEF JobOK
  <2> QED
    BY <1>9, <2>1, <2>2, <2>3, <2>4 DEF JobInv, Uses
<1>11. Dirs = {}
  BY <1>7, <1>9, NoneFacts DEF Dirs
<1>12. 0 \in bits
  BY <1>1, ConstantsFacts
<1>13. DirInv
  BY <1>7, <1>9, <1>11, <1>12, NoneFacts DEF DirInv
<1>14. CountInv
  <2>1. Cardinality(bits) = Reserved
    BY <1>1, FS_Interval, ConstantsFacts
  <2> QED
    BY <1>1, <1>11, <2>1, FS_EmptySet, ConstantsFacts DEF CountInv
<1> QED
  BY <1>4, <1>5, <1>6, <1>10, <1>13, <1>14 DEF RangesInv

LEMMA NextRangesInv == RangesInv /\ [QuietNext]_vars => RangesInv'
<1> SUFFICES ASSUME RangesInv, [QuietNext]_vars PROVE RangesInv'
  OBVIOUS
<1>1. CASE UNCHANGED vars
  <2>1. /\ bits' = bits /\ supers' = supers /\ used' = used /\ given' = given /\ state' = state
        /\ UNCHANGED <<hwVars, tempVars, spaceVars, job>>
    BY <1>1 DEF vars, hwVars, tempVars, spaceVars
  <2> QED
    BY <2>1, BitSame, HwSame, SlotSame, JobSame, SpacesSame, CountSame DEF RangesInv, BitInv
<1>2. CASE Drivers
  BY <1>2, MapHWKeeps, UnmapHWKeeps, AllocDMAKeeps DEF Drivers
<1>3. ASSUME NEW d \in Devices, UndoDMA(d.count) PROVE RangesInv'
  BY <1>3, UndoDMAKeeps
<1>4. CASE OutOfMemory
  BY <1>4, OutOfMemoryKeeps
<1>5. ASSUME NEW p \in Procs, Spaces(p) PROVE RangesInv'
  BY <1>5, CloneKeeps, LocalPageKeeps, DupToKeeps, DupFromKeeps, DupCopyKeeps, ClonedKeeps, RemoveKeeps
     DEF Spaces
<1>6. ASSUME NEW p \in Procs, LoadPage(p) \/ LoadMap(p) \/ LoadRead(p) \/ Waits(p) PROVE RangesInv'
  BY <1>6, LoadPageKeeps, LoadMapKeeps, LoadReadKeeps, WaitsKeeps
<1> QED
  BY <1>1, <1>2, <1>3, <1>4, <1>5, <1>6 DEF QuietNext

(* RangesInv is inductive: pages, words, mappings, slots and directories   *)
(* fit together whatever processes and drivers do, short of the cases that *)
(* QuietSpec leaves out.                                                   *)
THEOREM RangesInvariant == QuietSpec => []RangesInv
BY InitRangesInv, NextRangesInv, PTL DEF QuietSpec

LEMMA RangesInvTyped == RangesInv => TypeOK
<1> SUFFICES ASSUME RangesInv PROVE TypeOK
  OBVIOUS
<1>1. bits \subseteq Pages
  BY DEF RangesInv, BitInv
<1>2. used \in 0 .. Total
  <2>1. Cardinality(bits) \in Nat /\ Cardinality(bits) <= Total /\ Cardinality(Dirs) \in Nat
    BY <1>1, BitsFinite, DirsFinite
  <2> QED
    BY <2>1, ConstantsFacts DEF RangesInv, CountInv
<1>3. PhysTypeOK
  BY <1>2 DEF RangesInv, BitInv, PhysTypeOK
<1>4. job \in [Procs -> [pc : {"idle", "map", "fill", "read", "zero", "local", "dup", "dup2", "copy"},
                         from : Opt(Pages), to : Opt(Pages), a : Opt(Slot), b : Opt(Slot),
                         tries : 0 .. Tries, child : Opt(Procs), dir : Opt(Pages)]]
  BY DEF RangesInv, JobInv, JobType
<1> QED
  BY <1>3, <1>4 DEF RangesInv, HwInv, SlotInv, JobInv, TypeOK

(* No variable of the allocator or of the mappings leaves its type; the    *)
(* count of pages in use neither wraps below 0 nor passes their number.    *)
THEOREM RangesTyped == QuietSpec => []TypeOK
BY RangesInvariant, RangesInvTyped, PTL

LEMMA RangesInvSound == RangesInv => PagesSound
BY DEF RangesInv, BitInv, CountInv, PagesSound

(* No page is granted twice, the two levels of the bitmap agree, and the   *)
(* count never stops an allocation that the bitmaps could serve.           *)
THEOREM PagesAlwaysSound == QuietSpec => []PagesSound
BY RangesInvariant, RangesInvSound, PTL

LEMMA RangesInvKept == RangesInv => MappingsKept
<1> SUFFICES ASSUME RangesInv PROVE MappingsKept
  OBVIOUS
<1>1. ASSUME NEW h \in Holders, NEW i \in 0 .. hw[h].count - 1
      PROVE  table[hw[h].at + i] = hw[h].phys + i
  <2>1. hw[h].count \in 0 .. HW
    BY DEF RangesInv, HwInv
  <2>2. hw[h] # NoMap
    BY <2>1, ConstantsFacts DEF NoMap
  <2>3. /\ hw[h].at \in Nat /\ hw[h].phys \in Nat
        /\ \A v \in Run(hw[h].at, hw[h].count) : table[v] = hw[h].phys + v - hw[h].at
    BY <2>2, ConstantsFacts DEF RangesInv, HwInv, HWPages
  <2>4. hw[h].at + i \in Run(hw[h].at, hw[h].count)
    BY <2>1, <2>3, ConstantsFacts DEF Run
  <2>5. table[hw[h].at + i] = hw[h].phys + (hw[h].at + i) - hw[h].at
    BY <2>3, <2>4
  <2> QED
    BY <2>1, <2>3, <2>5, ConstantsFacts
<1>2. ASSUME NEW p \in Procs
      PROVE  /\ job[p].pc \in {"read", "dup2", "copy"} => temp[job[p].a] = job[p].to
             /\ job[p].pc = "copy" => temp[job[p].b] = job[p].from
             /\ job[p].pc # "zero"
  BY DEF RangesInv, JobInv, JobOK, UsesA, UsesB
<1>3. \A f \in Pages : refs[f] = Cardinality({i \in Slot : temp[i] = f})
  BY DEF RangesInv, SlotInv, InSlots
<1> QED
  BY <1>1, <1>2, <1>3 DEF MappingsKept

(* A mapping leads where it was made to until it is undone, and what is    *)
(* read or copied through a slot goes to the page it is meant for.         *)
THEOREM MappingsAlwaysKept == QuietSpec => []MappingsKept
BY RangesInvariant, RangesInvKept, PTL

(* The search of MM_AllocPhys(), which runs with interrupts off, ends: a   *)
(* word that is not marked as full has a free page.                        *)
THEOREM SearchAlwaysEnds == QuietSpec => [](Open # {} => OpenPages # {})
<1>1. RangesInv => (Open # {} => OpenPages # {})
  BY SearchEnds DEF RangesInv
<1> QED
  BY <1>1, RangesInvariant, PTL
=============================================================================
