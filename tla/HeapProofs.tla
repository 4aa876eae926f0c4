----------------------------- MODULE HeapProofs -----------------------------
(***************************************************************************)
(* Proofs about modules Heap and HeapRealloc, for every size of heap, page *)
(* and request.                                                            *)
(***************************************************************************)
EXTENDS HeapRealloc, WellFoundedInduction, TLAPS

(* The blocks in use.                                                      *)
Used(m, B) == {b \in B : m.head[b].magic = "used"}

(* How m relates to the memory n an operation leaves: the blocks of n are  *)
(* C, those in use are U, and no block that stays in use is retagged.      *)
Becomes(m, B, n, C, U) ==
    /\ n \in Memory
    /\ C \in SUBSET Units
    /\ Tiling(n, C)
    /\ Used(n, C) = U
    /\ \A b \in Used(m, B) \cap U : n.head[b] = m.head[b]

(* An updated function has the type it had.                                *)
LEMMA UpdateType ==
    ASSUME NEW S, NEW T, NEW f \in [S -> T], NEW i, NEW v \in T
    PROVE  [f EXCEPT ![i] = v] \in [S -> T]
    OBVIOUS

-----------------------------------------------------------------------------
(* Taking a free block whole.                                              *)
LEMMA TakeLemma ==
    ASSUME NEW m \in Memory, NEW B \in SUBSET Units, Tiling(m, B),
           NEW b \in B, Free(m, b)
    PROVE  Becomes(m, B, Take(m, b), B, Used(m, B) \cup {b})
<1> DEFINE n == Take(m, b)
<1>1. /\ n.head = [m.head EXCEPT ![b] = [magic |-> "used", size |-> m.head[b].size]]
      /\ n.foot = m.foot
      /\ n.end = m.end
    BY DEF Take, Memory, HeapHead, HeapFoot
<1>2. n \in Memory
  <2>1. n = [head |-> n.head, foot |-> n.foot, end |-> n.end]
    <3>1. m = [head |-> m.head, foot |-> m.foot, end |-> m.end]
        BY DEF Memory
    <3> QED
        BY <3>1 DEF Take
  <2>2. n.head \in [Units -> HeapHead]
      BY <1>1 DEF Memory, HeapHead, HeapFoot, Magic
  <2> QED
      BY <1>1, <2>1, <2>2 DEF Memory, HeapHead, HeapFoot
<1>3. \A x \in B : n.head[x].size = m.head[x].size
    BY <1>1 DEF Memory, HeapHead, HeapFoot
<1>4. \A x \in B : n.head[x].magic = IF x = b THEN "used" ELSE m.head[x].magic
    BY <1>1 DEF Memory, HeapHead, HeapFoot
<1> HIDE DEF n
<1>5. Tiling(n, B)
  <2>1. \A x \in B : LastUnit(n, x) = LastUnit(m, x) /\ n.head[x].magic \in {"used", "free"}
      BY <1>3, <1>4 DEF Tiling, LastUnit
  <2>2. \A u \in Units : n.head[u].magic = "used" => u \in B
      BY <1>1 DEF Tiling, Memory, HeapHead
  <2> QED
      BY ZenonT(30), <1>1, <1>3, <2>1, <2>2 DEF Tiling
<1>6. Used(n, B) = Used(m, B) \cup {b}
    BY <1>4 DEF Used
<1>7. \A x \in Used(m, B) : n.head[x] = m.head[x]
    BY <1>1 DEF Used, Free, Memory, HeapHead, HeapFoot
<1> QED
    BY <1>2, <1>5, <1>6, <1>7 DEF Becomes, n

(* Numbers and places that every proof about tags needs.                   *)
LEMMA Places ==
    ASSUME NEW m \in Memory, NEW B \in SUBSET Units, Tiling(m, B)
    PROVE  /\ m.end \in Nat /\ 0 < m.end /\ m.end =< MaxUnits
           /\ \A b \in B :
                  /\ b \in Nat
                  /\ m.head[b].size \in Nat
                  /\ 0 < m.head[b].size
                  /\ b + m.head[b].size =< m.end
                  /\ LastUnit(m, b) \in Units
                  /\ \A x \in B : x # b => \/ LastUnit(m, x) < b
                                           \/ b + m.head[b].size =< x
<1>1. MaxUnits \in Nat
    BY HeapConstants
<1>2. m.end \in Nat /\ m.end =< MaxUnits /\ \A x \in Units : m.head[x].size \in Nat
  <2>1. m.end \in 0 .. MaxUnits /\ m.head \in [Units -> HeapHead]
      BY DEF Memory, HeapHead, HeapFoot
  <2>2. \A x \in Units : m.head[x] \in HeapHead
      BY <2>1
  <2>3. ASSUME NEW x \in Units PROVE m.head[x].size \in 0 .. MaxUnits
      BY <2>2, <2>3 DEF HeapHead
  <2> QED
      BY <1>1, <2>1, <2>3
<1>3. B \subseteq Nat /\ 0 \in B
    BY <1>1 DEF Units, Tiling
<1>4. 0 < m.end
    BY <1>3 DEF Tiling
<1>5. ASSUME NEW b \in B
      PROVE  /\ m.head[b].size \in Nat
             /\ 0 < m.head[b].size
             /\ b + m.head[b].size =< m.end
  <2>1. b \in Units /\ b \in Nat /\ m.head[b].size \in Nat
      BY <1>2, <1>3, <1>5
  <2>2. m.head[b].size > 0 /\ b + m.head[b].size \in B \cup {m.end}
      BY <1>5 DEF Tiling
  <2>3. \A x \in B : x < m.end
      BY DEF Tiling
  <2>4. b + m.head[b].size =< m.end
      BY <2>1, <2>2, <2>3, <1>2
  <2> QED
      BY <2>1, <2>2, <2>4
<1>6. ASSUME NEW b \in B
      PROVE  LastUnit(m, b) \in Units
    BY <1>1, <1>2, <1>3, <1>5, <1>6 DEF LastUnit, Units
<1>7. ASSUME NEW b \in B, NEW x \in B, x # b
      PROVE  LastUnit(m, x) < b \/ b + m.head[b].size =< x
  <2>1. x \in Nat /\ b \in Nat /\ m.head[x].size \in Nat /\ m.head[b].size \in Nat
      BY <1>3, <1>5, <1>7
  <2>2. CASE x < b
    <3>1. x + m.head[x].size =< b
        BY <2>2, <1>7 DEF Tiling
    <3> QED
        BY <2>1, <3>1 DEF LastUnit
  <2>3. CASE b < x
      BY <2>3, <1>7 DEF Tiling
  <2> QED
      BY <2>1, <2>2, <2>3, <1>7
<1> QED
    BY <1>2, <1>3, <1>4, <1>5, <1>6, <1>7

(* Splitting a free block.                                                 *)
LEMMA SplitLemma ==
    ASSUME NEW m \in Memory, NEW B \in SUBSET Units, Tiling(m, B),
           NEW b \in B, Free(m, b),
           NEW k \in Nat, 0 < k, k < m.head[b].size
    PROVE  Becomes(m, B, Split(m, b, k, m.head[b].size), B \cup {b + k}, Used(m, B) \cup {b})
<1> DEFINE n == Split(m, b, k, m.head[b].size)
           s == m.head[b].size
           C == B \cup {b + k}
<1>0. MaxUnits \in Nat
    BY HeapConstants
<1>p. /\ m.end \in Nat /\ 0 < m.end /\ m.end =< MaxUnits
      /\ \A x \in B : /\ x \in Nat
                      /\ m.head[x].size \in Nat
                      /\ 0 < m.head[x].size
                      /\ x + m.head[x].size =< m.end
                      /\ LastUnit(m, x) \in Units
                      /\ x # b => \/ LastUnit(m, x) < b
                                  \/ b + s =< x
    BY Places
<1>1. /\ m.end \in Nat /\ 0 < m.end /\ m.end =< MaxUnits
      /\ b \in Nat /\ s \in Nat /\ b + s =< m.end /\ k \in Nat
    BY <1>p
<1>2. b + k \in Units /\ b + k - 1 \in Units /\ b + s - 1 \in Units /\ b \in Units /\ b + k # b
    BY <1>0, <1>1 DEF Units
<1>3. /\ n.head = [m.head EXCEPT ![b] = [magic |-> "used", size |-> k],
                                 ![b + k] = [magic |-> "free", size |-> s - k]]
      /\ n.foot = [m.foot EXCEPT ![b + k - 1] = [header |-> b, magic |-> "used"],
                                 ![b + s - 1] = [header |-> b + k, magic |-> "used"]]
      /\ n.end = m.end
      /\ n = [head |-> n.head, foot |-> n.foot, end |-> n.end]
    BY DEF Split, Memory, HeapHead, HeapFoot
<1>4. n \in Memory
  <2>1. n.head \in [Units -> HeapHead]
    <3>1. k \in 0 .. MaxUnits /\ s - k \in 0 .. MaxUnits
        BY <1>0, <1>1
    <3>2. /\ [magic |-> "used", size |-> k] \in HeapHead
          /\ [magic |-> "free", size |-> s - k] \in HeapHead
        BY <3>1 DEF HeapHead, Magic
    <3>3. m.head \in [Units -> HeapHead]
        BY DEF Memory, HeapHead, HeapFoot
    <3> QED
        BY <3>2, <3>3, <1>3
  <2>2. n.foot \in [Units -> HeapFoot]
    <3>1. m.foot \in [Units -> HeapFoot]
        BY DEF Memory, HeapHead, HeapFoot
    <3>2. /\ [header |-> b, magic |-> "used"] \in HeapFoot
          /\ [header |-> b + k, magic |-> "used"] \in HeapFoot
        BY <1>2 DEF HeapFoot, Magic
    <3> QED
        BY <3>1, <3>2, <1>3
  <2>3. n.end \in 0 .. MaxUnits
      BY <1>3 DEF Memory, HeapHead, HeapFoot
  <2> QED
      BY <1>3, <2>1, <2>2, <2>3 DEF Memory, HeapHead, HeapFoot
<1>5. b + k \notin B
  <2>1. \A x \in B : b < x => b + s =< x
      BY DEF Tiling
  <2>2. b < b + k /\ ~ (b + s =< b + k)
      BY <1>1
  <2> QED
      BY <2>1, <2>2
<1>6. /\ n.head[b] = [magic |-> "used", size |-> k]
      /\ n.head[b + k] = [magic |-> "free", size |-> s - k]
      /\ \A x \in B : x # b => n.head[x] = m.head[x]
    BY <1>2, <1>3, <1>5 DEF Memory, HeapHead, HeapFoot
<1>7. /\ n.foot[b + k - 1] = [header |-> b, magic |-> "used"]
      /\ n.foot[b + s - 1] = [header |-> b + k, magic |-> "used"]
      /\ \A u \in Units : u # b + k - 1 /\ u # b + s - 1 => n.foot[u] = m.foot[u]
  <2>1. b + k - 1 # b + s - 1
      BY <1>1
  <2> QED
      BY <1>2, <1>3, <2>1 DEF Memory, HeapHead, HeapFoot
<1> HIDE DEF n
<1>8. ASSUME NEW x \in B, x # b
      PROVE  n.foot[LastUnit(n, x)] = [header |-> x, magic |-> "used"]
  <2>0. x \in Nat /\ m.head[x].size \in Nat /\ 0 < m.head[x].size
      BY <1>8, <1>p
  <2>1. LastUnit(m, x) < b \/ (b + s =< x /\ x =< LastUnit(m, x))
      BY <1>8, <1>p, <2>0 DEF LastUnit
  <2>2. LastUnit(m, x) \in Units /\ LastUnit(n, x) = LastUnit(m, x)
      BY <1>6, <1>8, <1>p DEF LastUnit
  <2>3. LastUnit(m, x) # b + k - 1 /\ LastUnit(m, x) # b + s - 1
      BY <1>1, <2>0, <2>1 DEF LastUnit
  <2> QED
      BY <1>7, <1>8, <2>2, <2>3 DEF Tiling
<1>9. Tiling(n, C)
  <2>1. ASSUME NEW x \in B, x # b
        PROVE  /\ x < n.end
               /\ n.head[x].magic \in {"used", "free"}
               /\ n.head[x].size > 0
               /\ x + n.head[x].size \in C \cup {n.end}
               /\ \A y \in C : x < y => x + n.head[x].size =< y
    <3>1. x < b => x + m.head[x].size =< b
        BY <2>1 DEF Tiling
    <3>2. b < x => b + s =< x
        BY <2>1 DEF Tiling
    <3>3. x \in Nat /\ m.head[x].size \in Nat
        BY <2>1, <1>p
    <3>4. x < b + k => x + m.head[x].size =< b + k
        BY <2>1, <3>1, <3>2, <3>3, <1>1
    <3> QED
        BY <2>1, <3>4, <1>3, <1>6 DEF Tiling
  <2>2. /\ b + n.head[b].size \in C
        /\ \A y \in C : b < y => b + n.head[b].size =< y
    <3>1. n.head[b].size = k
        BY <1>6
    <3>2. \A y \in B : y \in Nat /\ (b < y => b + s =< y)
        BY <1>p DEF Tiling
    <3> QED
        BY <1>1, <3>1, <3>2
  <2>3. /\ b + k + n.head[b + k].size \in C \cup {n.end}
        /\ \A y \in C : b + k < y => b + k + n.head[b + k].size =< y
    <3>1. b + k + n.head[b + k].size = b + s
        BY <1>1, <1>6
    <3>2. \A y \in B : y \in Nat /\ (b < y => b + s =< y)
        BY <1>p DEF Tiling
    <3>3. b + s \in B \cup {m.end}
        BY DEF Tiling
    <3> QED
        BY <1>1, <1>3, <3>1, <3>2, <3>3
  <2>4. ASSUME NEW x \in (C \ {0}) \cup {n.end}
        PROVE  \E y \in C : y + n.head[y].size = x
    <3>1. CASE x = b + k
        BY <3>1, <1>6
    <3>2. CASE x # b + k
      <4>1. PICK y \in B : y + m.head[y].size = x
          BY <2>4, <3>2, <1>3 DEF Tiling
      <4>2. CASE y = b
          BY <4>1, <4>2, <1>1, <1>6
      <4>3. CASE y # b
          BY <4>1, <4>3, <1>6
      <4> QED
          BY <4>2, <4>3
    <3> QED
        BY <3>1, <3>2
  <2>5. b < n.end /\ b + k < n.end /\ n.head[b].size > 0 /\ n.head[b + k].size > 0
      BY <1>1, <1>3, <1>6
  <2>6. /\ n.foot[LastUnit(n, b)] = [header |-> b, magic |-> "used"]
        /\ n.foot[LastUnit(n, b + k)] = [header |-> b + k, magic |-> "used"]
    <3>1. LastUnit(n, b) = b + k - 1 /\ LastUnit(n, b + k) = b + s - 1
        BY <1>1, <1>6 DEF LastUnit
    <3> QED
        BY <3>1, <1>7
  <2>7. 0 \in C /\ n.head[b].magic = "used" /\ n.head[b + k].magic = "free"
      BY <1>6 DEF Tiling
  <2>8. \A x \in C : /\ x < n.end
                     /\ n.head[x].magic \in {"used", "free"}
                     /\ n.head[x].size > 0
                     /\ x + n.head[x].size \in C \cup {n.end}
                     /\ \A y \in C : x < y => x + n.head[x].size =< y
                     /\ n.foot[LastUnit(n, x)] = [header |-> x, magic |-> "used"]
      BY <1>6, <1>8, <2>1, <2>2, <2>3, <2>5, <2>6, <2>7
  <2>9. \A u \in Units : n.head[u].magic = "used" => u \in C
    <3>1. \A u \in Units : u # b /\ u # b + k => n.head[u] = m.head[u]
        BY <1>2, <1>3 DEF Memory, n
    <3> QED
        BY <3>1 DEF Tiling
  <2> QED
      BY <2>4, <2>7, <2>8, <2>9 DEF Tiling
<1>10. Used(n, C) = Used(m, B) \cup {b}
    BY <1>5, <1>6 DEF Used
<1>11. \A x \in Used(m, B) : n.head[x] = m.head[x]
    BY <1>6 DEF Used, Free
<1>12. C \in SUBSET Units
    BY <1>2
<1> QED
    BY <1>4, <1>9, <1>10, <1>11, <1>12 DEF Becomes, n

(* Marking a block free.                                                   *)
LEMMA MarkFreeLemma ==
    ASSUME NEW m \in Memory, NEW B \in SUBSET Units, Tiling(m, B), NEW b \in B
    PROVE  Becomes(m, B, MarkFree(m, b), B, Used(m, B) \ {b})
<1> DEFINE n == MarkFree(m, b)
<1>1. /\ n.head = [m.head EXCEPT ![b] = [magic |-> "free", size |-> m.head[b].size]]
      /\ n.foot = m.foot
      /\ n.end = m.end
    BY DEF MarkFree, Memory, HeapHead, HeapFoot
<1>2. n \in Memory
  <2>1. n = [head |-> n.head, foot |-> n.foot, end |-> n.end]
    <3>1. m = [head |-> m.head, foot |-> m.foot, end |-> m.end]
        BY DEF Memory, HeapHead, HeapFoot
    <3> QED
        BY <3>1 DEF MarkFree
  <2>2. n.head \in [Units -> HeapHead]
      BY <1>1 DEF Memory, HeapHead, HeapFoot, Magic
  <2> QED
      BY <1>1, <2>1, <2>2 DEF Memory, HeapHead, HeapFoot
<1>3. \A x \in B : n.head[x].size = m.head[x].size
    BY <1>1 DEF Memory, HeapHead, HeapFoot
<1>4. \A x \in B : n.head[x].magic = IF x = b THEN "free" ELSE m.head[x].magic
    BY <1>1 DEF Memory, HeapHead, HeapFoot
<1> HIDE DEF n
<1>5. Tiling(n, B)
  <2>1. \A x \in B : LastUnit(n, x) = LastUnit(m, x) /\ n.head[x].magic \in {"used", "free"}
      BY <1>3, <1>4 DEF Tiling, LastUnit
  <2>2. \A u \in Units : n.head[u].magic = "used" => u \in B
      BY <1>1 DEF Tiling, Memory, HeapHead
  <2> QED
      BY <1>1, <1>3, <2>1, <2>2 DEF Tiling
<1>6. Used(n, B) = Used(m, B) \ {b}
    BY <1>4 DEF Used
<1>7. \A x \in Used(m, B) \ {b} : n.head[x] = m.head[x]
    BY <1>1 DEF Used, Memory, HeapHead, HeapFoot
<1> QED
    BY <1>2, <1>5, <1>6, <1>7 DEF Becomes, n

(* A free block taking in the free block behind it.                        *)
LEMMA AbsorbLemma ==
    ASSUME NEW m \in Memory, NEW B \in SUBSET Units, Tiling(m, B),
           NEW b \in B, Free(m, b),
           NEW c \in B, Free(m, c), b + m.head[b].size = c
    PROVE  Becomes(m, B, Absorb(m, b, c), B \ {c}, Used(m, B))
<1> DEFINE n == Absorb(m, b, c)
           s == m.head[b].size
           t == m.head[c].size
           C == B \ {c}
<1>0. MaxUnits \in Nat
    BY HeapConstants
<1>p. /\ m.end \in Nat /\ 0 < m.end /\ m.end =< MaxUnits
      /\ \A x \in B : /\ x \in Nat
                      /\ m.head[x].size \in Nat
                      /\ 0 < m.head[x].size
                      /\ x + m.head[x].size =< m.end
                      /\ LastUnit(m, x) \in Units
                      /\ x # c => \/ LastUnit(m, x) < c
                                  \/ c + t =< x
    BY Places
<1>1. /\ m.end \in Nat /\ 0 < m.end /\ m.end =< MaxUnits
      /\ b \in Nat /\ s \in Nat /\ 0 < s
      /\ c \in Nat /\ t \in Nat /\ 0 < t /\ c + t =< m.end /\ b < c
    BY <1>p
<1>2. b \in Units /\ c \in Units /\ LastUnit(m, c) \in Units
    BY <1>p
<1>3. /\ n.head = [m.head EXCEPT ![b] = [magic |-> "free", size |-> s + t],
                                 ![c] = [magic |-> "none", size |-> t]]
      /\ n.foot = [m.foot EXCEPT ![LastUnit(m, c)] = [header |-> b, magic |-> "used"]]
      /\ n.end = m.end
      /\ n = [head |-> n.head, foot |-> n.foot, end |-> n.end]
  <2>1. m.head \in [Units -> HeapHead]
      BY DEF Memory, HeapHead, HeapFoot
  <2>2. m.foot \in [Units -> HeapFoot]
      BY DEF Memory, HeapHead, HeapFoot
  <2>3. m.foot[LastUnit(m, c)] = [header |-> c, magic |-> "used"]
      BY DEF Tiling
  <2>4. n.foot = [m.foot EXCEPT ![LastUnit(m, c)] = [header |-> b, magic |-> "used"]]
    <3>1. [m.foot[LastUnit(m, c)] EXCEPT !.header = b] = [header |-> b, magic |-> "used"]
        BY <1>2, <2>2, <2>3 DEF HeapFoot, Magic
    <3>2. n.foot = [m.foot EXCEPT ![LastUnit(m, c)] = [m.foot[LastUnit(m, c)] EXCEPT !.header = b]]
        BY <1>2, <2>2 DEF Absorb
    <3> QED
        BY <3>1, <3>2
  <2>5. [m.head[b] EXCEPT !.size = s + t] = [magic |-> "free", size |-> s + t]
      BY <1>2, <2>1 DEF Free, HeapHead
  <2>6. [m.head[c] EXCEPT !.magic = "none"] = [magic |-> "none", size |-> t]
      BY <1>2, <2>1 DEF Free, HeapHead
  <2>7. n.head = [m.head EXCEPT ![b] = [m.head[b] EXCEPT !.size = s + t],
                                ![c] = [m.head[c] EXCEPT !.magic = "none"]]
      BY <1>1, <1>2, <2>1 DEF Absorb
  <2> QED
      BY <2>4, <2>5, <2>6, <2>7 DEF Absorb
<1>4. n \in Memory
  <2>1. /\ [magic |-> "free", size |-> s + t] \in HeapHead
        /\ [magic |-> "none", size |-> t] \in HeapHead
    <3>1. s + t \in 0 .. MaxUnits /\ t \in 0 .. MaxUnits
        BY <1>0, <1>1
    <3> QED
        BY <3>1 DEF HeapHead, Magic
  <2>2. [header |-> b, magic |-> "used"] \in HeapFoot
      BY <1>2 DEF HeapFoot, Magic
  <2>3. /\ n.head \in [Units -> HeapHead]
        /\ n.foot \in [Units -> HeapFoot]
    <3>1. /\ m.head \in [Units -> HeapHead]
          /\ m.foot \in [Units -> HeapFoot]
        BY DEF Memory, HeapHead, HeapFoot
    <3>2. n.head \in [Units -> HeapHead]
        BY <3>1, <1>3, <2>1
    <3>3. n.foot \in [Units -> HeapFoot]
        BY <3>1, <1>3, <2>2, UpdateType
    <3> QED
        BY <3>2, <3>3
  <2>4. n.end \in 0 .. MaxUnits
      BY <1>3 DEF Memory, HeapHead, HeapFoot
  <2> QED
      BY <1>3, <2>3, <2>4 DEF Memory, HeapHead, HeapFoot
<1>5. /\ n.head[b] = [magic |-> "free", size |-> s + t]
      /\ \A x \in C : x # b => n.head[x] = m.head[x]
    BY <1>1, <1>2, <1>3 DEF Memory, HeapHead, HeapFoot
<1>6. /\ n.foot[LastUnit(m, c)] = [header |-> b, magic |-> "used"]
      /\ \A u \in Units : u # LastUnit(m, c) => n.foot[u] = m.foot[u]
    BY <1>2, <1>3 DEF Memory, HeapHead, HeapFoot
<1> HIDE DEF n
<1>7. ASSUME NEW x \in C, x # b
      PROVE  n.foot[LastUnit(n, x)] = [header |-> x, magic |-> "used"]
  <2>1. x \in Nat /\ m.head[x].size \in Nat /\ 0 < m.head[x].size
      BY <1>p, <1>7
  <2>2. LastUnit(m, x) < c \/ c + t =< x
      BY <1>p, <1>7
  <2>3. LastUnit(m, x) # LastUnit(m, c)
      BY <1>1, <2>1, <2>2 DEF LastUnit
  <2>4. LastUnit(n, x) = LastUnit(m, x) /\ LastUnit(m, x) \in Units
      BY <1>5, <1>7, <1>p DEF LastUnit
  <2> QED
      BY <1>6, <1>7, <2>3, <2>4 DEF Tiling
<1>8. Tiling(n, C)
  <2>1. ASSUME NEW x \in C, x # b
        PROVE  /\ x < n.end
               /\ n.head[x].magic \in {"used", "free"}
               /\ n.head[x].size > 0
               /\ x + n.head[x].size \in C \cup {n.end}
               /\ \A y \in C : x < y => x + n.head[x].size =< y
    <3>1. x \in Nat /\ m.head[x].size \in Nat /\ (x < b => x + m.head[x].size =< b)
        BY <2>1, <1>p DEF Tiling
    <3>2. x + m.head[x].size # c
      <4>1. b < x => c =< x
          BY <2>1 DEF Tiling
      <4>2. 0 < m.head[x].size
          BY <2>1, <1>p
      <4> QED
          BY <1>1, <2>1, <3>1, <4>1, <4>2
    <3> QED
        BY <1>3, <1>5, <2>1, <3>2 DEF Tiling
  <2>2. /\ b < n.end
        /\ n.head[b].magic \in {"used", "free"}
        /\ n.head[b].size > 0
        /\ b + n.head[b].size \in C \cup {n.end}
        /\ \A y \in C : b < y => b + n.head[b].size =< y
        /\ n.foot[LastUnit(n, b)] = [header |-> b, magic |-> "used"]
    <3>1. n.head[b].size = s + t /\ n.head[b].magic = "free"
        BY <1>5
    <3>2. b + n.head[b].size = c + t
        BY <1>1, <3>1
    <3>3. LastUnit(n, b) = LastUnit(m, c)
        BY <1>1, <3>1, <3>2 DEF LastUnit
    <3>4. c + t \in B \cup {m.end} /\ c + t # c
      <4>1. c + m.head[c].size \in B \cup {m.end}
          BY DEF Tiling
      <4> QED
          BY <1>1, <4>1
    <3>5. \A y \in C : y \in Nat /\ (b < y => c =< y) /\ (c < y => c + t =< y)
        BY <1>p DEF Tiling
    <3>6. \A y \in C : b < y => c + t =< y
        BY <1>1, <3>5
    <3>7. b < n.end /\ n.head[b].size > 0 /\ b + n.head[b].size \in C \cup {n.end}
        BY <1>1, <1>3, <3>1, <3>2, <3>4
    <3>8. n.foot[LastUnit(n, b)] = [header |-> b, magic |-> "used"]
        BY <1>6, <3>3
    <3>9. \A y \in C : b < y => b + n.head[b].size =< y
        BY <3>2, <3>6
    <3> QED
        BY <3>1, <3>7, <3>8, <3>9
  <2>3. ASSUME NEW x \in (C \ {0}) \cup {n.end}
        PROVE  \E y \in C : y + n.head[y].size = x
    <3>1. PICK y \in B : y + m.head[y].size = x
        BY <2>3, <1>3 DEF Tiling
    <3>2. CASE y = c
      <4>1. b + n.head[b].size = x
          BY <1>1, <1>5, <3>1, <3>2
      <4> QED
          BY <1>1, <4>1
    <3>3. CASE y = b
        BY <2>3, <3>1, <3>3, <1>1, <1>3
    <3>4. CASE y # b /\ y # c
        BY <3>1, <3>4, <1>5
    <3> QED
        BY <3>2, <3>3, <3>4
  <2>4. 0 \in C
      BY <1>1 DEF Tiling
  <2>5. \A u \in Units : n.head[u].magic = "used" => u \in C
    <3>1. n.head[c].magic = "none" /\ \A u \in Units : u # b /\ u # c => n.head[u] = m.head[u]
        BY <1>1, <1>2, <1>3 DEF Memory, n
    <3> QED
        BY <3>1 DEF Tiling
  <2> QED
      BY <1>7, <2>1, <2>2, <2>3, <2>4, <2>5 DEF Tiling
<1>9. Used(n, C) = Used(m, B)
    BY <1>5 DEF Used, Free
<1>10. \A x \in Used(m, B) : n.head[x] = m.head[x]
    BY <1>5 DEF Used, Free
<1> QED
    BY <1>4, <1>8, <1>9, <1>10 DEF Becomes, n

(* Extending the heap.                                                     *)
LEMMA ExtendLemma ==
    ASSUME NEW m \in Memory, NEW B \in SUBSET Units, Tiling(m, B),
           NEW k \in Nat, 0 < k, m.end + k =< MaxUnits
    PROVE  /\ ExtendedBlock(m) \in B \cup {m.end}
           /\ Becomes(m, B, ExtendHeap(m, k), B \cup {ExtendedBlock(m)}, Used(m, B))
           /\ Free(ExtendHeap(m, k), ExtendedBlock(m))
           /\ k =< ExtendHeap(m, k).head[ExtendedBlock(m)].size
<1> DEFINE n == ExtendHeap(m, k)
           e == ExtendedBlock(m)
           C == B \cup {e}
<1>0. MaxUnits \in Nat
    BY HeapConstants
<1>p. /\ m.end \in Nat /\ 0 < m.end /\ m.end =< MaxUnits
      /\ \A x \in B : /\ x \in Nat
                      /\ m.head[x].size \in Nat
                      /\ 0 < m.head[x].size
                      /\ x + m.head[x].size =< m.end
                      /\ LastUnit(m, x) \in Units
    BY Places
<1>1. /\ m.head \in [Units -> HeapHead]
      /\ m.foot \in [Units -> HeapFoot]
    BY DEF Memory, HeapHead, HeapFoot
<1>2. m.end \in Units /\ m.end + k - 1 \in Units /\ m.end \notin B
    BY <1>0, <1>p DEF Units, Tiling
<1>3. PICK p \in B : p + m.head[p].size = m.end
    BY DEF Tiling
<1>4. LastUnit(m, p) = m.end - 1 /\ m.foot[m.end - 1] = [header |-> p, magic |-> "used"]
  <2>1. m.foot[LastUnit(m, p)] = [header |-> p, magic |-> "used"]
      BY DEF Tiling
  <2> QED
      BY <1>p, <1>3, <2>1 DEF LastUnit
<1>5. \/ Free(m, p) /\ e = p
      \/ ~ Free(m, p) /\ e = m.end
    BY <1>p, <1>4 DEF ExtendedBlock, TailIsFree
<1>6. e \in C /\ e \in Units /\ e \in B \cup {m.end} /\ C \in SUBSET Units
    BY <1>2, <1>5
<1> DEFINE g == m.end + k - e
<1>7. /\ g \in Nat /\ k =< g /\ e + g = m.end + k /\ e \in Nat
      /\ g = IF e = m.end THEN k ELSE m.head[e].size + k
    BY <1>p, <1>2, <1>3, <1>5
<1>8. /\ n.head = [m.head EXCEPT ![m.end] = [magic |-> "free", size |-> k],
                                 ![e]     = [magic |-> "free", size |-> g]]
      /\ n.foot = [m.foot EXCEPT ![m.end + k - 1] = [header |-> e, magic |-> "used"]]
      /\ n.end = m.end + k
      /\ n = [head |-> n.head, foot |-> n.foot, end |-> n.end]
    BY <1>7 DEF ExtendHeap
<1> HIDE DEF n, g, e
<1>9. n \in Memory
  <2>1. k \in 0 .. MaxUnits /\ g \in 0 .. MaxUnits /\ m.end + k \in 0 .. MaxUnits
      BY <1>0, <1>p, <1>7
  <2>2. /\ [magic |-> "free", size |-> k] \in HeapHead
        /\ [magic |-> "free", size |-> g] \in HeapHead
      BY <2>1 DEF HeapHead, Magic
  <2>3. [header |-> e, magic |-> "used"] \in HeapFoot
      BY <1>6 DEF HeapFoot, Magic
  <2>4. n.head \in [Units -> HeapHead]
    <3>1. [m.head EXCEPT ![m.end] = [magic |-> "free", size |-> k]]
              \in [Units -> HeapHead]
        BY <1>1, <2>2, UpdateType
    <3> QED
        BY <1>8, <2>2, <3>1, UpdateType
  <2>5. n.foot \in [Units -> HeapFoot]
      BY <1>1, <1>8, <2>3, UpdateType
  <2> QED
      BY <1>8, <2>1, <2>4, <2>5 DEF Memory, HeapHead, HeapFoot
<1>10. /\ n.head[e] = [magic |-> "free", size |-> g]
       /\ \A x \in B : x # e => n.head[x] = m.head[x]
    BY <1>1, <1>2, <1>6, <1>8
<1>11. /\ n.foot[m.end + k - 1] = [header |-> e, magic |-> "used"]
       /\ \A u \in Units : u # m.end + k - 1 => n.foot[u] = m.foot[u]
    BY <1>1, <1>2, <1>8
<1>12. ASSUME NEW x \in B, x # e
       PROVE  /\ x < n.end
              /\ n.head[x].magic \in {"used", "free"}
              /\ n.head[x].size > 0
              /\ x + n.head[x].size \in C \cup {n.end}
              /\ \A y \in C : x < y => x + n.head[x].size =< y
              /\ n.foot[LastUnit(n, x)] = [header |-> x, magic |-> "used"]
  <2>1. /\ x \in Nat /\ m.head[x].size \in Nat /\ x < m.end
        /\ x + m.head[x].size =< m.end
        /\ LastUnit(m, x) < m.end + k - 1
        /\ LastUnit(m, x) \in Units
        /\ LastUnit(n, x) = LastUnit(m, x)
      BY <1>p, <1>10, <1>12 DEF LastUnit, Tiling
  <2>2. n.foot[LastUnit(n, x)] = [header |-> x, magic |-> "used"]
    <3>1. m.foot[LastUnit(m, x)] = [header |-> x, magic |-> "used"]
        BY <1>12 DEF Tiling
    <3>2. LastUnit(m, x) # m.end + k - 1
        BY <2>1, <1>p DEF LastUnit
    <3> QED
        BY <2>1, <1>11, <3>1, <3>2
  <2>3. x + m.head[x].size \in C
    <3>1. x + m.head[x].size \in B \cup {m.end}
        BY <1>12 DEF Tiling
    <3>2. CASE x + m.head[x].size = m.end /\ e = p
      <4>1. x < p => x + m.head[x].size =< p
          BY <1>12 DEF Tiling
      <4>2. p < x => p + m.head[p].size =< x
          BY <1>12 DEF Tiling
      <4>3. p \in Nat /\ p < m.end
          BY <1>p, <1>3 DEF Tiling
      <4> QED
          BY <1>3, <1>12, <2>1, <3>2, <4>1, <4>2, <4>3
    <3> QED
        BY <1>5, <1>6, <3>1, <3>2
  <2>4. \A y \in C : x < y => x + m.head[x].size =< y
    <3>1. \A y \in B : x < y => x + m.head[x].size =< y
        BY <1>12 DEF Tiling
    <3> QED
        BY <1>6, <2>1, <3>1
  <2>5. /\ n.head[x] = m.head[x]
        /\ m.head[x].magic \in {"used", "free"}
        /\ m.head[x].size > 0
        /\ x < n.end
    <3>1. n.head[x] = m.head[x]
        BY <1>10, <1>12
    <3>2. m.head[x].magic \in {"used", "free"} /\ m.head[x].size > 0
        BY <1>12 DEF Tiling
    <3>3. x < n.end
        BY <1>p, <1>8, <2>1
    <3> QED
        BY <3>1, <3>2, <3>3
  <2> QED
      BY <2>2, <2>3, <2>4, <2>5
<1>13. /\ e < n.end
       /\ n.head[e].magic = "free"
       /\ n.head[e].size > 0
       /\ e + n.head[e].size = n.end
       /\ \A y \in C : e < y => e + n.head[e].size =< y
       /\ n.foot[LastUnit(n, e)] = [header |-> e, magic |-> "used"]
  <2>1. n.head[e].size = g /\ LastUnit(n, e) = m.end + k - 1
    <3>1. n.head[e].size = g
        BY <1>10
    <3>2. e + g - 1 = m.end + k - 1
        BY <1>7, <1>p
    <3> QED
        BY <3>1, <3>2 DEF LastUnit
  <2>2. \A y \in C : ~ (e < y)
    <3>1. CASE e = m.end
        BY <1>p, <3>1 DEF Tiling
    <3>2. CASE e = p
      <4>1. \A y \in B : p < y => m.end =< y
          BY <1>3 DEF Tiling
      <4> QED
          BY <1>p, <1>7, <3>2, <4>1 DEF Tiling
    <3> QED
        BY <1>5, <3>1, <3>2
  <2> QED
      BY <1>7, <1>8, <1>10, <1>11, <1>p, <2>1, <2>2
<1>14. ASSUME NEW x \in (C \ {0}) \cup {n.end}
       PROVE  \E y \in C : y + n.head[y].size = x
  <2>1. CASE x = n.end
      BY <1>6, <1>13, <2>1
  <2>2. CASE x \in C \ {0}
    <3>1. x \in (B \ {0}) \cup {m.end}
        BY <1>6, <2>2, <1>p
    <3>2. PICK y \in B : y + m.head[y].size = x
        BY <3>1 DEF Tiling
    <3>3. CASE y = e
      <4>1. e = p
          BY <1>2, <1>5, <3>3
      <4>2. x = m.end
          BY <1>3, <3>2, <3>3, <4>1
      <4>3. x \notin C
          BY <1>2, <4>1, <4>2
      <4> QED
          BY <2>2, <4>3
    <3>4. CASE y # e
        BY <1>10, <3>2, <3>4
    <3> QED
        BY <3>3, <3>4
  <2> QED
      BY <1>14, <2>1, <2>2
<1>15. Tiling(n, C)
  <2>1. 0 \in C
      BY DEF Tiling
  <2>2. \A x \in C : /\ x < n.end
                     /\ n.head[x].magic \in {"used", "free"}
                     /\ n.head[x].size > 0
                     /\ x + n.head[x].size \in C \cup {n.end}
                     /\ \A y \in C : x < y => x + n.head[x].size =< y
                     /\ n.foot[LastUnit(n, x)] = [header |-> x, magic |-> "used"]
    <3>1. ASSUME NEW x \in C, x # e PROVE x \in B
        BY <3>1
    <3> QED
        BY <1>12, <1>13, <3>1
  <2>3. \A u \in Units : n.head[u].magic = "used" => u \in C
    <3>1. n.head[m.end].magic = "free" /\ \A u \in Units : u # e /\ u # m.end => n.head[u] = m.head[u]
        BY <1>1, <1>2, <1>6, <1>8
    <3> QED
        BY <3>1 DEF Tiling
  <2> QED
      BY <1>14, <2>1, <2>2, <2>3 DEF Tiling
<1>16. Used(n, C) = Used(m, B)
    BY <1>2, <1>5, <1>10 DEF Used, Free
<1>17. \A x \in Used(m, B) : n.head[x] = m.head[x]
    BY <1>2, <1>5, <1>10 DEF Used, Free
<1>18. Becomes(m, B, n, C, Used(m, B))
    BY <1>6, <1>9, <1>15, <1>16, <1>17 DEF Becomes
<1> QED
    BY <1>6, <1>7, <1>10, <1>18 DEF n, e, Free

(* Freeing a block: three operations in a row.                             *)
LEMMA BecomesTrans ==
    ASSUME NEW m, NEW B, NEW n, NEW C, NEW U, NEW o, NEW D, NEW V,
           Becomes(m, B, n, C, U), Becomes(n, C, o, D, V), Used(m, B) \cap V \subseteq U
    PROVE  Becomes(m, B, o, D, V)
BY DEF Becomes

(* The footer in front of a block is that of its neighbour.                *)
LEMMA Neighbour ==
    ASSUME NEW m \in Memory, NEW B \in SUBSET Units, Tiling(m, B), NEW b \in B, b # 0
    PROVE  /\ b > 0
           /\ m.foot[b - 1].magic = "used"
           /\ m.foot[b - 1].header \in B
           /\ m.foot[b - 1].header + m.head[m.foot[b - 1].header].size = b
<1>1. PICK p \in B : p + m.head[p].size = b
    BY DEF Tiling
<1>2. b \in Nat /\ p \in Nat /\ m.head[p].size \in Nat
    BY Places
<1>3. LastUnit(m, p) = b - 1
    BY <1>1, <1>2 DEF LastUnit
<1>4. m.foot[LastUnit(m, p)] = [header |-> p, magic |-> "used"]
    BY DEF Tiling
<1>5. m.foot[b - 1].magic = "used" /\ m.foot[b - 1].header = p
    BY <1>3, <1>4
<1> QED
    BY <1>1, <1>2, <1>5

(* Merging does not move the end of the heap.                              *)
LEMMA EndStays ==
    ASSUME NEW m, NEW b
    PROVE  UnifyRight(m, b).end = m.end /\ UnifyLeft(m, b).end = m.end
BY DEF UnifyRight, UnifyLeft, Absorb

LEMMA UnifyRightLemma ==
    ASSUME NEW m \in Memory, NEW B \in SUBSET Units, Tiling(m, B), NEW b \in B, Free(m, b)
    PROVE  \E C : /\ b \in C /\ C \subseteq B
                 /\ Becomes(m, B, UnifyRight(m, b), C, Used(m, B))
                 /\ \A next \in C : next = b + m.head[b].size => ~ Free(m, next)
<1> DEFINE next == b + m.head[b].size
<1>1. next \in B \cup {m.end}
    BY DEF Tiling
<1>2. CASE next < m.end /\ Free(m, next)
  <2>1. m.end \in Nat
      BY Places
  <2>2. next \in B
      BY <1>1, <1>2, <2>1
  <2>3. b \in Nat /\ m.head[b].size \in Nat /\ 0 < m.head[b].size
      BY Places
  <2>4. Becomes(m, B, Absorb(m, b, next), B \ {next}, Used(m, B))
      BY <1>2, <2>2, AbsorbLemma
  <2>5. b \in B \ {next}
      BY <2>3
  <2> QED
      BY <1>2, <2>4, <2>5 DEF UnifyRight
<1>3. CASE ~ (next < m.end /\ Free(m, next))
  <2>1. \A x \in B : x < m.end
      BY DEF Tiling
  <2>2. \A x \in B : x = next => ~ Free(m, x)
      BY <1>3, <2>1
  <2>3. Becomes(m, B, m, B, Used(m, B))
      BY DEF Becomes
  <2> QED
      BY <1>3, <2>2, <2>3 DEF UnifyRight
<1> QED
    BY <1>2, <1>3

LEMMA UnifyLeftLemma ==
    ASSUME NEW m \in Memory, NEW B \in SUBSET Units, Tiling(m, B), NEW b \in B, Free(m, b)
    PROVE  \E C : C \subseteq B /\ Becomes(m, B, UnifyLeft(m, b), C, Used(m, B))
<1> DEFINE prev == m.foot[b - 1].header
<1>1. CASE b > 0 /\ Free(m, prev)
  <2>1. b # 0
      BY <1>1
  <2>2. prev \in B /\ prev + m.head[prev].size = b
      BY <2>1, Neighbour
  <2>3. Becomes(m, B, Absorb(m, prev, b), B \ {b}, Used(m, B))
      BY <1>1, <2>2, AbsorbLemma
  <2> QED
      BY <1>1, <2>3 DEF UnifyLeft
<1>2. CASE ~ (b > 0 /\ Free(m, prev))
    BY <1>2 DEF UnifyLeft, Becomes
<1> QED
    BY <1>1, <1>2

LEMMA DeallocLemma ==
    ASSUME NEW m \in Memory, NEW B \in SUBSET Units, Tiling(m, B), NEW b \in B
    PROVE  /\ ~ FreePanics(m, b)
           /\ DeallocAt(m, b).end = m.end
           /\ \E C : /\ C \subseteq B
                    /\ Becomes(m, B, DeallocAt(m, b), C, Used(m, B) \ {b})
                    /\ \A next \in C : next = b + m.head[b].size => ~ Free(m, next)
<1> DEFINE n == MarkFree(m, b)
           o == UnifyRight(n, b)
           U == Used(m, B) \ {b}
<1>1. ~ FreePanics(m, b)
  <2>1. b \in Nat
      BY Places
  <2> QED
      BY <2>1, Neighbour DEF FreePanics
<1>2. Becomes(m, B, n, B, U)
    BY MarkFreeLemma
<1>3. n \in Memory /\ Tiling(n, B) /\ Used(n, B) = U
    BY <1>2 DEF Becomes
<1>4. Free(n, b)
    BY <1>3 DEF Tiling, Used, Free
<1>11. /\ n.end = m.end /\ n.head[b].size = m.head[b].size
       /\ \A x \in B : x # b => n.head[x] = m.head[x]
       /\ b # b + m.head[b].size
  <2>1. b \in Nat /\ m.head[b].size \in Nat /\ 0 < m.head[b].size /\ b \in Units
      BY Places
  <2>2. m.head \in [Units -> HeapHead]
      BY DEF Memory
  <2>3. /\ n.end = m.end
        /\ n.head = [m.head EXCEPT ![b] = [m.head[b] EXCEPT !.magic = "free"]]
      BY DEF MarkFree, Memory
  <2>4. n.head[b].size = m.head[b].size
      BY <2>1, <2>2, <2>3 DEF HeapHead
  <2>5. \A x \in B : x # b => n.head[x] = m.head[x]
      BY <2>1, <2>2, <2>3
  <2> QED
      BY <2>1, <2>3, <2>4, <2>5
<1> HIDE DEF n
<1>14. n \in Memory /\ Tiling(n, B) /\ Free(n, b)
    BY <1>3, <1>4
<1> HIDE DEF o, U
<1>15. \E C : /\ b \in C /\ C \subseteq B
              /\ Becomes(n, B, UnifyRight(n, b), C, Used(n, B))
              /\ \A x \in C : x = b + n.head[b].size => ~ Free(n, x)
    BY <1>14, UnifyRightLemma
<1> USE DEF o, U
<1>5. PICK C : /\ b \in C /\ C \subseteq B /\ Becomes(n, B, o, C, U)
               /\ \A x \in C : x = b + n.head[b].size => ~ Free(n, x)
    BY <1>3, <1>15
<1>12. \A x \in C : x = b + m.head[b].size => ~ Free(m, x)
    BY <1>5, <1>11 DEF Free
<1>6. o \in Memory /\ C \in SUBSET Units /\ Tiling(o, C) /\ Used(o, C) = U
    BY <1>5 DEF Becomes
<1>7. Free(o, b)
    BY <1>5, <1>6 DEF Tiling, Used, Free
<1> HIDE DEF o
<1>8. PICK D : D \subseteq C /\ Becomes(o, C, UnifyLeft(o, b), D, U)
    BY <1>5, <1>6, <1>7, UnifyLeftLemma
<1>13. UnifyLeft(o, b).end = m.end
    BY <1>11, EndStays DEF o
<1>9. Becomes(m, B, o, C, U)
    BY <1>2, <1>5, BecomesTrans
<1>10. Becomes(m, B, UnifyLeft(o, b), D, U)
    BY <1>8, <1>9, BecomesTrans
<1> QED
    BY <1>1, <1>5, <1>8, <1>10, <1>12, <1>13 DEF n, o, DeallocAt

-----------------------------------------------------------------------------
(* The heap used by one thread of control.                                 *)
SingleCaller == \A c, d \in Callers : c = d

(* The inductive invariant: WellFormed alone does not say that the locals  *)
(* of AllocAt() stay in range, TypeOK alone not where they point.          *)
IInv == TypeOK /\ WellFormed /\ NeverTrashed

Good(B) == Tiling(mem, B) /\ LiveAreUsed(mem, B) /\ WalkersOnBlocks(mem, B)

LEMMA Constants ==
    /\ MaxUnits \in Nat /\ PageUnits \in Nat /\ MaxRequest \in Nat
    /\ 0 < MaxUnits /\ 0 < PageUnits /\ 0 < MaxRequest /\ PageUnits =< MaxUnits
    /\ 0 \in Units
BY HeapConstants DEF Units

(* The numbers a caller of malloc() keeps.                                 *)
LEMMA NeedIsNat ==
    ASSUME TypeOK, NEW c \in Callers
    PROVE  call[c].need \in Nat /\ call[c].close \in Nat
<1>1. call[c] \in Call
    BY DEF TypeOK
<1>2. call[c].need \in 0 .. MaxRequest /\ call[c].close \in 0 .. MaxUnits
    BY <1>1 DEF Call
<1> QED
    BY <1>2, Constants

(* The pages of the heap are numbered by naturals.                         *)
LEMMA PagesAreNat ==
    ASSUME NEW e \in Nat, NEW k \in Nat
    PROVE  PagesAdded(e, k) \subseteq Nat
<1>1. PageOf(e) \in Int /\ PageOf(e) >= 0
    BY Constants DEF PageOf
<1> QED
    BY <1>1 DEF PagesAdded

(* The state after a malloc() returns block b.                             *)
LEMMA ReturnLemma ==
    ASSUME TypeOK, NeverTrashed, SingleCaller,
           NEW B \in SUBSET Units, Good(B),
           NEW c \in Callers, Walking(c),
           NEW C \in SUBSET Units, NEW b \in C,
           Becomes(mem, B, mem', C, Used(mem, B) \cup {b}),
           b \notin Used(mem, B),
           call[c].need =< mem'.head[b].size,
           mapped' \subseteq Nat,
           Return(c, b)
    PROVE  IInv'
<1>1. call[c].need \in 0 .. MaxRequest /\ call[c].need > 0 /\ b \in Units
    BY Constants DEF Good, WalkersOnBlocks, Walking, TypeOK, Call
<1>2. live' = [live EXCEPT ![b] = call[c].need] /\ call' = [call EXCEPT ![c] = Idle]
      /\ panic' = panic
    BY DEF Return
<1>3. TypeOK'
  <2>1. mem' \in Memory
      BY DEF Becomes
  <2>2. live' \in [Units -> 0 .. MaxRequest]
      BY <1>1, <1>2 DEF TypeOK
  <2>3. Idle \in Call
      BY Constants DEF Idle, Call
  <2>4. call' \in [Callers -> Call]
      BY <1>2, <2>3, UpdateType DEF TypeOK
  <2> QED
      BY <1>2, <2>1, <2>2, <2>4 DEF TypeOK
<1>4. Tiling(mem', C) /\ Used(mem', C) = Used(mem, B) \cup {b}
      /\ \A x \in Used(mem, B) : mem'.head[x] = mem.head[x]
    BY DEF Becomes
<1>5. LiveAreUsed(mem, C)'
  <2>1. ASSUME NEW x \in C, mem'.head[x].magic = "used"
        PROVE  live'[x] # 0
    <3>1. x \in Used(mem, B) \cup {b}
        BY <1>4, <2>1 DEF Used
    <3>2. x \in Units
        BY <2>1
    <3>3. live'[x] = IF x = b THEN call[c].need ELSE live[x]
        BY <1>2, <3>2 DEF TypeOK
    <3>4. x # b => live[x] # 0
        BY <3>1 DEF Good, LiveAreUsed, Used
    <3> QED
        BY <1>1, <3>3, <3>4
  <2>2. ASSUME NEW x \in Units, live'[x] # 0
        PROVE  x \in C /\ mem'.head[x].magic = "used" /\ live'[x] =< mem'.head[x].size
    <3>1. CASE x = b
      <4>1. b \in Used(mem', C)
          BY <1>4
      <4> QED
          BY <1>1, <1>2, <3>1, <4>1 DEF Used, TypeOK
    <3>2. CASE x # b
      <4>1. live'[x] = live[x]
          BY <1>2, <2>2, <3>2 DEF TypeOK
      <4>2. x \in Used(mem, B) /\ live[x] =< mem.head[x].size
          BY <2>2, <4>1 DEF Good, LiveAreUsed, Used
      <4>3. x \in Used(mem', C)
          BY <1>4, <4>2
      <4> QED
          BY <1>4, <4>1, <4>2, <4>3 DEF Used
    <3> QED
        BY <3>1, <3>2
  <2> QED
      BY <2>1, <2>2 DEF LiveAreUsed
<1>6. WalkersOnBlocks(mem, C)'
  <2>1. \A d \in Callers : call'[d].pc = "idle"
      BY <1>2 DEF SingleCaller, TypeOK, Idle
  <2> QED
      BY <2>1 DEF WalkersOnBlocks
<1>7. WellFormed'
    BY <1>4, <1>5, <1>6 DEF WellFormed
<1> QED
    BY <1>2, <1>3, <1>7 DEF IInv, NeverTrashed

(* HeapInit() leaves one free block of a page, which is well formed.      *)
THEOREM InitIInv == Init => IInv
<1> SUFFICES ASSUME Init PROVE IInv
    OBVIOUS
<1> DEFINE P == PageUnits
<1>1. P \in Nat /\ 0 < P /\ P =< MaxUnits /\ MaxUnits \in Nat /\ 0 \in Units
    BY Constants
<1>2. /\ mem.head = [[u \in Units |-> [magic |-> "none", size |-> 0]]
                        EXCEPT ![0] = [magic |-> "free", size |-> P]]
      /\ mem.foot = [[u \in Units |-> [header |-> 0, magic |-> "none"]]
                        EXCEPT ![P - 1] = [header |-> 0, magic |-> "used"]]
      /\ mem.end = P
      /\ mem = [head |-> mem.head, foot |-> mem.foot, end |-> mem.end]
  <2>1. ExtendedBlock(EmptyMemory) = 0
      BY DEF ExtendedBlock, TailIsFree, EmptyMemory
  <2>2. mem = ExtendHeap(EmptyMemory, P)
      BY DEF Init
  <2>3. EmptyMemory.end = 0 /\ EmptyMemory.foot = [u \in Units |-> [header |-> 0, magic |-> "none"]]
        /\ EmptyMemory.head = [u \in Units |-> [magic |-> "none", size |-> 0]]
      BY DEF EmptyMemory
  <2>4. mem = [head |-> [[u \in Units |-> [magic |-> "none", size |-> 0]]
                        EXCEPT ![0] = [magic |-> "free", size |-> P],
                               ![0] = [magic |-> "free", size |-> P]],
               foot |-> [[u \in Units |-> [header |-> 0, magic |-> "none"]]
                        EXCEPT ![P - 1] = [header |-> 0, magic |-> "used"]],
               end |-> P]
      BY <1>1, <2>1, <2>2, <2>3 DEF ExtendHeap
  <2> QED
      BY <1>1, <2>4
<1>3. mem \in Memory
  <2>1. /\ [magic |-> "none", size |-> 0] \in HeapHead
        /\ [magic |-> "free", size |-> P] \in HeapHead
      BY <1>1 DEF HeapHead, Magic
  <2>2. /\ [header |-> 0, magic |-> "none"] \in HeapFoot
        /\ [header |-> 0, magic |-> "used"] \in HeapFoot
      BY <1>1 DEF HeapFoot, Magic
  <2>3. mem.head \in [Units -> HeapHead]
      BY <1>2, <2>1
  <2>4. mem.foot \in [Units -> HeapFoot]
      BY <1>2, <2>2
  <2>5. mem.end \in 0 .. MaxUnits
      BY <1>1, <1>2
  <2> QED
      BY <1>2, <2>3, <2>4, <2>5 DEF Memory
<1>4. /\ mem.head[0] = [magic |-> "free", size |-> P]
      /\ \A u \in Units : mem.head[u].magic # "used"
      /\ mem.foot[P - 1] = [header |-> 0, magic |-> "used"]
  <2>1. P - 1 \in Units
      BY <1>1 DEF Units
  <2> QED
      BY <1>1, <1>2, <2>1
<1>5. Tiling(mem, {0})
  <2>1. LastUnit(mem, 0) = P - 1 /\ 0 + mem.head[0].size = P /\ mem.end = P
      BY <1>1, <1>2, <1>4 DEF LastUnit
  <2>2. /\ 0 < mem.end /\ mem.head[0].magic = "free" /\ mem.head[0].size > 0
        /\ 0 + mem.head[0].size = mem.end
        /\ mem.foot[LastUnit(mem, 0)] = [header |-> 0, magic |-> "used"]
      BY <1>1, <1>4, <2>1
  <2>3. ({0} \ {0}) \cup {mem.end} = {mem.end}
      OBVIOUS
  <2> HIDE DEF P
  <2> QED
      BY <1>4, <2>2, <2>3 DEF Tiling
<1>6. LiveAreUsed(mem, {0})
    BY <1>4 DEF LiveAreUsed, Init
<1>7. WalkersOnBlocks(mem, {0})
    BY DEF WalkersOnBlocks, Init, Idle
<1>8. WellFormed
    BY <1>1, <1>5, <1>6, <1>7 DEF WellFormed
<1>9. TypeOK
  <2>1. Idle \in Call
      BY Constants DEF Idle, Call
  <2>2. mapped \subseteq Nat
      BY <1>1, PagesAreNat DEF Init
  <2>3. live \in [Units -> 0 .. MaxRequest]
      BY Constants DEF Init
  <2> QED
      BY <1>3, <2>1, <2>2, <2>3 DEF TypeOK, Init
<1> QED
    BY <1>8, <1>9 DEF IInv, NeverTrashed, Init

(* The walk of AllocAt() goes from block to block.                         *)
LEMMA AllocWalkIInv ==
    ASSUME IInv, SingleCaller, NEW c \in Callers, AllocWalk(c)
    PROVE  IInv'
<1> DEFINE u == call[c].cur
           h == mem.head[u]
           better == /\ h.magic = "free"
                     /\ call[c].need < h.size
                     /\ call[c].close = 0 \/ h.size < call[c].close
<1>1. PICK B \in SUBSET Units : Good(B)
    BY DEF IInv, WellFormed, Good
<1>2. /\ call[c].pc = "walk" /\ call[c].need > 0 /\ u \in B \cup {mem.end} /\ u < mem.end
    BY <1>1 DEF AllocWalk, Walking, Good, WalkersOnBlocks
<1>3. call[c] \in Call /\ mem \in Memory /\ call \in [Callers -> Call]
    BY DEF IInv, TypeOK
<1>4. Tiling(mem, B)
    BY <1>1 DEF Good
<1>5. /\ mem.end \in Nat /\ mem.end =< MaxUnits
      /\ \A x \in B : /\ x \in Nat /\ mem.head[x].size \in Nat
                      /\ x + mem.head[x].size =< mem.end
    BY <1>3, <1>4, Places
<1>6. u \in B
    BY <1>2, <1>5
<1>7. Sane(mem, u)
  <2>1. mem.head[u].magic \in {"used", "free"}
      BY <1>4, <1>6 DEF Tiling
  <2>2. mem.foot[LastUnit(mem, u)] = [header |-> u, magic |-> "used"]
      BY <1>4, <1>6 DEF Tiling
  <2> QED
      BY <2>1, <2>2 DEF Sane
<1> DEFINE close == IF better THEN h.size ELSE call[c].close
           best == IF better THEN u ELSE call[c].best
<1>8. UNCHANGED <<mem, mapped, live, panic>>
    BY <1>7 DEF AllocWalk
<1>9. call' = [call EXCEPT ![c] = [pc |-> "walk", need |-> call[c].need, cur |-> u + h.size,
                                   close |-> close, best |-> best]]
    BY <1>3, <1>7 DEF AllocWalk, NextBlock
<1>10. u + h.size \in B \cup {mem.end}
    BY <1>4, <1>6 DEF Tiling
<1>11. call' \in [Callers -> Call]
  <2>1. u + h.size \in 0 .. MaxUnits /\ close \in 0 .. MaxUnits /\ best \in Units
    <3>1. h.size \in 0 .. MaxUnits
        BY <1>3, <1>6 DEF Memory, HeapHead
    <3>2. u + h.size \in 0 .. MaxUnits
        BY <1>5, <1>6, Constants
    <3> QED
        BY <1>3, <1>6, <3>1, <3>2 DEF Call
  <2>2. [pc |-> "walk", need |-> call[c].need, cur |-> u + h.size,
         close |-> close, best |-> best] \in Call
      BY <1>3, <2>1 DEF Call
  <2> QED
      BY <1>3, <1>9, <2>2, UpdateType
<1>12. TypeOK'
    BY <1>8, <1>11 DEF IInv, TypeOK
<1>13. WalkersOnBlocks(mem, B)'
  <2>1. call'[c] = [pc |-> "walk", need |-> call[c].need, cur |-> u + h.size,
                    close |-> close, best |-> best]
      BY <1>3, <1>9
  <2>2. close # 0 => /\ best \in B
                     /\ Free(mem, best)
                     /\ mem.head[best].size = close
                     /\ call[c].need < close
    <3>1. CASE better
        BY <3>1, <1>6 DEF Free
    <3>2. CASE ~ better
        BY <3>2, <1>1, <1>2 DEF Good, WalkersOnBlocks
    <3> QED
        BY <3>1, <3>2
  <2> HIDE DEF close, best, u, h
  <2>3. /\ call'[c].need > 0
        /\ call'[c].cur \in B \cup {mem'.end}
        /\ call'[c].close # 0 =>
               /\ call'[c].best \in B
               /\ Free(mem', call'[c].best)
               /\ mem'.head[call'[c].best].size = call'[c].close
               /\ call'[c].need < call'[c].close
      BY <1>2, <1>8, <1>10, <2>1, <2>2
  <2>4. \A d \in Callers : d = c
      BY DEF SingleCaller
  <2> QED
      BY <2>3, <2>4 DEF WalkersOnBlocks
<1>14. WellFormed'
    BY <1>1, <1>8, <1>13 DEF WellFormed, Good, Tiling, LiveAreUsed, LastUnit
<1> QED
    BY <1>8, <1>12, <1>14 DEF IInv, NeverTrashed

(* malloc() returns to c with a block that was not in use, long enough for *)
(* the request.                                                            *)
Served(c) ==
    \E B, C \in SUBSET Units : \E u \in C :
        /\ Good(B)
        /\ u \in B \cup {mem.end}
        /\ Becomes(mem, B, mem', C, Used(mem, B) \cup {u})
        /\ u \notin Used(mem, B)
        /\ call[c].need =< mem'.head[u].size
        /\ Walking(c) /\ Return(c, u)
        /\ mapped' \subseteq Nat

LEMMA ServedIInv ==
    ASSUME IInv, SingleCaller, NEW c \in Callers, Served(c)
    PROVE  IInv'
    BY ReturnLemma DEF IInv, Served

LEMMA AllocPerfectServes ==
    ASSUME IInv, NEW c \in Callers, AllocPerfect(c)
    PROVE  Served(c)
<1> DEFINE u == call[c].cur
<1>1. PICK B \in SUBSET Units : Good(B)
    BY DEF IInv, WellFormed, Good
<1>2. mem \in Memory /\ Tiling(mem, B)
    BY <1>1 DEF IInv, TypeOK, Good
<1>3. u \in B
  <2>1. u \in B \cup {mem.end} /\ u < mem.end
      BY <1>1 DEF AllocPerfect, PerfectMatch, Walking, Good, WalkersOnBlocks
  <2>2. mem.end \in Nat
      BY <1>2, Places
  <2> QED
      BY <2>1, <2>2
<1>4. Free(mem, u) /\ mem.head[u].size = call[c].need /\ mem' = Take(mem, u)
      /\ Return(c, u) /\ Walking(c) /\ mapped' = mapped
    BY DEF AllocPerfect, PerfectMatch
<1>5. Becomes(mem, B, mem', B, Used(mem, B) \cup {u})
    BY <1>2, <1>3, <1>4, TakeLemma
<1>6. mem'.head[u].size = mem.head[u].size
    BY <1>2, <1>3, <1>4 DEF Take, Memory, HeapHead
<1>7. u \notin Used(mem, B)
    BY <1>4 DEF Used, Free
<1>8. mem.head[u].size \in Nat
    BY <1>2, <1>3, Places
<1>9. call[c].need =< mem'.head[u].size
    BY <1>4, <1>6, <1>8
<1>10. mapped' \subseteq Nat
    BY <1>4 DEF IInv, TypeOK
<1> QED
    BY <1>1, <1>3, <1>4, <1>5, <1>7, <1>9, <1>10 DEF Served

LEMMA AllocWholeServes ==
    ASSUME IInv, NEW c \in Callers, AllocWhole(c)
    PROVE  Served(c)
<1> DEFINE u == call[c].best
<1>1. PICK B \in SUBSET Units : Good(B)
    BY DEF IInv, WellFormed, Good
<1>2. mem \in Memory /\ Tiling(mem, B)
    BY <1>1 DEF IInv, TypeOK, Good
<1>3. /\ u \in B /\ Free(mem, u)
      /\ mem.head[u].size = call[c].close
      /\ call[c].need < call[c].close
    BY <1>1 DEF AllocWhole, BestFit, WalkedAll, Walking, Good, WalkersOnBlocks
<1>5. mem' = Take(mem, u) /\ Return(c, u) /\ Walking(c) /\ mapped' = mapped
    BY <1>3 DEF AllocWhole, HandOut, BestFit, WalkedAll
<1>6. Becomes(mem, B, mem', B, Used(mem, B) \cup {u})
    BY <1>2, <1>3, <1>5, TakeLemma
<1>7. mem'.head[u].size = mem.head[u].size
    BY <1>2, <1>3, <1>5 DEF Take, Memory, HeapHead
<1>8. u \notin Used(mem, B)
    BY <1>3 DEF Used, Free
<1>9. call[c].need =< mem'.head[u].size
  <2>1. call[c].need \in Nat /\ call[c].close \in Nat
      BY NeedIsNat DEF IInv
  <2> QED
      BY <1>3, <1>7, <2>1
<1>10. mapped' \subseteq Nat
    BY <1>5 DEF IInv, TypeOK
<1> QED
    BY <1>1, <1>3, <1>5, <1>6, <1>8, <1>9, <1>10 DEF Served

LEMMA AllocSplitServes ==
    ASSUME IInv, NEW c \in Callers, AllocSplit(c)
    PROVE  Served(c)
<1> DEFINE u == call[c].best
           k == call[c].need
<1>1. PICK B \in SUBSET Units : Good(B)
    BY DEF IInv, WellFormed, Good
<1>2. mem \in Memory /\ Tiling(mem, B)
    BY <1>1 DEF IInv, TypeOK, Good
<1>3. /\ u \in B /\ Free(mem, u) /\ k > 0
      /\ mem.head[u].size = call[c].close
      /\ k < call[c].close
    BY <1>1 DEF AllocSplit, BestFit, WalkedAll, Walking, Good, WalkersOnBlocks
<1>4. mem.foot[u + call[c].close - 1].magic = "used"
  <2>1. mem.foot[LastUnit(mem, u)] = [header |-> u, magic |-> "used"]
      BY <1>2, <1>3 DEF Tiling
  <2> QED
      BY <1>3, <2>1 DEF LastUnit
<1>5. /\ mem' = Split(mem, u, k, mem.head[u].size)
      /\ Return(c, u) /\ Walking(c) /\ mapped' = mapped
    BY <1>3, <1>4 DEF AllocSplit, HandOut, BestFit, WalkedAll
<1>6. k \in Nat /\ 0 < k
    BY <1>3, NeedIsNat DEF IInv
<1>7. Becomes(mem, B, mem', B \cup {u + k}, Used(mem, B) \cup {u})
    BY <1>2, <1>3, <1>5, <1>6, SplitLemma
<1>8. mem'.head[u].size = k
  <2>1. u \in Nat /\ u # u + k
      BY <1>2, <1>3, <1>6, Places
  <2>2. mem.head \in [Units -> HeapHead] /\ u \in Units
      BY <1>2, <1>3 DEF Memory
  <2> QED
      BY <1>5, <2>1, <2>2 DEF Split
<1>9. u \notin Used(mem, B)
    BY <1>3 DEF Used, Free
<1>10. mapped' \subseteq Nat
    BY <1>5 DEF IInv, TypeOK
<1>11. B \cup {u + k} \in SUBSET Units
    BY <1>7 DEF Becomes
<1>12. k =< mem'.head[u].size
    BY <1>6, <1>8
<1> QED
    BY <1>1, <1>3, <1>5, <1>7, <1>9, <1>10, <1>11, <1>12 DEF Served

LEMMA AllocExtendStarts ==
    ASSUME IInv, NEW c \in Callers, AllocExtend(c)
    PROVE  /\ call[c].need \in Nat /\ 0 < call[c].need
           /\ mem.end + call[c].need =< MaxUnits
           /\ Walking(c)
           /\ mapped' \subseteq Nat
<1> DEFINE k == call[c].need
<1>1. PICK B \in SUBSET Units : Good(B)
    BY DEF IInv, WellFormed, Good
<1>2. mem \in Memory /\ Tiling(mem, B)
    BY <1>1 DEF IInv, TypeOK, Good
<1>3. k \in Nat /\ 0 < k
  <2>1. k > 0
      BY <1>1 DEF AllocExtend, WalkedAll, Walking, Good, WalkersOnBlocks
  <2> QED
      BY <2>1, NeedIsNat DEF IInv
<1>4. mem.end + k =< MaxUnits /\ Walking(c) /\ mapped' = mapped \cup PagesAdded(mem.end, k)
    BY DEF AllocExtend, WalkedAll
<1>5. mapped' \subseteq Nat
  <2>1. mem.end \in Nat
      BY <1>2, Places
  <2>2. PagesAdded(mem.end, k) \subseteq Nat
      BY <1>3, <2>1, PagesAreNat
  <2> QED
      BY <1>4, <2>2 DEF IInv, TypeOK
<1> QED
    BY <1>3, <1>4, <1>5

LEMMA AllocExtendServes ==
    ASSUME IInv, NEW c \in Callers, AllocExtend(c), ~ ExtendFaults(mem, mapped, call[c].need)
    PROVE  Served(c)
<1> DEFINE k == call[c].need
           e == ExtendedBlock(mem)
           n == ExtendHeap(mem, k)
<1>1. PICK B \in SUBSET Units : Good(B)
    BY DEF IInv, WellFormed, Good
<1>2. mem \in Memory /\ Tiling(mem, B)
    BY <1>1 DEF IInv, TypeOK, Good
<1>3. /\ k \in Nat /\ 0 < k
      /\ mem.end + k =< MaxUnits /\ Walking(c) /\ mapped' \subseteq Nat
    BY AllocExtendStarts
<1>4. mem' = Take(n, e) /\ Return(c, e)
    BY DEF AllocExtend
<1>5. /\ e \in B \cup {mem.end}
      /\ Becomes(mem, B, n, B \cup {e}, Used(mem, B))
      /\ Free(n, e)
      /\ k =< n.head[e].size
    BY <1>2, <1>3, ExtendLemma
<1> DEFINE C == B \cup {e}
<1>6. n \in Memory /\ C \in SUBSET Units /\ Tiling(n, C) /\ Used(n, C) = Used(mem, B) /\ e \in C
    BY <1>5 DEF Becomes
<1> HIDE DEF n, e, C
<1>7. Becomes(n, C, Take(n, e), C, Used(n, C) \cup {e})
    BY <1>5, <1>6, TakeLemma
<1>8. Becomes(mem, B, mem', C, Used(mem, B) \cup {e})
  <2>1. Becomes(mem, B, n, C, Used(mem, B))
      BY <1>5 DEF C
  <2>2. Becomes(n, C, mem', C, Used(mem, B) \cup {e})
      BY <1>4, <1>6, <1>7
  <2>3. Used(mem, B) \cap (Used(mem, B) \cup {e}) \subseteq Used(mem, B)
      OBVIOUS
  <2> QED
      BY <2>1, <2>2, <2>3, BecomesTrans
<1>9. e \notin Used(mem, B)
  <2>1. e \notin Used(n, C)
      BY <1>5 DEF Used, Free
  <2> QED
      BY <1>6, <2>1
<1>10. mem'.head[e].size = n.head[e].size
    BY <1>4, <1>6 DEF Take, Memory, HeapHead
<1>11. call[c].need =< mem'.head[e].size
    BY <1>5, <1>10
<1> QED
    BY <1>1, <1>3, <1>4, <1>5, <1>6, <1>8, <1>9, <1>11 DEF Served

(* The block the heap grew by has a page without memory behind it.         *)
LEMMA AllocExtendFaults ==
    ASSUME IInv, NEW c \in Callers, AllocExtend(c), ExtendFaults(mem, mapped, call[c].need)
    PROVE  /\ IInv'
           /\ live' = live /\ call' = call /\ mem'.end = mem.end
           /\ \E B \in SUBSET Units : Tiling(mem, B) /\ Tiling(mem', B)
           /\ \A p \in Units : live[p] # 0 => mem'.head[p] = mem.head[p]
<1> DEFINE k == call[c].need
<1>1. PICK B \in SUBSET Units : Good(B)
    BY DEF IInv, WellFormed, Good
<1>2. mem \in Memory /\ Tiling(mem, B)
    BY <1>1 DEF IInv, TypeOK, Good
<1>3. /\ k \in Nat /\ 0 < k
      /\ mem.end + k =< MaxUnits /\ Walking(c) /\ mapped' \subseteq Nat
    BY AllocExtendStarts
<1>4. /\ mem' = [mem EXCEPT !.head[mem.end] = [magic |-> "free", size |-> k]]
      /\ panic' = "page fault" /\ live' = live /\ call' = call
    BY DEF AllocExtend
<1>5. mem.end \in Nat /\ mem.end \in Units /\ k \in 0 .. MaxUnits
  <2>1. mem.end \in Nat
      BY <1>2, Places
  <2> QED
      BY <1>3, <2>1, Constants DEF Units
<1>6. mem.end \notin B
  <2>1. \A b \in B : b < mem.end
      BY <1>2 DEF Tiling
  <2> QED
      BY <1>5, <2>1
<1>7. /\ mem'.head = [mem.head EXCEPT ![mem.end] = [magic |-> "free", size |-> k]]
      /\ mem'.foot = mem.foot /\ mem'.end = mem.end
      /\ mem' = [head |-> mem'.head, foot |-> mem'.foot, end |-> mem'.end]
    BY <1>2, <1>4 DEF Memory
<1>8. mem' \in Memory
  <2>1. [magic |-> "free", size |-> k] \in HeapHead
      BY <1>5 DEF HeapHead, Magic
  <2>2. mem.head \in [Units -> HeapHead] /\ mem.foot \in [Units -> HeapFoot] /\ mem.end \in 0 .. MaxUnits
      BY <1>2 DEF Memory
  <2>3. mem'.head \in [Units -> HeapHead]
      BY <1>7, <2>1, <2>2, UpdateType
  <2> QED
      BY <1>7, <2>2, <2>3 DEF Memory
<1>9. /\ \A b \in Units : b # mem.end => mem'.head[b] = mem.head[b]
      /\ mem'.head[mem.end].magic = "free"
      /\ \A b \in B : mem'.head[b] = mem.head[b]
  <2>1. mem.head \in [Units -> HeapHead]
      BY <1>2 DEF Memory
  <2> QED
      BY <1>5, <1>6, <1>7, <2>1
<1>10. Tiling(mem', B)
  <2>1. \A u \in Units : mem'.head[u].magic = "used" => u \in B
      BY <1>2, <1>9 DEF Tiling
  <2>2. \A b \in B : LastUnit(mem', b) = LastUnit(mem, b)
      BY <1>9 DEF LastUnit
  <2> QED
      BY <1>2, <1>7, <1>9, <2>1, <2>2 DEF Tiling
<1>11. LiveAreUsed(mem, B)'
    BY <1>1, <1>4, <1>9 DEF Good, LiveAreUsed
<1>12. WalkersOnBlocks(mem, B)'
  <2>1. mem'.end = mem.end /\ call' = call /\ \A b \in B : Free(mem', b) <=> Free(mem, b)
      BY <1>4, <1>7, <1>9 DEF Free
  <2> QED
      BY <1>1, <1>9, <2>1 DEF Good, WalkersOnBlocks
<1>13. TypeOK'
    BY <1>3, <1>4, <1>8 DEF IInv, TypeOK
<1>14. \A p \in Units : live[p] # 0 => mem'.head[p] = mem.head[p]
    BY <1>1, <1>9 DEF Good, LiveAreUsed
<1>15. IInv'
    BY <1>4, <1>10, <1>11, <1>12, <1>13, <1>14 DEF IInv, WellFormed, NeverTrashed
<1> QED
    BY <1>2, <1>4, <1>7, <1>10, <1>14, <1>15

(* The state after a block is given back.                                  *)
LEMMA ReleaseLemma ==
    ASSUME IInv, NEW B \in SUBSET Units, Good(B), NEW b \in B, NEW C,
           Becomes(mem, B, mem', C, Used(mem, B) \ {b}),
           live' = [live EXCEPT ![b] = 0]
    PROVE  /\ mem' \in Memory
           /\ live' \in [Units -> 0 .. MaxRequest]
           /\ C \in SUBSET Units
           /\ Tiling(mem', C)
           /\ LiveAreUsed(mem, C)'
<1>1. /\ mem' \in Memory /\ C \in SUBSET Units /\ Tiling(mem', C)
      /\ Used(mem', C) = Used(mem, B) \ {b}
      /\ \A x \in Used(mem, B) \ {b} : mem'.head[x] = mem.head[x]
    BY DEF Becomes
<1>2. live \in [Units -> 0 .. MaxRequest] /\ 0 \in 0 .. MaxRequest
  <2>1. 0 \in 0 .. MaxRequest
      BY Constants
  <2> QED
      BY <2>1 DEF IInv, TypeOK
<1>3. live'[b] = 0 /\ \A x \in Units : x # b => live'[x] = live[x]
    BY <1>2
<1>4. live' \in [Units -> 0 .. MaxRequest]
    BY <1>2, UpdateType
<1>5. LiveAreUsed(mem, C)'
  <2>1. ASSUME NEW x \in C, mem'.head[x].magic = "used"
        PROVE  live'[x] # 0
    <3>1. x \in Used(mem, B) /\ x # b /\ x \in Units
        BY <1>1, <2>1 DEF Used
    <3> QED
        BY <1>3, <3>1 DEF Good, LiveAreUsed, Used
  <2>2. ASSUME NEW x \in Units, live'[x] # 0
        PROVE  x \in C /\ mem'.head[x].magic = "used" /\ live'[x] =< mem'.head[x].size
    <3>1. x # b /\ live'[x] = live[x]
        BY <1>3, <2>2
    <3>2. x \in Used(mem, B) /\ live[x] =< mem.head[x].size
        BY <2>2, <3>1 DEF Good, LiveAreUsed, Used
    <3>3. x \in Used(mem', C) /\ mem'.head[x] = mem.head[x]
        BY <1>1, <3>1, <3>2
    <3> QED
        BY <3>1, <3>2, <3>3 DEF Used
  <2> QED
      BY <2>1, <2>2 DEF LiveAreUsed
<1> QED
    BY <1>1, <1>4, <1>5

(* free() of a live allocation.                                            *)
LEMMA DeallocIInv ==
    ASSUME IInv, SingleCaller, NEW c \in Callers, NEW b \in Units, Dealloc(c, b)
    PROVE  IInv'
<1>1. PICK B \in SUBSET Units : Good(B)
    BY DEF IInv, WellFormed, Good
<1>2. mem \in Memory /\ Tiling(mem, B)
    BY <1>1 DEF IInv, TypeOK, Good
<1>3. b \in B
    BY <1>1 DEF Good, LiveAreUsed, Dealloc
<1>4. ~ FreePanics(mem, b) /\ \E C : Becomes(mem, B, DeallocAt(mem, b), C, Used(mem, B) \ {b})
    BY <1>2, <1>3, DeallocLemma
<1>5. /\ mem' = DeallocAt(mem, b) /\ live' = [live EXCEPT ![b] = 0]
      /\ mapped' = mapped /\ call' = call /\ panic' = panic /\ call[c].pc = "idle"
    BY <1>4 DEF Dealloc
<1>6. PICK C : Becomes(mem, B, mem', C, Used(mem, B) \ {b})
    BY <1>4, <1>5
<1>7. /\ mem' \in Memory /\ live' \in [Units -> 0 .. MaxRequest]
      /\ C \in SUBSET Units /\ Tiling(mem', C) /\ LiveAreUsed(mem, C)'
    BY <1>1, <1>3, <1>5, <1>6, ReleaseLemma
<1>8. TypeOK'
    BY <1>5, <1>7 DEF IInv, TypeOK
<1>9. WalkersOnBlocks(mem, C)'
  <2>1. \A d \in Callers : call'[d].pc = "idle"
      BY <1>5 DEF SingleCaller
  <2> QED
      BY <2>1 DEF WalkersOnBlocks
<1>10. WellFormed'
    BY <1>7, <1>9 DEF WellFormed
<1> QED
    BY <1>5, <1>8, <1>10 DEF IInv, NeverTrashed

(* free() of a pointer that is nobody's: its tag is not that of a block in *)
(* use, because such a block is a live allocation.                         *)
LEMMA FreedIsNotUsed ==
    ASSUME IInv, NEW c \in Callers, NEW b \in Units, DeallocAgain(c, b)
    PROVE  UNCHANGED vars
<1>1. PICK B \in SUBSET Units : Good(B)
    BY DEF IInv, WellFormed, Good
<1>2. mem.head[b].magic # "used"
  <2>1. SUFFICES ASSUME mem.head[b].magic = "used" PROVE FALSE
      OBVIOUS
  <2>2. b \in B
      BY <1>1, <2>1 DEF Good, Tiling
  <2>3. live[b] # 0
      BY <1>1, <2>1, <2>2 DEF Good, LiveAreUsed
  <2> QED
      BY <2>3 DEF DeallocAgain
<1> QED
    BY <1>2 DEF DeallocAgain, Allocated, vars

LEMMA StutterIInv ==
    ASSUME IInv, UNCHANGED vars
    PROVE  IInv'
<1>1. mem' = mem /\ mapped' = mapped /\ live' = live /\ call' = call /\ panic' = panic
    BY DEF vars
<1>2. TypeOK' /\ NeverTrashed'
    BY <1>1 DEF IInv, TypeOK, NeverTrashed
<1>3. PICK B \in SUBSET Units : Good(B)
    BY DEF IInv, WellFormed, Good
<1>4. Tiling(mem', B)
    BY <1>1, <1>3 DEF Good
<1>5. LiveAreUsed(mem, B)'
    BY <1>1, <1>3 DEF Good, LiveAreUsed
<1>6. WalkersOnBlocks(mem, B)'
    BY <1>1, <1>3 DEF Good, WalkersOnBlocks
<1>7. WellFormed'
    BY <1>4, <1>5, <1>6 DEF WellFormed
<1> QED
    BY <1>2, <1>7 DEF IInv

(* malloc() starts its walk at the first block.                            *)
LEMMA AllocBeginIInv ==
    ASSUME IInv, SingleCaller, NEW c \in Callers, NEW n \in 1 .. MaxRequest, AllocBegin(c, n)
    PROVE  IInv'
<1> DEFINE r == [pc |-> "walk", need |-> n, cur |-> 0, close |-> 0, best |-> 0]
<1>1. PICK B \in SUBSET Units : Good(B)
    BY DEF IInv, WellFormed, Good
<1>2. mem' = mem /\ mapped' = mapped /\ live' = live /\ panic' = panic
    BY DEF AllocBegin
<1>3. call' = [call EXCEPT ![c] = r]
    BY DEF AllocBegin, Begun
<1>4. r \in Call
    BY Constants DEF Call
<1>5. call \in [Callers -> Call]
    BY DEF IInv, TypeOK
<1>6. TypeOK'
  <2>1. call' \in [Callers -> Call]
      BY <1>3, <1>4, <1>5, UpdateType
  <2> QED
      BY <1>2, <2>1 DEF IInv, TypeOK
<1>7. WalkersOnBlocks(mem, B)'
  <2>1. call'[c] = r
      BY <1>3, <1>5
  <2>2. 0 \in B
      BY <1>1 DEF Good, Tiling
  <2>3. \A d \in Callers : d = c
      BY DEF SingleCaller
  <2>4. n > 0
      BY Constants
  <2> QED
      BY <2>1, <2>2, <2>3, <2>4 DEF WalkersOnBlocks
<1>8. WellFormed'
    BY <1>1, <1>2, <1>7 DEF WellFormed, Good, Tiling, LiveAreUsed, LastUnit
<1> QED
    BY <1>2, <1>6, <1>8 DEF IInv, NeverTrashed

(* With one caller, every step of malloc() and free() keeps the invariant. *)
THEOREM NextIInv ==
    ASSUME SingleCaller, IInv, [Next]_vars
    PROVE  IInv'
<1>1. ASSUME NEW c \in Callers, NEW n \in 1 .. MaxRequest, AllocBegin(c, n)
      PROVE  IInv'
    BY <1>1, AllocBeginIInv
<1>2. ASSUME NEW c \in Callers, Malloc(c)
      PROVE  IInv'
  <2>1. CASE AllocWalk(c)
      BY <2>1, AllocWalkIInv
  <2>2. CASE AllocPerfect(c)
      BY <2>2, AllocPerfectServes, ServedIInv
  <2>3. CASE AllocExtend(c)
      BY <2>3, AllocExtendServes, AllocExtendFaults, ServedIInv
  <2>4. CASE AllocSplit(c)
      BY <2>4, AllocSplitServes, ServedIInv
  <2>5. CASE AllocWhole(c)
      BY <2>5, AllocWholeServes, ServedIInv
  <2> QED
      BY <1>2, <2>1, <2>2, <2>3, <2>4, <2>5 DEF Malloc
<1>3. ASSUME NEW c \in Callers, NEW b \in Units, Dealloc(c, b)
      PROVE  IInv'
    BY <1>3, DeallocIInv
<1>4. ASSUME NEW c \in Callers, NEW b \in Units, DeallocAgain(c, b)
      PROVE  IInv'
    BY <1>4, FreedIsNotUsed, StutterIInv
<1>5. CASE UNCHANGED vars
    BY <1>5, StutterIInv
<1> QED
    BY <1>1, <1>2, <1>3, <1>4, <1>5 DEF Next

-----------------------------------------------------------------------------
(* Used by one thread of control, the heap keeps its inductive invariant.  *)
THEOREM Invariance ==
    ASSUME SingleCaller
    PROVE  Spec => []IInv
<1>1. Init => IInv
    BY InitIInv
<1>2. IInv /\ [Next]_vars => IInv'
    BY NextIInv
<1> QED
    BY <1>1, <1>2, PTL DEF Spec

(* The variables keep their types.                                         *)
THEOREM TypeCorrect ==
    ASSUME SingleCaller
    PROVE  Spec => []TypeOK
<1>1. IInv => TypeOK
    BY DEF IInv
<1> QED
    BY <1>1, Invariance, PTL

(* malloc() and free() leave a well formed heap, for every heap size, page *)
(* size and sequence of calls.                                             *)
THEOREM HeapIsWellFormed ==
    ASSUME SingleCaller
    PROVE  Spec => []WellFormed
<1>1. IInv => WellFormed
    BY DEF IInv
<1> QED
    BY <1>1, Invariance, PTL

(* No sanity check of AllocAt() or DeallocAt() ever fails.                 *)
THEOREM SanityChecksPass ==
    ASSUME SingleCaller
    PROVE  Spec => []NeverTrashed
<1>1. IInv => NeverTrashed
    BY DEF IInv
<1> QED
    BY <1>1, Invariance, PTL

(* Live allocations are blocks, and blocks do not overlap.                 *)
LEMMA IInvDisjoint == IInv => LiveDisjoint
<1> SUFFICES ASSUME IInv,
                    NEW p \in Units, NEW q \in Units, p # q, live[p] # 0, live[q] # 0
             PROVE  (p .. LastUnit(mem, p)) \cap (q .. LastUnit(mem, q)) = {}
    BY DEF LiveDisjoint
<1>1. PICK B \in SUBSET Units : Good(B)
    BY DEF IInv, WellFormed, Good
<1>2. mem \in Memory /\ Tiling(mem, B) /\ p \in B /\ q \in B
    BY <1>1 DEF IInv, TypeOK, Good, LiveAreUsed
<1>3. /\ p \in Nat /\ q \in Nat /\ mem.head[p].size \in Nat /\ mem.head[q].size \in Nat
      /\ LastUnit(mem, p) < q \/ q + mem.head[q].size =< p
    BY <1>2, Places
<1> QED
    BY <1>3 DEF LastUnit

(* malloc() never hands out memory that somebody still owns.               *)
THEOREM NoOverlap ==
    ASSUME SingleCaller
    PROVE  Spec => []LiveDisjoint
BY IInvDisjoint, Invariance, PTL

(* free() of a pointer that was freed before changes nothing.              *)
THEOREM FreeIsIdempotent ==
    ASSUME SingleCaller
    PROVE  Spec => DoubleFreeIgnored
<1>1. IInv /\ [Next]_vars => [\A c \in Callers, b \in Units : DeallocAgain(c, b) => UNCHANGED mem]_vars
    BY FreedIsNotUsed DEF vars
<1> QED
    BY <1>1, Invariance, PTL DEF Spec, DoubleFreeIgnored

-----------------------------------------------------------------------------
(* What becomes of the allocations of the others                           *)

LEMMA ServedSpares ==
    ASSUME IInv, NEW c \in Callers, Served(c)
    PROVE  \E u \in Units : /\ live[u] = 0 /\ live' = [live EXCEPT ![u] = call[c].need]
                            /\ call[c].need > 0
                            /\ \A p \in Units : live[p] # 0 => mem'.head[p] = mem.head[p]
<1>1. PICK B \in SUBSET Units, C \in SUBSET Units, u \in Units :
          /\ u \in C /\ Good(B) /\ Becomes(mem, B, mem', C, Used(mem, B) \cup {u})
          /\ u \notin Used(mem, B) /\ Walking(c) /\ Return(c, u)
    BY DEF Served
<1>2. \A p \in Units : live[p] # 0 => p \in Used(mem, B)
    BY <1>1 DEF Good, LiveAreUsed, Used
<1>3. \A p \in Used(mem, B) : mem'.head[p] = mem.head[p]
    BY <1>1 DEF Becomes
<1>4. u \in Units /\ live[u] = 0 /\ live' = [live EXCEPT ![u] = call[c].need]
    BY <1>1, <1>2 DEF Return
<1>5. call[c].need > 0
    BY <1>1 DEF Good, WalkersOnBlocks, Walking
<1> QED
    BY <1>2, <1>3, <1>4, <1>5

LEMMA DeallocSpares ==
    ASSUME IInv, NEW c \in Callers, NEW b \in Units, Dealloc(c, b)
    PROVE  /\ live[b] # 0 /\ live' = [live EXCEPT ![b] = 0]
           /\ \A p \in Units : p # b /\ live[p] # 0 => mem'.head[p] = mem.head[p]
<1>1. PICK B \in SUBSET Units : Good(B)
    BY DEF IInv, WellFormed, Good
<1>2. mem \in Memory /\ Tiling(mem, B) /\ b \in B
    BY <1>1 DEF IInv, TypeOK, Good, LiveAreUsed, Dealloc
<1>3. ~ FreePanics(mem, b) /\ \E C : Becomes(mem, B, DeallocAt(mem, b), C, Used(mem, B) \ {b})
    BY <1>2, DeallocLemma
<1>4. /\ mem' = DeallocAt(mem, b) /\ live[b] # 0 /\ live' = [live EXCEPT ![b] = 0]
    BY <1>3 DEF Dealloc
<1>5. \A p \in Used(mem, B) \ {b} : mem'.head[p] = mem.head[p]
  <2>1. PICK C : Becomes(mem, B, mem', C, Used(mem, B) \ {b})
      BY <1>3, <1>4
  <2> QED
      BY <2>1 DEF Becomes
<1>6. \A p \in Units : live[p] # 0 => p \in Used(mem, B)
    BY <1>1 DEF Good, LiveAreUsed, Used
<1> QED
    BY <1>4, <1>5, <1>6

(* A step allocates a block, frees one, or leaves the allocations alone;   *)
(* those it does not free keep their headers.                              *)
LEMMA StepSpares ==
    ASSUME IInv, [Next]_vars
    PROVE  /\ \/ UNCHANGED live
              \/ \E c \in Callers, u \in Units :
                     /\ live[u] = 0 /\ call[c].need > 0
                     /\ live' = [live EXCEPT ![u] = call[c].need]
              \/ \E b \in Units : live[b] # 0 /\ live' = [live EXCEPT ![b] = 0]
           /\ \A p \in Units : live[p] # 0 /\ live'[p] = live[p] => mem'.head[p] = mem.head[p]
<1>1. CASE mem' = mem /\ live' = live
    BY <1>1
<1>2. ASSUME NEW c \in Callers, Served(c)
      PROVE  /\ \E u \in Units : /\ live[u] = 0 /\ call[c].need > 0
                                 /\ live' = [live EXCEPT ![u] = call[c].need]
             /\ \A p \in Units : live[p] # 0 => mem'.head[p] = mem.head[p]
    BY <1>2, ServedSpares
<1>3. ASSUME NEW c \in Callers, NEW b \in Units, Dealloc(c, b)
      PROVE  /\ live[b] # 0 /\ live' = [live EXCEPT ![b] = 0]
             /\ \A p \in Units : live[p] # 0 /\ live'[p] = live[p] => mem'.head[p] = mem.head[p]
  <2>1. live \in [Units -> 0 .. MaxRequest]
      BY DEF IInv, TypeOK
  <2> QED
      BY <1>3, <2>1, DeallocSpares
<1>4. ASSUME NEW c \in Callers, Malloc(c)
      PROVE  \/ mem' = mem /\ live' = live
             \/ Served(c)
             \/ live' = live /\ \A p \in Units : live[p] # 0 => mem'.head[p] = mem.head[p]
  <2>1. CASE AllocWalk(c)
      BY <2>1 DEF AllocWalk, Trashed
  <2>2. CASE AllocExtend(c)
      BY <2>2, AllocExtendServes, AllocExtendFaults
  <2> QED
      BY <1>4, <2>1, <2>2, AllocPerfectServes, AllocSplitServes, AllocWholeServes DEF Malloc
<1>5. ASSUME NEW c \in Callers, NEW n \in 1 .. MaxRequest, AllocBegin(c, n)
      PROVE  mem' = mem /\ live' = live
    BY <1>5 DEF AllocBegin
<1>6. ASSUME NEW c \in Callers, NEW b \in Units, DeallocAgain(c, b)
      PROVE  mem' = mem /\ live' = live
    BY <1>6, FreedIsNotUsed DEF vars
<1>7. CASE UNCHANGED vars
    BY <1>1, <1>7 DEF vars
<1>8. CASE \E c \in Callers, n \in 1 .. MaxRequest : AllocBegin(c, n)
    BY <1>1, <1>5, <1>8
<1>9. CASE \E c \in Callers : Malloc(c)
  <2>1. PICK c \in Callers : Malloc(c)
      BY <1>9
  <2> QED
      BY <1>1, <1>2, <1>4, <2>1
<1>10. CASE \E c \in Callers, b \in Units : Dealloc(c, b)
  <2>1. PICK c \in Callers, b \in Units : Dealloc(c, b)
      BY <1>10
  <2> QED
      BY <1>3, <2>1
<1>11. CASE \E c \in Callers, b \in Units : DeallocAgain(c, b)
    BY <1>1, <1>6, <1>11
<1> QED
    BY <1>7, <1>8, <1>9, <1>10, <1>11 DEF Next

(* An allocation keeps its header until its owner frees it.                *)
THEOREM OwnersAreUndisturbed ==
    ASSUME SingleCaller
    PROVE  Spec => OwnersUndisturbed
<1>1. IInv /\ [Next]_vars =>
          [\A p \in Units : live[p] # 0 /\ live'[p] = live[p] => mem'.head[p] = mem.head[p]]_vars
    BY StepSpares
<1> QED
    BY <1>1, Invariance, PTL DEF Spec, OwnersUndisturbed

-----------------------------------------------------------------------------
(* The heap implements the abstract allocator                              *)

(* A block that was nobody's goes to one owner, and no unit of it belongs  *)
(* to another.                                                             *)
LEMMA AllocateRefines ==
    ASSUME IInv, IInv', NEW u \in Units, NEW n \in Nat, live[u] = 0, n > 0,
           live' = [live EXCEPT ![u] = n]
    PROVE  Promise!Allocate
<1>1. live \in [Units -> 0 .. MaxRequest] /\ live'[u] = n
      /\ \A q \in Units : q # u => live'[q] = live[q]
    BY DEF IInv, TypeOK
<1>2. PICK C \in SUBSET Units :
          /\ Tiling(mem', C)
          /\ \A q \in Units : live'[q] # 0 => q \in C /\ live'[q] =< mem'.head[q].size
    BY DEF IInv, WellFormed, LiveAreUsed
<1>3. mem' \in Memory
    BY DEF IInv, TypeOK
<1>4. u \in C /\ n =< mem'.head[u].size
    BY <1>1, <1>2
<1>5. /\ u \in Nat /\ mem'.head[u].size \in Nat /\ u + mem'.head[u].size =< mem'.end
      /\ mem'.end \in Nat /\ mem'.end =< MaxUnits
    BY <1>2, <1>3, <1>4, Places
<1>6. n \in 1 .. MaxUnits /\ u .. u + n - 1 \subseteq Units
    BY <1>4, <1>5, Constants DEF Units
<1>7. ASSUME NEW q \in Units
      PROVE  (u .. u + n - 1) \cap (q .. q + live[q] - 1) = {}
  <2>1. CASE live[q] = 0
    <3>1. q \in Nat
        BY DEF Units
    <3> QED
        BY <2>1, <3>1
  <2>2. CASE live[q] # 0
    <3>1. q # u /\ live'[q] = live[q]
        BY <1>1, <2>2
    <3>2. q \in C /\ live[q] =< mem'.head[q].size
        BY <1>2, <2>2, <3>1
    <3>3. /\ q \in Nat /\ mem'.head[q].size \in Nat
          /\ u + mem'.head[u].size =< q \/ q + mem'.head[q].size =< u
      <4>1. /\ q \in Nat /\ mem'.head[q].size \in Nat
            /\ LastUnit(mem', q) < u \/ u + mem'.head[u].size =< q
          BY <1>2, <1>3, <1>4, <3>1, <3>2, Places
      <4> QED
          BY <1>5, <4>1 DEF LastUnit
    <3>4. live[q] \in Nat
        BY <1>1, Constants
    <3> QED
        BY <1>4, <1>5, <3>2, <3>3, <3>4
  <2> QED
      BY <2>1, <2>2
<1> QED
    BY <1>6, <1>7 DEF Promise!Allocate, Promise!Units, Promise!Range, Units

LEMMA NextRefines ==
    ASSUME IInv, IInv', [Next]_vars
    PROVE  [Promise!Next]_live
<1>1. CASE UNCHANGED live
    BY <1>1
<1>2. CASE \E c \in Callers, u \in Units :
               /\ live[u] = 0 /\ call[c].need > 0
               /\ live' = [live EXCEPT ![u] = call[c].need]
  <2>1. PICK c \in Callers, u \in Units :
                 /\ live[u] = 0 /\ call[c].need > 0
                 /\ live' = [live EXCEPT ![u] = call[c].need]
      BY <1>2
  <2>2. call[c].need \in Nat
      BY NeedIsNat DEF IInv
  <2>3. PICK n \in Nat : n = call[c].need
      BY <2>2
  <2>4. live' = [live EXCEPT ![u] = n] /\ n > 0 /\ live[u] = 0
      BY <2>1, <2>3
  <2>5. Promise!Allocate
      BY <2>4, AllocateRefines
  <2> QED
      BY <2>5 DEF Promise!Next
<1>3. CASE \E b \in Units : live[b] # 0 /\ live' = [live EXCEPT ![b] = 0]
    BY <1>3 DEF Promise!Next, Promise!Release, Promise!Units, Units
<1> QED
    BY <1>1, <1>2, <1>3, StepSpares

(* Boundary tags, splitting and merging implement a set of allocations no  *)
(* two of which overlap.                                                   *)
THEOREM HeapIsAllocator ==
    ASSUME SingleCaller
    PROVE  Spec => Implements
<1>1. Init => Promise!Init
    BY DEF Init, Promise!Init, Promise!Units, Units
<1>2. IInv /\ IInv' /\ [Next]_vars => [Promise!Next]_live
    BY NextRefines
<1> QED
    BY <1>1, <1>2, Invariance, PTL DEF Spec, Implements, Promise!Spec

-----------------------------------------------------------------------------
(* realloc(): what becomes of the contents (module HeapRealloc)            *)

LessNat == {ss \in Nat \X Nat : ss[1] < ss[2]}

(* A set of numbers that is not empty has a least one.                     *)
LEMMA LeastExists ==
    ASSUME NEW S \in SUBSET Nat, S # {}
    PROVE  \E x \in S : \A y \in S : x =< y
<1>1. IsWellFoundedOn(LessNat, Nat)
    BY NatLessThanWellFounded DEF OpToRel, LessNat
<1>2. \E x \in S : \A y \in S : ~ (<<y, x>> \in LessNat)
    BY <1>1, WFMin, Zenon
<1>3. PICK x \in S : \A y \in S : ~ (<<y, x>> \in LessNat)
    BY <1>2
<1>4. \A y \in S : x =< y
  <2>1. SUFFICES ASSUME NEW y \in S, y < x PROVE FALSE
      OBVIOUS
  <2>2. <<y, x>> \in Nat \X Nat /\ <<y, x>>[1] < <<y, x>>[2]
      BY <2>1
  <2> QED
      BY <1>3, <2>2 DEF LessNat
<1> QED
    BY <1>4

(* The tags leave no choice: two tilings of the same memory are the same.  *)
LEMMA TilingIsUnique ==
    ASSUME NEW m \in Memory, NEW B \in SUBSET Units, NEW C \in SUBSET Units,
           Tiling(m, B), Tiling(m, C)
    PROVE  B = C
<1> DEFINE D == (B \ C) \cup (C \ B)
<1>1. SUFFICES ASSUME D # {} PROVE FALSE
    OBVIOUS
<1>2. D \in SUBSET Nat
    BY Constants DEF Units
<1>3. PICK x \in D : \A y \in D : x =< y
    BY <1>1, <1>2, LeastExists
<1>4. x # 0 /\ x \in Nat
    BY <1>2 DEF Tiling
<1>5. ASSUME NEW E \in SUBSET Units, NEW F \in SUBSET Units, Tiling(m, E), Tiling(m, F),
             x \in E, x \notin F, \A y \in Units : y \in E /\ y \notin F => x =< y
      PROVE  FALSE
  <2>1. PICK y \in E : y + m.head[y].size = x
      BY <1>4, <1>5 DEF Tiling
  <2>2. y \in Nat /\ m.head[y].size \in Nat /\ 0 < m.head[y].size
      BY <1>5, Places
  <2>3. y \in F
      BY <1>4, <1>5, <2>1, <2>2
  <2>4. x \in F \cup {m.end}
      BY <1>5, <2>1, <2>3 DEF Tiling
  <2>5. x < m.end /\ m.end \in Nat
      BY <1>5, Places DEF Tiling
  <2> QED
      BY <1>4, <1>5, <2>4, <2>5
<1>6. \A y \in D : x =< y
    BY <1>3
<1>7. CASE x \in B \ C
    BY <1>5, <1>6, <1>7
<1>8. CASE x \in C \ B
    BY <1>5, <1>6, <1>8
<1> QED
    BY <1>7, <1>8

(* The shrinking branch cuts a used block in two: freeing and splitting in *)
(* one.                                                                    *)
LEMMA CutLemma ==
    ASSUME NEW m \in Memory, NEW B \in SUBSET Units, Tiling(m, B),
           NEW b \in B, m.head[b].magic = "used",
           NEW k \in Nat, 0 < k, k < m.head[b].size
    PROVE  /\ Cut(m, b, k) \in Memory
           /\ Tiling(Cut(m, b, k), B \cup {b + k})
           /\ B \cup {b + k} \in SUBSET Units
           /\ Used(Cut(m, b, k), B \cup {b + k}) = Used(m, B)
           /\ \A x \in Used(m, B) \ {b} : Cut(m, b, k).head[x] = m.head[x]
           /\ Cut(m, b, k).head[b].size = k
           /\ Free(Cut(m, b, k), b + k)
           /\ Cut(m, b, k).end = m.end
<1> DEFINE s == m.head[b].size
           n == MarkFree(m, b)
           o == Split(n, b, k, s)
<1>1. /\ b \in Nat /\ s \in Nat /\ b + s =< m.end /\ b \in Units
      /\ m.end \in Nat /\ m.end =< MaxUnits
    BY Places
<1>2. /\ m.head \in [Units -> HeapHead] /\ m.foot \in [Units -> HeapFoot]
      /\ m = [head |-> m.head, foot |-> m.foot, end |-> m.end]
    BY DEF Memory
<1>3. b + k \in Units /\ b # b + k
    BY <1>1, Constants DEF Units
<1>4. /\ n.end = m.end /\ n.foot = m.foot
      /\ n.head = [m.head EXCEPT ![b] = [magic |-> "free", size |-> s]]
  <2>1. [m.head[b] EXCEPT !.magic = "free"] = [magic |-> "free", size |-> s]
      BY <1>1, <1>2 DEF HeapHead
  <2>2. n.head = [m.head EXCEPT ![b] = [m.head[b] EXCEPT !.magic = "free"]]
      BY <1>2 DEF MarkFree
  <2> QED
      BY <1>2, <2>1, <2>2 DEF MarkFree
<1>5. Becomes(m, B, n, B, Used(m, B) \ {b})
    BY MarkFreeLemma
<1>6. n \in Memory /\ Tiling(n, B) /\ Used(n, B) = Used(m, B) \ {b}
      /\ \A x \in Used(m, B) \ {b} : n.head[x] = m.head[x]
    BY <1>5 DEF Becomes
<1>7. Free(n, b) /\ n.head[b].size = s
    BY <1>1, <1>2, <1>4 DEF Free
<1>8. Cut(m, b, k) = o
  <2>1. [m.head[b] EXCEPT !.size = k] = [magic |-> "used", size |-> k]
      BY <1>1, <1>2 DEF HeapHead
  <2>2. /\ Cut(m, b, k).head = [m.head EXCEPT ![b] = [m.head[b] EXCEPT !.size = k],
                                              ![b + k] = [magic |-> "free", size |-> s - k]]
        /\ Cut(m, b, k).foot = [m.foot EXCEPT ![b + k - 1] = [header |-> b, magic |-> "used"],
                                              ![b + s - 1] = [header |-> b + k, magic |-> "used"]]
        /\ Cut(m, b, k).end = m.end
        /\ Cut(m, b, k) = [head |-> Cut(m, b, k).head, foot |-> Cut(m, b, k).foot,
                           end |-> Cut(m, b, k).end]
    <3> DEFINE m1 == [m EXCEPT !.head[b].size = k]
               m2 == [m1 EXCEPT !.head[b + k] = [magic |-> "free", size |-> s - k]]
               m3 == [m2 EXCEPT !.foot[b + k - 1] = [header |-> b, magic |-> "used"]]
               m4 == [m3 EXCEPT !.foot[b + s - 1] = [header |-> b + k, magic |-> "used"]]
    <3>1. Cut(m, b, k) = m4
        BY DEF Cut
    <3>2. m1 = [head |-> [m.head EXCEPT ![b] = [m.head[b] EXCEPT !.size = k]],
                foot |-> m.foot, end |-> m.end]
        BY <1>2
    <3> HIDE DEF m1
    <3>3. m2 = [head |-> [m1.head EXCEPT ![b + k] = [magic |-> "free", size |-> s - k]],
                foot |-> m1.foot, end |-> m1.end]
        BY <3>2
    <3> HIDE DEF m2
    <3>4. m3 = [head |-> m2.head, end |-> m2.end,
                foot |-> [m2.foot EXCEPT ![b + k - 1] = [header |-> b, magic |-> "used"]]]
        BY <3>3
    <3> HIDE DEF m3
    <3>5. m4 = [head |-> m3.head, end |-> m3.end,
                foot |-> [m3.foot EXCEPT ![b + s - 1] = [header |-> b + k, magic |-> "used"]]]
        BY <3>4
    <3> HIDE DEF m4
    <3>6. Cut(m, b, k).head = [m.head EXCEPT ![b] = [m.head[b] EXCEPT !.size = k],
                                             ![b + k] = [magic |-> "free", size |-> s - k]]
        BY <3>1, <3>2, <3>3, <3>4, <3>5
    <3>7. Cut(m, b, k).foot = [m.foot EXCEPT ![b + k - 1] = [header |-> b, magic |-> "used"],
                                             ![b + s - 1] = [header |-> b + k, magic |-> "used"]]
        BY <3>1, <3>2, <3>3, <3>4, <3>5
    <3>8. Cut(m, b, k).end = m.end
        BY <3>1, <3>2, <3>3, <3>4, <3>5
    <3>9. Cut(m, b, k) = [head |-> Cut(m, b, k).head, foot |-> Cut(m, b, k).foot,
                          end |-> Cut(m, b, k).end]
        BY <3>1, <3>5
    <3> QED
        BY <3>6, <3>7, <3>8, <3>9
  <2>3. /\ o.head = [n.head EXCEPT ![b] = [magic |-> "used", size |-> k],
                                   ![b + k] = [magic |-> "free", size |-> s - k]]
        /\ o.foot = [m.foot EXCEPT ![b + k - 1] = [header |-> b, magic |-> "used"],
                                   ![b + s - 1] = [header |-> b + k, magic |-> "used"]]
        /\ o.end = m.end
        /\ o = [head |-> o.head, foot |-> o.foot, end |-> o.end]
      BY <1>4 DEF Split
  <2>4. o.head = [m.head EXCEPT ![b] = [magic |-> "used", size |-> k],
                                ![b + k] = [magic |-> "free", size |-> s - k]]
      BY <1>1, <1>2, <1>3, <1>4, <2>3
  <2> QED
      BY <2>1, <2>2, <2>3, <2>4
<1> HIDE DEF n
<1>9. Becomes(n, B, o, B \cup {b + k}, Used(n, B) \cup {b})
    BY <1>6, <1>7, SplitLemma
<1>10. /\ o \in Memory /\ B \cup {b + k} \in SUBSET Units /\ Tiling(o, B \cup {b + k})
       /\ Used(o, B \cup {b + k}) = Used(n, B) \cup {b}
       /\ \A x \in Used(n, B) : o.head[x] = n.head[x]
    BY <1>9 DEF Becomes
<1>11. Used(n, B) \cup {b} = Used(m, B)
    BY <1>6 DEF Used
<1>12. \A x \in Used(m, B) \ {b} : o.head[x] = m.head[x]
    BY <1>6, <1>10
<1>13. o.head[b].size = k /\ Free(o, b + k) /\ o.end = m.end
    BY <1>1, <1>2, <1>3, <1>4 DEF Split, Free
<1> HIDE DEF o
<1> QED
    BY <1>8, <1>10, <1>11, <1>12, <1>13

(* The free() in realloc(): whether cut before or not, the old block goes, *)
(* and what it leaves has no boundary inside.                              *)
LEMMA FreedWhole ==
    ASSUME NEW m \in Memory, NEW B \in SUBSET Units, Tiling(m, B),
           NEW b \in B, m.head[b].magic = "used",
           NEW k \in Nat, 0 < k, NEW n,
           n = IF k < m.head[b].size THEN Cut(m, b, k) ELSE m
    PROVE  /\ DeallocAt(n, b).end = m.end
           /\ \E C : C \subseteq B /\ Becomes(m, B, DeallocAt(n, b), C, Used(m, B) \ {b})
<1>1. CASE k < m.head[b].size
  <2> DEFINE D == B \cup {b + k}
  <2>1. /\ n \in Memory /\ D \in SUBSET Units /\ Tiling(n, D) /\ Used(n, D) = Used(m, B)
        /\ \A x \in Used(m, B) \ {b} : n.head[x] = m.head[x]
        /\ n.head[b].size = k /\ Free(n, b + k) /\ n.end = m.end
      BY <1>1, CutLemma
  <2> HIDE DEF D
  <2>2. b \in D
      BY DEF D
  <2>3. /\ DeallocAt(n, b).end = n.end
        /\ \E C : /\ C \subseteq D
                  /\ Becomes(n, D, DeallocAt(n, b), C, Used(n, D) \ {b})
                  /\ \A x \in C : x = b + n.head[b].size => ~ Free(n, x)
    <3>1. n \in Memory /\ D \in SUBSET Units /\ Tiling(n, D)
        BY <2>1
    <3> QED
        BY <3>1, <2>2, DeallocLemma, ZenonT(60)
  <2> DEFINE o == DeallocAt(n, b)
  <2>4. PICK C : /\ C \subseteq D
                 /\ Becomes(n, D, o, C, Used(n, D) \ {b})
                 /\ \A x \in C : x = b + n.head[b].size => ~ Free(n, x)
      BY <2>3
  <2>5. C \subseteq B
      BY <2>1, <2>4 DEF D
  <2> HIDE DEF o
  <2>6. Becomes(m, B, o, C, Used(m, B) \ {b})
    <3>1. /\ o \in Memory /\ C \in SUBSET Units /\ Tiling(o, C)
          /\ Used(o, C) = Used(m, B) \ {b}
          /\ \A x \in Used(m, B) \ {b} : o.head[x] = n.head[x]
        BY <2>1, <2>4 DEF Becomes
    <3>2. \A x \in Used(m, B) \ {b} : o.head[x] = m.head[x]
        BY <2>1, <3>1
    <3> QED
        BY <3>1, <3>2 DEF Becomes
  <2> QED
      BY <2>1, <2>3, <2>5, <2>6 DEF o
<1>2. CASE ~ (k < m.head[b].size)
    BY <1>2, DeallocLemma
<1> QED
    BY <1>1, <1>2

(* The first n units of block p hold what its owner wrote there.           *)
Intact(p, n) == \A i \in 0 .. n - 1 : data[p + i] = i + 1

(* Every allocation is intact, but for the one realloc() still copies to.  *)
AllIntact ==
    \A p \in Units : live[p] # 0 /\ (\A c \in Callers : move[c].pc = "copy" => move[c].new # p) =>
        Intact(p, live[p])

(* What realloc() must keep is still where it was.                         *)
OldKept(c) == move[c].pc # "idle" =>
    /\ move[c].need > 0
    /\ move[c].kept =< move[c].need
    /\ move[c].kept =< move[c].oldSize
    /\ Intact(move[c].old, move[c].kept)

(* Until malloc() returns no block starts inside of it: it will be handed  *)
(* out from its start or a byte before, or not at all.                     *)
Allocating(c) == move[c].pc = "alloc" =>
    /\ call[c].pc = "walk"
    /\ call[c].need = move[c].need
    /\ move[c].old + move[c].oldSize =< mem.end
    /\ \A B \in SUBSET Units : Tiling(mem, B) =>
           \A b \in B : b =< move[c].old \/ b >= move[c].old + move[c].oldSize

(* Where it is copied to is the same place, or behind it.                  *)
Copying(c) == move[c].pc = "copy" =>
    /\ call[c].pc = "idle"
    /\ live[move[c].new] = move[c].need
    /\ move[c].new = move[c].old \/ move[c].new >= move[c].old + move[c].oldSize

Stage(c) == OldKept(c) /\ Allocating(c) /\ Copying(c)

DataTypeOK ==
    /\ data \in [Units -> 0 .. MaxRequest]
    /\ move \in [Callers -> Move]

(* The inductive invariant of realloc().                                   *)
RInv == IInv /\ DataTypeOK /\ AllIntact /\ \A c \in Callers : Stage(c)

LEMMA MoveTypes ==
    ASSUME DataTypeOK, NEW c \in Callers
    PROVE  /\ move[c] \in Move
           /\ move[c].old \in Nat /\ move[c].old \in Units
           /\ move[c].oldSize \in Nat
           /\ move[c].need \in Nat /\ move[c].need =< MaxRequest
           /\ move[c].kept \in Nat
           /\ move[c].new \in Nat /\ move[c].new \in Units
<1>1. move[c] \in Move
    BY DEF DataTypeOK
<1>2. /\ move[c].old \in Units /\ move[c].oldSize \in 0 .. MaxUnits
      /\ move[c].need \in 0 .. MaxRequest /\ move[c].kept \in 0 .. MaxRequest
      /\ move[c].new \in Units
    BY <1>1 DEF Move
<1> QED
    BY <1>1, <1>2, Constants DEF Units

(* Two allocations have no unit in common.                                 *)
Apart ==
    \A p \in Units : live[p] # 0 =>
        \A i \in 0 .. live[p] - 1 :
            /\ p + i \in Units
            /\ \A q \in Units : q # p /\ live[q] # 0 => p + i \notin q .. q + live[q] - 1

LEMMA UnitsApart == IInv => Apart
<1> SUFFICES ASSUME IInv, NEW p \in Units, live[p] # 0, NEW i \in 0 .. live[p] - 1
             PROVE  /\ p + i \in Units
                    /\ \A q \in Units : q # p /\ live[q] # 0 => p + i \notin q .. q + live[q] - 1
    BY DEF Apart
<1>1. PICK B \in SUBSET Units : Good(B)
    BY DEF IInv, WellFormed, Good
<1>2. mem \in Memory /\ Tiling(mem, B) /\ p \in B /\ live[p] =< mem.head[p].size
    BY <1>1 DEF IInv, TypeOK, Good, LiveAreUsed
<1>3. live[p] \in Nat /\ p \in Nat /\ mem.head[p].size \in Nat
      /\ p + mem.head[p].size =< mem.end /\ mem.end \in Nat /\ mem.end =< MaxUnits
  <2>1. live[p] \in 0 .. MaxRequest
      BY DEF IInv, TypeOK
  <2> QED
      BY <1>2, <2>1, Places, Constants
<1>4. p + i \in Units
    BY <1>2, <1>3, Constants DEF Units
<1>5. ASSUME NEW q \in Units, q # p, live[q] # 0
      PROVE  p + i \notin q .. q + live[q] - 1
  <2>1. q \in B /\ live[q] =< mem.head[q].size
      BY <1>1, <1>5 DEF Good, LiveAreUsed
  <2>2. live[q] \in 0 .. MaxRequest
      BY DEF IInv, TypeOK
  <2>3. /\ q \in Nat /\ mem.head[q].size \in Nat
        /\ LastUnit(mem, q) < p \/ p + mem.head[p].size =< q
      BY <1>2, <1>5, <2>1, Places
  <2>4. q + mem.head[q].size =< p \/ p + mem.head[p].size =< q
      BY <1>3, <2>3 DEF LastUnit
  <2> QED
      BY <1>2, <1>3, <2>1, <2>2, <2>3, <2>4, Constants
<1> QED
    BY <1>4, <1>5

(* An owner that fills its block leaves those of the others as they were.  *)
LEMMA FilledIntact ==
    ASSUME IInv', DataTypeOK, NEW b \in Units, live'[b] # 0, data' = Filled(data, b, live'[b])
    PROVE  /\ data' \in [Units -> 0 .. MaxRequest]
           /\ Intact(b, live[b])'
           /\ \A p \in Units : p # b /\ live'[p] # 0 =>
                  \A i \in 0 .. live'[p] - 1 : data'[p + i] = data[p + i]
<1> DEFINE n == live'[b]
<1>1. data' = [u \in Units |-> IF u \in b .. b + n - 1 THEN u - b + 1 ELSE data[u]]
    BY DEF Filled
<1>2. n \in Nat /\ n =< MaxRequest /\ b \in Nat
  <2>1. n \in 0 .. MaxRequest
      BY DEF IInv, TypeOK
  <2> QED
      BY <2>1, Constants DEF Units
<1>3. data' \in [Units -> 0 .. MaxRequest]
  <2>1. ASSUME NEW u \in Units
        PROVE  (IF u \in b .. b + n - 1 THEN u - b + 1 ELSE data[u]) \in 0 .. MaxRequest
    <3>1. u \in Nat
        BY Constants DEF Units
    <3>2. data[u] \in 0 .. MaxRequest
        BY DEF DataTypeOK
    <3> QED
        BY <1>2, <3>1, <3>2, Constants
  <2> QED
      BY <1>1, <2>1
<1>4. Apart'
  <2>1. IInv' => Apart'
      BY UnitsApart, PTL
  <2> QED
      BY <2>1
<1>5. ASSUME NEW i \in 0 .. n - 1 PROVE data'[b + i] = i + 1
  <2>1. b + i \in Units
      BY <1>4, <1>5 DEF Apart
  <2> QED
      BY <1>1, <1>2, <1>5, <2>1
<1>6. ASSUME NEW p \in Units, p # b, live'[p] # 0, NEW i \in 0 .. live'[p] - 1
      PROVE  data'[p + i] = data[p + i]
  <2>1. p + i \in Units /\ p + i \notin b .. b + n - 1
      BY <1>4, <1>6 DEF Apart
  <2> QED
      BY <1>1, <2>1
<1> QED
    BY <1>3, <1>5, <1>6 DEF Intact

LEMMA StageOfOne ==
    ASSUME SingleCaller, NEW c \in Callers, IInv', DataTypeOK', AllIntact', Stage(c)'
    PROVE  RInv'
<1>1. ASSUME NEW d \in Callers PROVE Stage(d)'
  <2>1. c = d
      BY DEF SingleCaller
  <2> QED
      BY <2>1
<1> QED
    BY <1>1 DEF RInv

LEMMA IdleStage ==
    ASSUME NEW c \in Callers, move'[c].pc = "idle"
    PROVE  Stage(c)'
BY DEF Stage, OldKept, Allocating, Copying

LEMMA InitRInv == ReallocInit => RInv
<1> SUFFICES ASSUME ReallocInit PROVE RInv
    OBVIOUS
<1>1. IInv
    BY InitIInv DEF ReallocInit
<1>2. DataTypeOK
  <2>1. Still \in Move
      BY Constants DEF Still, Move
  <2> QED
      BY <2>1, Constants DEF ReallocInit, DataTypeOK
<1>3. AllIntact
    BY DEF AllIntact, ReallocInit, Init
<1>4. \A c \in Callers : move[c].pc = "idle"
    BY DEF ReallocInit, Still
<1>5. \A c \in Callers : Stage(c)
    BY <1>4 DEF Stage, OldKept, Allocating, Copying
<1> QED
    BY <1>1, <1>2, <1>3, <1>5 DEF RInv

(* A step of malloc() that does not return walks on, or stops at a page    *)
(* fault; in either case the blocks are where they were.                   *)
LEMMA WalkGoesOn ==
    ASSUME IInv, SingleCaller, NEW c \in Callers, Malloc(c)
    PROVE  /\ IInv'
           /\ \/ Served(c)
              \/ /\ live' = live /\ mem'.end = mem.end
                 /\ call'[c].pc = "walk" /\ call'[c].need = call[c].need
                 /\ \E B \in SUBSET Units : Tiling(mem, B) /\ Tiling(mem', B)
<1> DEFINE WalksOn == /\ live' = live /\ mem'.end = mem.end
                      /\ call'[c].pc = "walk" /\ call'[c].need = call[c].need
                      /\ \E B \in SUBSET Units : Tiling(mem, B) /\ Tiling(mem', B)
<1> SUFFICES IInv' /\ (Served(c) \/ WalksOn)
    OBVIOUS
<1>1. PICK B \in SUBSET Units : Good(B)
    BY DEF IInv, WellFormed, Good
<1>2. Walking(c)
    BY DEF Malloc, AllocWalk, AllocPerfect, AllocExtend, AllocSplit, AllocWhole, WalkedAll, BestFit
<1>3. call \in [Callers -> Call]
    BY DEF IInv, TypeOK
<1>4. ASSUME UNCHANGED <<mem, live, call>> PROVE WalksOn
    BY <1>1, <1>2, <1>4 DEF Walking, Good
<1>5. CASE AllocWalk(c)
  <2>1. IInv'
      BY <1>5, AllocWalkIInv
  <2>2. WalksOn
    <3>1. CASE Trashed
        BY <3>1, <1>4 DEF Trashed
    <3>2. CASE ~ Trashed
      <4>1. mem' = mem /\ live' = live
          BY <1>5, <3>2 DEF AllocWalk
      <4>2. PICK x, y, z : call' = [call EXCEPT ![c] =
                [pc |-> "walk", need |-> call[c].need, cur |-> x, close |-> y, best |-> z]]
          BY <1>5, <3>2 DEF AllocWalk
      <4>3. call'[c].pc = "walk" /\ call'[c].need = call[c].need
          BY <1>3, <4>2
      <4> QED
          BY <1>1, <4>1, <4>3 DEF Good
    <3> QED
        BY <3>1, <3>2
  <2> QED
      BY <2>1, <2>2
<1>6. CASE Served(c)
    BY <1>6, ServedIInv
<1>7. CASE AllocExtend(c) /\ ExtendFaults(mem, mapped, call[c].need)
  <2>1. /\ IInv' /\ live' = live /\ call' = call /\ mem'.end = mem.end
        /\ \E D \in SUBSET Units : Tiling(mem, D) /\ Tiling(mem', D)
      BY <1>7, AllocExtendFaults
  <2> QED
      BY <1>2, <2>1 DEF Walking
<1>8. AllocPerfect(c) => Served(c)
    BY AllocPerfectServes
<1>9. AllocWhole(c) => Served(c)
    BY AllocWholeServes
<1>10. AllocSplit(c) => Served(c)
    BY AllocSplitServes
<1>11. AllocExtend(c) /\ ~ ExtendFaults(mem, mapped, call[c].need) => Served(c)
    BY AllocExtendServes
<1> HIDE DEF WalksOn
<1> QED
    BY <1>5, <1>6, <1>7, <1>8, <1>9, <1>10, <1>11 DEF Malloc

(* What malloc() has given is the only allocation that changed.            *)
LEMMA GivenIsServed ==
    ASSUME IInv, NEW c \in Callers, Served(c)
    PROVE  \E u \in Units :
               /\ \E B \in SUBSET Units : Tiling(mem, B) /\ u \in B \cup {mem.end}
               /\ live[u] = 0 /\ call[c].need > 0
               /\ live' = [live EXCEPT ![u] = call[c].need]
               /\ call[c].pc = "walk" /\ call' = [call EXCEPT ![c] = Idle]
               /\ (CHOOSE b \in Units : live[b] # live'[b]) = u
<1>1. PICK B, C \in SUBSET Units : \E u \in C :
          /\ Good(B)
          /\ u \in B \cup {mem.end}
          /\ Becomes(mem, B, mem', C, Used(mem, B) \cup {u})
          /\ u \notin Used(mem, B)
          /\ call[c].need =< mem'.head[u].size
          /\ Walking(c) /\ Return(c, u)
          /\ mapped' \subseteq Nat
    BY DEF Served
<1>2. PICK u \in C :
          /\ Good(B)
          /\ u \in B \cup {mem.end}
          /\ u \notin Used(mem, B)
          /\ Walking(c) /\ Return(c, u)
    BY <1>1
<1>3. u \in Units
    BY <1>1, <1>2
<1>4. live \in [Units -> 0 .. MaxRequest]
    BY DEF IInv, TypeOK
<1>5. live[u] = 0
    BY <1>2, <1>3 DEF Good, LiveAreUsed, Used
<1>6. call[c].need > 0 /\ call[c].pc = "walk"
    BY <1>2 DEF Good, WalkersOnBlocks, Walking
<1>7. live' = [live EXCEPT ![u] = call[c].need] /\ call' = [call EXCEPT ![c] = Idle]
    BY <1>2 DEF Return
<1>8. call[c].need # 0
    BY <1>6, NeedIsNat DEF IInv
<1>9. \A b \in Units : live[b] # live'[b] <=> b = u
    BY <1>3, <1>4, <1>5, <1>7, <1>8
<1>10. (CHOOSE b \in Units : live[b] # live'[b]) = u
    BY <1>3, <1>9
<1>11. Tiling(mem, B)
    BY <1>2 DEF Good
<1> QED
    BY <1>2, <1>3, <1>5, <1>6, <1>7, <1>10, <1>11

LEMMA MallocStepRInv ==
    ASSUME RInv, SingleCaller, NEW c \in Callers, MallocStep(c),
           move'[c].pc = "copy" => move'[c].new >= move'[c].old
    PROVE  RInv'
<1> DEFINE given == CHOOSE b \in Units : live[b] # live'[b]
<1>1. IInv /\ DataTypeOK /\ AllIntact /\ Stage(c)
    BY DEF RInv
<1>2. /\ Malloc(c)
      /\ CASE call'[c].pc # "idle" -> UNCHANGED <<data, move>>
           [] call'[c].pc = "idle" /\ move[c].pc = "idle" ->
                  data' = Filled(data, given, live'[given]) /\ UNCHANGED move
           [] call'[c].pc = "idle" /\ move[c].pc = "alloc" ->
                  /\ move' = [move EXCEPT ![c].pc = "copy", ![c].new = given]
                  /\ UNCHANGED data
    BY DEF MallocStep
<1> HIDE DEF given
<1>3. /\ IInv'
      /\ \/ Served(c)
         \/ /\ live' = live /\ mem'.end = mem.end
            /\ call'[c].pc = "walk" /\ call'[c].need = call[c].need
            /\ \E B \in SUBSET Units : Tiling(mem, B) /\ Tiling(mem', B)
    BY <1>1, <1>2, WalkGoesOn
<1>4. mem \in Memory /\ mem' \in Memory
    BY <1>1, <1>3 DEF IInv, TypeOK
<1>5. CASE /\ live' = live /\ mem'.end = mem.end
           /\ call'[c].pc = "walk" /\ call'[c].need = call[c].need
           /\ \E B \in SUBSET Units : Tiling(mem, B) /\ Tiling(mem', B)
  <2>1. data' = data /\ move' = move
      BY <1>2, <1>5
  <2>2. DataTypeOK'
      BY <1>1, <2>1 DEF DataTypeOK
  <2>3. AllIntact'
      BY <1>1, <1>5, <2>1 DEF AllIntact, Intact
  <2>4. OldKept(c)'
      BY <1>1, <2>1 DEF Stage, OldKept, Intact
  <2>5. ~ (move[c].pc = "copy")
    <3>1. call[c].pc = "walk"
        BY <1>2 DEF Malloc, AllocWalk, AllocPerfect, AllocExtend, AllocSplit, AllocWhole,
                    WalkedAll, BestFit, Walking
    <3> QED
        BY <1>1, <3>1 DEF Stage, Copying
  <2>6. Copying(c)'
      BY <2>1, <2>5 DEF Copying
  <2>7. ASSUME move[c].pc = "alloc" PROVE Allocating(c)'
    <3>1. PICK B \in SUBSET Units : Tiling(mem, B) /\ Tiling(mem', B)
        BY <1>5
    <3>2. \A D \in SUBSET Units : Tiling(mem', D) => D = B
        BY <1>4, <3>1, TilingIsUnique
    <3>3. /\ call[c].need = move[c].need
          /\ move[c].old + move[c].oldSize =< mem.end
          /\ \A b \in B : b =< move[c].old \/ b >= move[c].old + move[c].oldSize
        BY <1>1, <2>7, <3>1 DEF Stage, Allocating
    <3>4. \A D \in SUBSET Units : Tiling(mem', D) =>
              \A b \in D : b =< move'[c].old \/ b >= move'[c].old + move'[c].oldSize
        BY <2>1, <3>2, <3>3
    <3> QED
        BY <1>5, <2>1, <3>3, <3>4 DEF Allocating
  <2>8. Allocating(c)'
    <3>1. move[c].pc # "alloc" => Allocating(c)'
        BY <2>1 DEF Allocating
    <3> QED
        BY <2>7, <3>1
  <2> QED
      BY <1>3, <2>2, <2>3, <2>4, <2>6, <2>8, StageOfOne DEF Stage
<1>6. CASE Served(c)
  <2>1. PICK u \in Units :
            /\ \E B \in SUBSET Units : Tiling(mem, B) /\ u \in B \cup {mem.end}
            /\ live[u] = 0 /\ call[c].need > 0
            /\ live' = [live EXCEPT ![u] = call[c].need]
            /\ call[c].pc = "walk" /\ call' = [call EXCEPT ![c] = Idle]
            /\ given = u
      BY <1>1, <1>6, GivenIsServed DEF given
  <2>2. call \in [Callers -> Call] /\ live \in [Units -> 0 .. MaxRequest]
      BY <1>1 DEF IInv, TypeOK
  <2>3. call'[c].pc = "idle"
      BY <2>1, <2>2 DEF Idle
  <2>4. live'[u] = call[c].need /\ live'[u] # 0
      BY <1>1, <2>1, <2>2, NeedIsNat DEF IInv
  <2>5. \A p \in Units : p # u => live'[p] = live[p]
      BY <2>1, <2>2
  <2>6. move[c].pc \in {"idle", "alloc"}
    <3>1. move[c].pc \in {"idle", "alloc", "copy"}
        BY <1>1, MoveTypes DEF Move
    <3>2. move[c].pc # "copy"
        BY <1>1, <2>1 DEF Stage, Copying
    <3> QED
        BY <3>1, <3>2
  <2>7. \A p \in Units : live[p] # 0 => Intact(p, live[p])
    <3>1. \A d \in Callers : move[d].pc # "copy"
      <4>1. \A d \in Callers : d = c
          BY DEF SingleCaller
      <4> QED
          BY <2>6, <4>1
    <3> QED
        BY <1>1, <3>1 DEF AllIntact
  <2>8. CASE move[c].pc = "idle"
    <3>1. data' = Filled(data, u, live'[u]) /\ move' = move
        BY <1>2, <2>1, <2>3, <2>8
    <3>2. /\ data' \in [Units -> 0 .. MaxRequest]
          /\ Intact(u, live[u])'
          /\ \A p \in Units : p # u /\ live'[p] # 0 =>
                 \A i \in 0 .. live'[p] - 1 : data'[p + i] = data[p + i]
        BY <1>1, <1>3, <2>4, <3>1, FilledIntact
    <3>3. DataTypeOK'
        BY <1>1, <3>1, <3>2 DEF DataTypeOK
    <3>4. AllIntact'
      <4>1. ASSUME NEW p \in Units, live'[p] # 0, p # u
            PROVE  Intact(p, live[p])'
          BY <2>5, <2>7, <3>2, <4>1 DEF Intact
      <4> QED
          BY <3>2, <4>1 DEF AllIntact
    <3>5. Stage(c)'
        BY <2>8, <3>1, IdleStage
    <3> QED
        BY <1>3, <3>3, <3>4, <3>5, StageOfOne
  <2>9. CASE move[c].pc = "alloc"
    <3>1. /\ move' = [move EXCEPT ![c].pc = "copy", ![c].new = u]
          /\ data' = data
        BY <1>2, <2>1, <2>3, <2>9
    <3>2. /\ move[c] \in Move /\ move \in [Callers -> Move]
          /\ move[c].old \in Nat /\ move[c].oldSize \in Nat
        BY <1>1, MoveTypes DEF DataTypeOK
    <3>3. /\ move'[c].pc = "copy" /\ move'[c].new = u
          /\ move'[c].old = move[c].old /\ move'[c].oldSize = move[c].oldSize
          /\ move'[c].need = move[c].need /\ move'[c].kept = move[c].kept
        BY <3>1, <3>2 DEF Move
    <3>4. DataTypeOK'
      <4>1. move' \in [Callers -> Move]
        <5> DEFINE v == [move[c] EXCEPT !.pc = "copy", !.new = u]
        <5>1. v \in Move
            BY <3>2 DEF Move
        <5>2. move' = [move EXCEPT ![c] = v]
            BY <3>1, <3>2
        <5> HIDE DEF v
        <5> QED
            BY <3>2, <5>1, <5>2
      <4> QED
          BY <1>1, <3>1, <4>1 DEF DataTypeOK
    <3>5. AllIntact'
        BY <2>5, <2>7, <3>1, <3>3 DEF AllIntact, Intact
    <3>6. OldKept(c)'
        BY <1>1, <2>9, <3>1, <3>3 DEF Stage, OldKept, Intact
    <3>7. Allocating(c)'
        BY <3>3 DEF Allocating
    <3>8. Copying(c)'
      <4>1. PICK B \in SUBSET Units : Tiling(mem, B) /\ u \in B \cup {mem.end}
          BY <2>1
      <4>2. /\ call[c].need = move[c].need
            /\ move[c].old + move[c].oldSize =< mem.end
            /\ \A b \in B : b =< move[c].old \/ b >= move[c].old + move[c].oldSize
          BY <1>1, <2>9, <4>1 DEF Stage, Allocating
      <4>3. u \in Nat /\ mem.end \in Nat
          BY <1>4, Constants DEF Units, Memory
      <4>4. u >= move[c].old
          BY <3>3
      <4>5. u =< move[c].old \/ u >= move[c].old + move[c].oldSize
        <5>1. CASE u \in B
            BY <4>2, <5>1
        <5>2. CASE u = mem.end
            BY <3>2, <4>2, <4>3, <5>2
        <5> QED
            BY <4>1, <5>1, <5>2
      <4>6. u = move[c].old \/ u >= move[c].old + move[c].oldSize
          BY <3>2, <4>3, <4>4, <4>5
      <4> QED
          BY <2>3, <2>4, <3>3, <4>2, <4>6 DEF Copying
    <3> QED
        BY <1>3, <3>4, <3>5, <3>6, <3>7, <3>8, StageOfOne DEF Stage
  <2> QED
      BY <2>6, <2>8, <2>9
<1> QED
    BY <1>3, <1>5, <1>6

(* What is copied to the same place, or to one behind the old block, is    *)
(* what the owner wrote: with the rest, which it writes then, the block is *)
(* as if its owner had filled all of it.                                   *)
LEMMA CopiedIsFilled ==
    ASSUME RInv, NEW c \in Callers, CopyOld(c)
    PROVE  /\ data' = Filled(data, move[c].new, move[c].need)
           /\ mem' = mem
           /\ live[move[c].new] = move[c].need /\ move[c].need > 0
           /\ move' = [move EXCEPT ![c] = Still]
           /\ UNCHANGED <<mapped, live, call, panic>>
<1> DEFINE q == move[c].new
           old == move[c].old
           oldSize == move[c].oldSize
           n == move[c].need
           kept == move[c].kept
           grows == oldSize < n
           k == IF grows THEN oldSize ELSE n
           src == OldContents(q, old, oldSize)
           down == CopiedDown(src, k, old - q)
           word == CASE q = old -> [i \in 0 .. k - 1 |-> data[old + i]]
                     [] q > old -> CopiedUp(src, k)
                     [] q < old /\ ~ grows -> down
                     [] q < old /\ grows -> [down EXCEPT ![k - 1] = 0]
<1>1. /\ data' = [u \in Units |->
                      IF u \in q .. q + kept - 1 THEN word[u - q] ELSE Filled(data, q, n)[u]]
      /\ mem' = IF q < old /\ grows
                THEN [mem EXCEPT !.head[q].size = mem.head[old].size]
                ELSE mem
      /\ move' = [move EXCEPT ![c] = Still]
      /\ UNCHANGED <<mapped, live, call, panic>>
      /\ move[c].pc = "copy"
    BY DEF CopyOld
<1>2. /\ IInv /\ DataTypeOK /\ Stage(c)
    BY DEF RInv
<1>3. /\ n > 0 /\ kept =< n /\ kept =< oldSize /\ Intact(old, kept)
      /\ live[q] = n
      /\ q = old \/ q >= old + oldSize
    BY <1>1, <1>2 DEF Stage, OldKept, Copying
<1>4. /\ q \in Nat /\ q \in Units /\ old \in Nat /\ oldSize \in Nat /\ n \in Nat /\ kept \in Nat
    BY <1>2, MoveTypes
<1>5. ~ (q < old)
    BY <1>3, <1>4
<1>6. mem' = mem
    BY <1>1, <1>5
<1>7. ASSUME NEW i \in 0 .. kept - 1 PROVE word[i] = i + 1
  <2>1. i \in 0 .. k - 1 /\ i \in 0 .. oldSize - 1
      BY <1>3, <1>4, <1>7
  <2>2. data[old + i] = i + 1
      BY <1>3, <1>7 DEF Intact
  <2>3. CASE q = old
    <3> HIDE DEF down, src, k
    <3>1. word = [x \in 0 .. k - 1 |-> data[old + x]]
        BY <1>4, <2>3
    <3> HIDE DEF word
    <3> QED
        BY <2>1, <2>2, <3>1
  <2>4. CASE q > old
    <3>1. word = CopiedUp(src, k)
        BY <1>4, <2>4
    <3>2. mem.head[q].size \in Nat
      <4>1. mem.head[q].size \in 0 .. MaxUnits
          BY <1>2, <1>4 DEF IInv, TypeOK, Memory, HeapHead
      <4> QED
          BY <4>1, Constants
    <3>3. q + mem.head[q].size \notin old + 1 .. old + oldSize - 1
        BY <1>3, <1>4, <2>4, <3>2
    <3>4. src[i] = data[old + i]
        BY <2>1, <3>3 DEF OldContents
    <3> HIDE DEF src, word, k
    <3>5. word[i] = src[i]
        BY <2>1, <3>1 DEF CopiedUp
    <3> QED
        BY <2>2, <3>4, <3>5
  <2> QED
      BY <1>4, <1>5, <2>3, <2>4
<1> HIDE DEF word
<1>8. ASSUME NEW u \in Units
      PROVE  (IF u \in q .. q + kept - 1 THEN word[u - q] ELSE Filled(data, q, n)[u])
                 = Filled(data, q, n)[u]
  <2>1. u \in Nat
      BY Constants DEF Units
  <2>2. CASE u \in q .. q + kept - 1
    <3>1. u - q \in 0 .. kept - 1
        BY <1>4, <2>1, <2>2
    <3>2. word[u - q] = u - q + 1
        BY <1>7, <3>1
    <3>3. u \in q .. q + n - 1
        BY <1>3, <1>4, <2>1, <2>2
    <3>4. Filled(data, q, n)[u] = u - q + 1
        BY <3>3 DEF Filled
    <3> QED
        BY <2>2, <3>2, <3>4
  <2> QED
      BY <2>2
<1>9. data' = Filled(data, q, n)
  <2>1. data' = [u \in Units |-> Filled(data, q, n)[u]]
      BY <1>1, <1>8
  <2>2. Filled(data, q, n) = [u \in Units |-> Filled(data, q, n)[u]]
      BY DEF Filled
  <2> QED
      BY <2>1, <2>2
<1> QED
    BY <1>1, <1>3, <1>6, <1>9

(* A caller at rest that has filled its block has done what it had to.     *)
LEMMA FilledRInv ==
    ASSUME SingleCaller, IInv', DataTypeOK, NEW c \in Callers,
           move' \in [Callers -> Move], move'[c].pc = "idle",
           NEW b \in Units, live'[b] # 0, data' = Filled(data, b, live'[b]),
           \A p \in Units : p # b /\ live'[p] # 0 =>
               live'[p] = live[p] /\ Intact(p, live[p])
    PROVE  RInv'
<1>1. /\ data' \in [Units -> 0 .. MaxRequest]
      /\ Intact(b, live[b])'
      /\ \A p \in Units : p # b /\ live'[p] # 0 =>
             \A i \in 0 .. live'[p] - 1 : data'[p + i] = data[p + i]
    BY FilledIntact
<1>2. DataTypeOK'
    BY <1>1 DEF DataTypeOK
<1>3. ASSUME NEW p \in Units, live'[p] # 0, p # b
      PROVE  Intact(p, live[p])'
    BY <1>1, <1>3 DEF Intact
<1>4. AllIntact'
    BY <1>1, <1>3 DEF AllIntact
<1>5. Stage(c)'
    BY IdleStage
<1> QED
    BY <1>2, <1>4, <1>5, StageOfOne

LEMMA CopyOldRInv ==
    ASSUME RInv, SingleCaller, NEW c \in Callers, CopyOld(c)
    PROVE  RInv'
<1>1. IInv /\ DataTypeOK /\ AllIntact
    BY DEF RInv
<1>2. PICK q \in Units : q = move[c].new
    BY <1>1, MoveTypes
<1>3. /\ data' = Filled(data, q, live[q])
      /\ mem' = mem
      /\ live[q] # 0
      /\ move' = [move EXCEPT ![c] = Still]
      /\ UNCHANGED <<mapped, live, call, panic>>
  <2>1. move[c].need \in Nat
      BY <1>1, MoveTypes
  <2> QED
      BY <1>2, <2>1, CopiedIsFilled
<1>4. UNCHANGED vars
    BY <1>3 DEF vars
<1>5. IInv'
    BY <1>1, <1>4, StutterIInv
<1>6. move' \in [Callers -> Move] /\ move'[c].pc = "idle"
  <2>1. Still \in Move /\ Still.pc = "idle"
      BY Constants DEF Still, Move
  <2>2. move \in [Callers -> Move]
      BY <1>1 DEF DataTypeOK
  <2> HIDE DEF Still
  <2> QED
      BY <1>3, <2>1, <2>2
<1>7. ASSUME NEW p \in Units, p # q, live[p] # 0 PROVE Intact(p, live[p])
  <2>1. \A d \in Callers : move[d].new # p
      BY <1>2, <1>7 DEF SingleCaller
  <2> QED
      BY <1>1, <1>7, <2>1 DEF AllIntact
<1>8. live' = live
    BY <1>3
<1> QED
    BY <1>1, <1>3, <1>5, <1>6, <1>7, <1>8, FilledRInv

(* With nobody to copy, every allocation is intact.                        *)
LEMMA IdleIntact ==
    ASSUME RInv, SingleCaller, NEW c \in Callers, move[c].pc = "idle"
    PROVE  /\ IInv /\ DataTypeOK /\ AllIntact
           /\ \A p \in Units : live[p] # 0 => Intact(p, live[p])
<1>1. IInv /\ DataTypeOK /\ AllIntact
    BY DEF RInv
<1>2. \A d \in Callers : move[d].pc # "copy"
  <2>1. \A d \in Callers : d = c
      BY DEF SingleCaller
  <2> QED
      BY <2>1
<1> QED
    BY <1>1, <1>2 DEF AllIntact

LEMMA ReallocSameRInv ==
    ASSUME RInv, SingleCaller, NEW c \in Callers, NEW b \in Units, NEW n \in 1 .. MaxRequest,
           ReallocSame(c, b, n)
    PROVE  RInv'
<1>1. /\ move[c].pc = "idle" /\ live[b] # 0
      /\ StaysPut(n, mem.head[b].size)
      /\ live' = [live EXCEPT ![b] = n]
      /\ data' = Filled(data, b, n)
      /\ UNCHANGED <<mem, mapped, call, panic, move>>
    BY DEF ReallocSame
<1>2. /\ IInv /\ DataTypeOK
      /\ \A p \in Units : live[p] # 0 => Intact(p, live[p])
    BY <1>1, IdleIntact
<1>3. n \in Nat /\ n # 0 /\ n \in 0 .. MaxRequest
    BY Constants
<1>4. live \in [Units -> 0 .. MaxRequest]
    BY <1>2 DEF IInv, TypeOK
<1>5. live'[b] = n /\ \A p \in Units : p # b => live'[p] = live[p]
    BY <1>1, <1>4
<1>6. IInv'
  <2>1. TypeOK'
    <3>1. live' \in [Units -> 0 .. MaxRequest]
        BY <1>1, <1>3, <1>4
    <3> QED
        BY <1>1, <1>2, <3>1 DEF IInv, TypeOK
  <2>2. NeverTrashed'
      BY <1>1, <1>2 DEF IInv, NeverTrashed
  <2>3. PICK B \in SUBSET Units : Good(B)
      BY <1>2 DEF IInv, WellFormed, Good
  <2>4. b \in B /\ mem.head[b].magic = "used" /\ n =< mem.head[b].size
    <3>1. b \in B /\ mem.head[b].magic = "used"
        BY <1>1, <2>3 DEF Good, LiveAreUsed
    <3>2. mem.head[b].size \in Nat
      <4>1. mem.head[b].size \in 0 .. MaxUnits
          BY <1>2 DEF IInv, TypeOK, Memory, HeapHead
      <4> QED
          BY <4>1, Constants
    <3>3. n = mem.head[b].size \/ n < mem.head[b].size
        BY <1>1 DEF StaysPut
    <3> QED
        BY <1>3, <3>1, <3>2, <3>3
  <2>5. LiveAreUsed(mem, B)'
    <3>1. \A x \in B : mem.head[x].magic = "used" => live'[x] # 0
        BY <1>3, <1>5, <2>3 DEF Good, LiveAreUsed
    <3>2. ASSUME NEW x \in Units, live'[x] # 0
          PROVE  x \in B /\ mem.head[x].magic = "used" /\ live'[x] =< mem.head[x].size
      <4>1. CASE x = b
          BY <1>5, <2>4, <4>1
      <4>2. CASE x # b
          BY <1>5, <2>3, <3>2, <4>2 DEF Good, LiveAreUsed
      <4> QED
          BY <4>1, <4>2
    <3> QED
        BY <1>1, <3>1, <3>2 DEF LiveAreUsed
  <2>6. Tiling(mem, B)' /\ WalkersOnBlocks(mem, B)'
    <3>1. mem' = mem /\ call' = call
        BY <1>1
    <3> QED
        BY <2>3, <3>1 DEF Good, WalkersOnBlocks
  <2>7. WellFormed'
      BY <2>5, <2>6 DEF WellFormed
  <2> QED
      BY <2>1, <2>2, <2>7 DEF IInv
<1>7. move' \in [Callers -> Move] /\ move'[c].pc = "idle"
    BY <1>1, <1>2 DEF DataTypeOK
<1>8. live'[b] # 0 /\ data' = Filled(data, b, live'[b])
    BY <1>1, <1>3, <1>5
<1>9. \A p \in Units : p # b /\ live'[p] # 0 => live'[p] = live[p] /\ Intact(p, live[p])
    BY <1>2, <1>5
<1> QED
    BY <1>2, <1>6, <1>7, <1>8, <1>9, FilledRInv

(* realloc() frees first: the old block, cut or not, is merged with its    *)
(* neighbours, nothing starts inside of it any more, and its units hold    *)
(* what they held.                                                         *)
LEMMA ReallocMoveRInv ==
    ASSUME RInv, SingleCaller, NEW c \in Callers, NEW b \in Units, NEW n \in 1 .. MaxRequest,
           ReallocMove(c, b, n)
    PROVE  RInv'
<1> DEFINE size == mem.head[b].size
           cut == IF n < size THEN Cut(mem, b, n) ELSE mem
           kept == IF n < live[b] THEN n ELSE live[b]
           v == [pc |-> "alloc", old |-> b, oldSize |-> size, need |-> n, new |-> 0, kept |-> kept]
<1>1. /\ panic = "none" /\ call[c].pc = "idle" /\ move[c].pc = "idle" /\ live[b] # 0
      /\ mem' = DeallocAt(cut, b)
      /\ live' = [live EXCEPT ![b] = 0]
      /\ call' = [call EXCEPT ![c] = Begun(n)]
      /\ move' = [move EXCEPT ![c] = v]
      /\ UNCHANGED <<mapped, panic, data>>
    BY DEF ReallocMove
<1>2. /\ IInv /\ DataTypeOK
      /\ \A p \in Units : live[p] # 0 => Intact(p, live[p])
    BY <1>1, IdleIntact
<1>3. n \in Nat /\ 0 < n /\ n \in 0 .. MaxRequest /\ 0 \in 0 .. MaxUnits
    BY Constants
<1>4. PICK B \in SUBSET Units : Good(B)
    BY <1>2 DEF IInv, WellFormed, Good
<1>5. /\ mem \in Memory /\ Tiling(mem, B) /\ b \in B
      /\ mem.head[b].magic = "used" /\ live[b] =< size
    BY <1>1, <1>2, <1>4 DEF IInv, TypeOK, Good, LiveAreUsed
<1>6. /\ b \in Nat /\ size \in Nat /\ size \in 0 .. MaxUnits /\ b + size =< mem.end
      /\ \A x \in B : x # b => x + mem.head[x].size - 1 < b \/ b + size =< x
      /\ \A x \in B : x \in Nat /\ mem.head[x].size \in Nat /\ 0 < mem.head[x].size
  <2>1. size \in 0 .. MaxUnits
      BY <1>5 DEF Memory, HeapHead
  <2> QED
      BY <1>5, <2>1, Places DEF LastUnit
<1>7. live[b] \in Nat /\ live[b] \in 0 .. MaxRequest /\ live \in [Units -> 0 .. MaxRequest]
  <2>1. live \in [Units -> 0 .. MaxRequest]
      BY <1>2 DEF IInv, TypeOK
  <2>2. live[b] \in 0 .. MaxRequest
      BY <2>1
  <2> QED
      BY <2>1, <2>2, Constants
<1>8. PICK C : /\ mem'.end = mem.end
               /\ C \subseteq B
               /\ Becomes(mem, B, mem', C, Used(mem, B) \ {b})
  <2>1. cut = IF n < mem.head[b].size THEN Cut(mem, b, n) ELSE mem
      OBVIOUS
  <2> HIDE DEF cut, size, kept, v
  <2>2. /\ DeallocAt(cut, b).end = mem.end
        /\ \E C : C \subseteq B /\ Becomes(mem, B, DeallocAt(cut, b), C, Used(mem, B) \ {b})
      BY <1>3, <1>5, <2>1, FreedWhole
  <2> QED
      BY <1>1, <2>2
<1> HIDE DEF cut
<1>9. /\ mem' \in Memory /\ live' \in [Units -> 0 .. MaxRequest]
      /\ C \in SUBSET Units /\ Tiling(mem', C) /\ LiveAreUsed(mem, C)'
    BY <1>1, <1>2, <1>4, <1>5, <1>8, ReleaseLemma
<1>10. call \in [Callers -> Call] /\ call' \in [Callers -> Call] /\ call'[c] = Begun(n)
  <2>1. call \in [Callers -> Call]
      BY <1>2 DEF IInv, TypeOK
  <2>2. Begun(n) \in Call
      BY <1>3, Constants DEF Begun, Call
  <2> HIDE DEF Begun
  <2> QED
      BY <1>1, <2>1, <2>2
<1>11. IInv'
  <2>1. TypeOK'
      BY <1>1, <1>2, <1>9, <1>10 DEF IInv, TypeOK
  <2>2. NeverTrashed'
      BY <1>1 DEF NeverTrashed
  <2>3. WalkersOnBlocks(mem, C)'
    <3>1. 0 \in C
        BY <1>9 DEF Tiling
    <3>2. ASSUME NEW d \in Callers, call'[d].pc = "walk"
          PROVE  /\ call'[d].need > 0 /\ call'[d].cur \in C \cup {mem'.end}
                 /\ call'[d].close = 0
      <4>1. call'[d] = Begun(n)
          BY <1>10 DEF SingleCaller
      <4> QED
          BY <1>3, <3>1, <4>1 DEF Begun
    <3> QED
        BY <3>2 DEF WalkersOnBlocks
  <2>4. WellFormed'
      BY <1>9, <2>3 DEF WellFormed
  <2> QED
      BY <2>1, <2>2, <2>4 DEF IInv
<1>12. kept \in Nat /\ kept \in 0 .. MaxRequest /\ kept =< n /\ kept =< live[b] /\ kept =< size
    BY <1>3, <1>5, <1>6, <1>7
<1>13. v \in Move
  <2> HIDE DEF size, kept
  <2> QED
      BY <1>3, <1>6, <1>12, Constants DEF Move
<1> HIDE DEF kept
<1>14. move \in [Callers -> Move] /\ move' \in [Callers -> Move] /\ move'[c] = v
  <2>1. move \in [Callers -> Move]
      BY <1>2 DEF DataTypeOK
  <2> HIDE DEF v
  <2> QED
      BY <1>1, <1>13, <2>1
<1>15. DataTypeOK'
    BY <1>1, <1>2, <1>14 DEF DataTypeOK
<1>16. AllIntact'
  <2>1. ASSUME NEW p \in Units, live'[p] # 0 PROVE live'[p] = live[p]
      BY <1>1, <1>7, <2>1
  <2> QED
      BY <1>1, <1>2, <2>1 DEF AllIntact, Intact
<1>17. /\ move'[c].pc = "alloc" /\ move'[c].old = b /\ move'[c].oldSize = size
       /\ move'[c].need = n /\ move'[c].kept = kept
  <2> HIDE DEF size
  <2> QED
      BY <1>14
<1>18. OldKept(c)'
  <2>1. \A i \in 0 .. kept - 1 : data'[b + i] = i + 1
    <3>1. Intact(b, live[b])
        BY <1>1, <1>2
    <3>2. \A i \in 0 .. kept - 1 : i \in 0 .. live[b] - 1
        BY <1>7, <1>12
    <3> QED
        BY <1>1, <3>1, <3>2 DEF Intact
  <2> QED
      BY <1>3, <1>12, <1>17, <2>1 DEF OldKept, Intact
<1>19. Allocating(c)'
  <2>1. call'[c].pc = "walk" /\ call'[c].need = n
      BY <1>10 DEF Begun
  <2>2. \A x \in B : x =< b \/ x >= b + size
    <3>1. ASSUME NEW x \in B PROVE x =< b \/ x >= b + size
        BY <1>6
    <3> QED
        BY <3>1
  <2>3. \A D \in SUBSET Units : Tiling(mem', D) => D = C
      BY <1>9, TilingIsUnique
  <2> HIDE DEF size
  <2> QED
      BY <1>6, <1>8, <1>17, <2>1, <2>2, <2>3 DEF Allocating
<1>20. Copying(c)'
    BY <1>17 DEF Copying
<1> QED
    BY <1>11, <1>15, <1>16, <1>18, <1>19, <1>20, StageOfOne DEF Stage

(* malloc() and free() called by a caller that is not inside realloc().    *)
LEMMA OtherCallsRInv ==
    ASSUME RInv, SingleCaller, NEW c \in Callers, move[c].pc = "idle",
           \/ \E n \in 1 .. MaxRequest : AllocBegin(c, n)
           \/ \E b \in Units : Dealloc(c, b),
           UNCHANGED <<data, move>>
    PROVE  RInv'
<1>1. /\ IInv /\ DataTypeOK
      /\ \A p \in Units : live[p] # 0 => Intact(p, live[p])
    BY IdleIntact
<1>2. live \in [Units -> 0 .. MaxRequest]
    BY <1>1 DEF IInv, TypeOK
<1>3. IInv' /\ \A p \in Units : live'[p] # 0 => live'[p] = live[p]
  <2>1. CASE \E n \in 1 .. MaxRequest : AllocBegin(c, n)
    <3>1. PICK n \in 1 .. MaxRequest : AllocBegin(c, n)
        BY <2>1
    <3> QED
        BY <1>1, <3>1, AllocBeginIInv DEF AllocBegin
  <2>2. CASE \E b \in Units : Dealloc(c, b)
    <3>1. PICK b \in Units : Dealloc(c, b)
        BY <2>2
    <3>2. live' = [live EXCEPT ![b] = 0]
        BY <3>1 DEF Dealloc
    <3>3. IInv'
        BY <1>1, <3>1, DeallocIInv
    <3> QED
        BY <1>2, <3>2, <3>3
  <2> QED
      BY <2>1, <2>2
<1>4. DataTypeOK'
    BY <1>1 DEF DataTypeOK
<1>5. AllIntact'
    BY <1>1, <1>3 DEF AllIntact, Intact
<1>6. Stage(c)'
    BY IdleStage
<1> QED
    BY <1>3, <1>4, <1>5, <1>6, StageOfOne

(* realloc() that moves no buffer down keeps the invariant.                *)
THEOREM UpNextRInv ==
    ASSUME SingleCaller, RInv, [UpNext]_rvars
    PROVE  RInv'
<1>1. CASE UpNext
  <2>1. PICK c \in Callers :
            \/ MallocStep(c)
            \/ CopyOld(c)
            \/ \E b \in Units, n \in 1 .. MaxRequest : ReallocSame(c, b, n) \/ ReallocMove(c, b, n)
            \/ /\ move[c].pc = "idle"
               /\ \/ \E n \in 1 .. MaxRequest : AllocBegin(c, n)
                  \/ \E b \in Units : Dealloc(c, b)
               /\ UNCHANGED <<data, move>>
      BY <1>1 DEF UpNext, ReallocNext
  <2>2. move'[c].pc = "copy" => move'[c].new >= move'[c].old
      BY <1>1 DEF UpNext
  <2>3. CASE MallocStep(c)
      BY <2>2, <2>3, MallocStepRInv
  <2>4. CASE CopyOld(c)
      BY <2>4, CopyOldRInv
  <2>5. ASSUME NEW b \in Units, NEW n \in 1 .. MaxRequest, ReallocSame(c, b, n)
        PROVE  RInv'
      BY <2>5, ReallocSameRInv
  <2>6. ASSUME NEW b \in Units, NEW n \in 1 .. MaxRequest, ReallocMove(c, b, n)
        PROVE  RInv'
      BY <2>6, ReallocMoveRInv
  <2>7. CASE /\ move[c].pc = "idle"
             /\ \/ \E n \in 1 .. MaxRequest : AllocBegin(c, n)
                \/ \E b \in Units : Dealloc(c, b)
             /\ UNCHANGED <<data, move>>
      BY <2>7, OtherCallsRInv
  <2> QED
      BY <2>1, <2>3, <2>4, <2>5, <2>6, <2>7
<1>2. CASE UNCHANGED rvars
  <2>1. UNCHANGED vars /\ data' = data /\ move' = move
      BY <1>2 DEF rvars
  <2>2. IInv'
      BY <2>1, StutterIInv DEF RInv
  <2>3. live' = live /\ call' = call /\ mem' = mem
      BY <2>1 DEF vars
  <2>4. DataTypeOK' /\ AllIntact'
      BY <2>1, <2>3 DEF RInv, DataTypeOK, AllIntact, Intact
  <2>5. ASSUME NEW c \in Callers PROVE Stage(c)'
    <3>1. Stage(c)
        BY DEF RInv
    <3>2. OldKept(c)'
        BY <2>1, <3>1 DEF Stage, OldKept, Intact
    <3>3. Allocating(c)' /\ Copying(c)'
        BY <2>1, <2>3, <3>1 DEF Stage, Allocating, Copying
    <3> QED
        BY <3>2, <3>3 DEF Stage
  <2> QED
      BY <2>2, <2>4, <2>5 DEF RInv
<1> QED
    BY <1>1, <1>2 DEF UpNext

(* The inductive invariant of realloc() with malloc() and free(): besides  *)
(* that of the heap, what each call is in the middle of, and that every    *)
(* block holds what its owner had in it.                                   *)
THEOREM ReallocInvariance ==
    ASSUME SingleCaller
    PROVE  ReallocUpSpec => []RInv
<1>1. RInv /\ [UpNext]_rvars => RInv'
    BY UpNextRInv
<1> QED
    BY <1>1, InitRInv, PTL DEF ReallocUpSpec

(* The types of realloc()'s state.                                         *)
THEOREM ReallocTypes ==
    ASSUME SingleCaller
    PROVE  ReallocUpSpec => []ReallocTypeOK
<1>1. RInv => ReallocTypeOK
    BY DEF RInv, IInv, DataTypeOK, ReallocTypeOK
<1> QED
    BY <1>1, ReallocInvariance, PTL

(* A block that realloc() is about to copy to was nobody's before.         *)
LEMMA CopyTargetIsNew ==
    ASSUME SingleCaller, RInv, UpNext, NEW c \in Callers, NEW p \in Units,
           live[p] # 0, move'[c].pc = "copy", move'[c].new = p
    PROVE  move[c].pc = "copy" /\ move[c].new = p
<1>1. IInv /\ DataTypeOK /\ move \in [Callers -> Move]
    BY DEF RInv, DataTypeOK
<1>2. PICK d \in Callers :
          \/ MallocStep(d)
          \/ CopyOld(d)
          \/ \E b \in Units, n \in 1 .. MaxRequest : ReallocSame(d, b, n) \/ ReallocMove(d, b, n)
          \/ UNCHANGED <<data, move>>
    BY DEF UpNext, ReallocNext
<1>3. d = c
    BY DEF SingleCaller
<1>4. CASE UNCHANGED move
    BY <1>4
<1>5. CASE MallocStep(d) /\ ~ UNCHANGED move
  <2> DEFINE given == CHOOSE b \in Units : live[b] # live'[b]
  <2>1. /\ Malloc(c) /\ call'[c].pc = "idle"
        /\ move' = [move EXCEPT ![c].pc = "copy", ![c].new = given]
    <3>1. /\ Malloc(c)
          /\ CASE call'[c].pc # "idle" -> UNCHANGED <<data, move>>
               [] call'[c].pc = "idle" /\ move[c].pc = "idle" ->
                      data' = Filled(data, given, live'[given]) /\ UNCHANGED move
               [] call'[c].pc = "idle" /\ move[c].pc = "alloc" ->
                      /\ move' = [move EXCEPT ![c].pc = "copy", ![c].new = given]
                      /\ UNCHANGED data
        BY <1>3, <1>5 DEF MallocStep
    <3>2. call[c].pc = "walk"
        BY <3>1 DEF Malloc, AllocWalk, AllocPerfect, AllocExtend, AllocSplit, AllocWhole,
                    WalkedAll, BestFit, Walking
    <3>3. move[c].pc \in {"idle", "alloc"}
      <4>1. Copying(c)
          BY DEF RInv, Stage
      <4>2. move[c].pc \in {"idle", "alloc", "copy"}
          BY <1>1 DEF Move
      <4> QED
          BY <3>2, <4>1, <4>2 DEF Copying
    <3> HIDE DEF given
    <3> QED
        BY <1>5, <3>1, <3>3
  <2>2. Served(c)
    <3>1. Served(c) \/ call'[c].pc = "walk"
        BY <1>1, <2>1, WalkGoesOn
    <3> QED
        BY <2>1, <3>1
  <2>3. PICK u \in Units : live[u] = 0 /\ given = u
      BY <1>1, <2>2, GivenIsServed
  <2> HIDE DEF given
  <2>4. move'[c].new = u
      BY <1>1, <2>1, <2>3 DEF Move
  <2> QED
      BY <2>3, <2>4
<1>6. CASE CopyOld(d)
  <2>1. move' = [move EXCEPT ![c] = Still]
      BY <1>3, <1>6 DEF CopyOld
  <2> QED
      BY <1>1, <2>1 DEF Still
<1>7. ASSUME NEW b \in Units, NEW n \in 1 .. MaxRequest, ReallocMove(d, b, n)
      PROVE  FALSE
  <2>1. PICK v : move' = [move EXCEPT ![c] = v] /\ v.pc = "alloc"
      BY <1>3, <1>7 DEF ReallocMove
  <2> QED
      BY <1>1, <2>1
<1>8. ASSUME NEW b \in Units, NEW n \in 1 .. MaxRequest, ReallocSame(d, b, n)
      PROVE  UNCHANGED move
    BY <1>8 DEF ReallocSame
<1> QED
    BY <1>2, <1>4, <1>5, <1>6, <1>7, <1>8

LEMMA StepKeepsOthers ==
    ASSUME SingleCaller, RInv, RInv', [UpNext]_rvars,
           NEW p \in Units, live[p] # 0, live'[p] = live[p],
           \A c \in Callers : move[c].pc = "copy" => move[c].new # p
    PROVE  \A i \in 0 .. live[p] - 1 : data'[p + i] = data[p + i]
<1>1. Intact(p, live[p])
    BY DEF RInv, AllIntact
<1>2. CASE UNCHANGED rvars
    BY <1>2 DEF rvars
<1>3. CASE UpNext
  <2>1. ASSUME NEW c \in Callers, move'[c].pc = "copy" PROVE move'[c].new # p
    <3>1. move'[c].new = p => move[c].pc = "copy" /\ move[c].new = p
        BY <1>3, <2>1, CopyTargetIsNew
    <3> QED
        BY <3>1
  <2>2. Intact(p, live[p])'
      BY <2>1 DEF RInv, AllIntact
  <2> QED
      BY <1>1, <2>2 DEF Intact
<1> QED
    BY <1>2, <1>3

(* realloc() that moves no buffer down loses nothing of what is allocated, *)
(* tags, contents and what is not its own, for any size of the heap and    *)
(* of the requests.                                                        *)
THEOREM ReallocKeepsData ==
    ASSUME SingleCaller
    PROVE  ReallocUpSpec => DataKept
<1>1. RInv => ContentsKept /\ WellFormed /\ NeverTrashed
  <2>1. RInv => ContentsKept
      BY DEF RInv, AllIntact, Intact, ContentsKept
  <2> QED
      BY <2>1 DEF RInv, IInv
<1>2. RInv /\ RInv' /\ [UpNext]_rvars =>
          [\A p \in Units : live[p] # 0 /\ live'[p] = live[p]
               /\ (\A c \in Callers : move[c].pc = "copy" => move[c].new # p) =>
                   \A i \in 0 .. live[p] - 1 : data'[p + i] = data[p + i]]_rvars
  <2> SUFFICES ASSUME RInv, RInv', [UpNext]_rvars
               PROVE  \A p \in Units : live[p] # 0 /\ live'[p] = live[p]
                          /\ (\A c \in Callers : move[c].pc = "copy" => move[c].new # p) =>
                              \A i \in 0 .. live[p] - 1 : data'[p + i] = data[p + i]
      OBVIOUS
  <2> QED
      BY StepKeepsOthers
<1> QED
    BY <1>1, <1>2, ReallocInvariance, PTL DEF ReallocUpSpec, DataKept, OthersIntact

=============================================================================
