----------------------------- MODULE FilesProofs -----------------------------
(***************************************************************************)
(* Proofs about the open files (Files), for any number of processes, files,*)
(* cells of memory and handles to a page: every variable keeps its type,   *)
(* what handles lead to is there, and a handle means the file it was opened*)
(* for until it is closed.                                                 *)
(*                                                                         *)
(* What it takes is that no cell is led to twice, for vfs_close() frees the*)
(* node of a file without asking who else has it, and that a handle that   *)
(* has been picked stays free until it is filled in.                       *)
(***************************************************************************)
EXTENDS Files, SequenceTheorems, WellFoundedInduction, TLAPS

-----------------------------------------------------------------------------
(* The inductive invariant                                                 *)

Opening == {"walk", "store"}

(* Of a process that is not there, nothing is left.                        *)
DeadClear ==
    \A p \in Procs \ alive : node[p] = NoHandles /\ op[p] = Idle

(* The handle vfs_open() has picked is free, and the one the kernel uses   *)
(* leads to the node it was opened on.                                     *)
Underway(p) ==
    /\ op[p].pc = "idle" => op[p] = Idle
    /\ op[p].pc = "walk" => op[p].node = None
    /\ op[p].pc = "store" => op[p].node \in Nodes
    /\ op[p].pc \in Opening =>
          /\ op[p].table \in {p, Kernel} /\ op[p].slot \in Slots
          /\ op[p].slot \in paged[op[p].table] /\ op[p].slot < LastOf(op[p].table)
          /\ node[op[p].table][op[p].slot] = None
    /\ op[p].pc = "using" =>
          /\ op[p].table = Kernel /\ op[p].slot \in Slots /\ op[p].node \in Nodes
          /\ node[Kernel][op[p].slot] = op[p].node

(* In the kernel's table one at a time opens a file, and none uses the     *)
(* handle of another.                                                      *)
KernelOne ==
    \A p, q \in Procs : p # q =>
        /\ ~ (/\ op[p].pc \in Opening /\ op[p].table = Kernel
              /\ op[q].pc \in Opening /\ op[q].table = Kernel)
        /\ ~ (op[p].pc = "using" /\ op[q].pc = "using" /\ op[p].slot = op[q].slot)

(* One handle, or one call of vfs_open(), leads to a cell.                 *)
Unshared ==
    /\ \A t, u \in Tables, i, j \in Slots :
           node[t][i] \in Cells /\ node[t][i] = node[u][j] => t = u /\ i = j
    /\ \A p \in Procs : op[p].pc = "store" /\ op[p].node \in Cells =>
           /\ \A t \in Tables, i \in Slots : node[t][i] # op[p].node
           /\ \A q \in Procs : q # p => op[q].node # op[p].node

Named == \A c \in Range(cache) : inode[c] \in Files

(* NodesLive, one pointer at a time.                                       *)
Live ==
    /\ \A t \in Tables, i \in Slots : node[t][i] \in Cells => node[t][i] \in Range(cache)
    /\ \A p \in Procs : op[p].node \in Cells => op[p].node \in Range(cache)

FilesInv ==
    /\ TypeOK /\ Live /\ OneEntry /\ HandlesHaveMemory
    /\ DeadClear /\ (\A p \in Procs : Underway(p)) /\ KernelOne /\ Unshared /\ Named

-----------------------------------------------------------------------------
(* Numbers and lists                                                       *)

LessNat == {ss \in Nat \X Nat : ss[1] < ss[2]}

LEMMA LeastExists ==
    ASSUME NEW S \in SUBSET Nat, S # {}
    PROVE  \E x \in S : \A y \in S : x <= y
<1>1. IsWellFoundedOn(LessNat, Nat)
  BY NatLessThanWellFounded DEF OpToRel, LessNat
<1>2. \E x \in S : \A y \in S : ~ (<<y, x>> \in LessNat)
  BY <1>1, WFMin, Zenon
<1>3. PICK x \in S : \A y \in S : ~ (<<y, x>> \in LessNat)
  BY <1>2
<1>4. \A y \in S : x <= y
  <2>1. SUFFICES ASSUME NEW y \in S, y < x PROVE FALSE
    OBVIOUS
  <2>2. <<y, x>> \in Nat \X Nat /\ <<y, x>>[1] < <<y, x>>[2]
    BY <2>1
  <2> QED
    BY <1>3, <2>2 DEF LessNat
<1> QED
  BY <1>4

(* An entry that is taken out of a list.                                   *)
LEMMA RemoveAtFacts ==
    ASSUME NEW S, NEW s \in Seq(S), NEW k \in 1 .. Len(s)
    PROVE  /\ RemoveAt(s, k) \in Seq(S)
           /\ Len(RemoveAt(s, k)) = Len(s) - 1
           /\ \A i \in 1 .. Len(s) - 1 : RemoveAt(s, k)[i] = IF i < k THEN s[i] ELSE s[i + 1]
<1>1. Len(s) \in Nat /\ k \in Nat /\ k >= 1 /\ k <= Len(s)
  OBVIOUS
<1> DEFINE a == SubSeq(s, 1, k - 1)
           b == SubSeq(s, k + 1, Len(s))
<1>2. a \in Seq(S) /\ Len(a) = k - 1 /\ \A i \in 1 .. k - 1 : a[i] = s[i]
  BY <1>1
<1>3. b \in Seq(S) /\ Len(b) = Len(s) - k /\ \A i \in 1 .. Len(s) - k : b[i] = s[k + i]
  BY <1>1
<1>4. RemoveAt(s, k) = a \o b
  BY DEF RemoveAt
<1> HIDE DEF a, b
<1>5. a \o b \in Seq(S) /\ Len(a \o b) = Len(s) - 1
  <2>1. a \in Seq(S) /\ b \in Seq(S)
    BY <1>2, <1>3
  <2>2. a \o b \in Seq(S) /\ Len(a \o b) = Len(a) + Len(b)
    BY <2>1, ConcatProperties
  <2> QED
    BY <1>1, <1>2, <1>3, <2>2
<1>6. ASSUME NEW i \in 1 .. Len(s) - 1 PROVE (a \o b)[i] = IF i < k THEN s[i] ELSE s[i + 1]
  <2>1. CASE i < k
    BY <1>1, <1>2, <1>3, <2>1
  <2>2. CASE ~ (i < k)
    <3>1. (a \o b)[i] = b[i - (k - 1)]
      BY <1>1, <1>2, <1>3, <2>2
    <3>2. b[i - (k - 1)] = s[i + 1]
      <4>1. i - (k - 1) \in 1 .. Len(s) - k /\ k + (i - (k - 1)) = i + 1
        BY <1>1, <2>2
      <4> QED
        BY <1>3, <4>1
    <3> QED
      BY <2>2, <3>1, <3>2
  <2> QED
    BY <2>1, <2>2
<1>7. Len(RemoveAt(s, k)) = Len(s) - 1 /\ RemoveAt(s, k) \in Seq(S)
  BY <1>4, <1>5
<1>8. \A i \in 1 .. Len(s) - 1 : RemoveAt(s, k)[i] = IF i < k THEN s[i] ELSE s[i + 1]
  BY <1>4, <1>6, Zenon
<1> QED
  BY <1>7, <1>8

LEMMA RemoveAtRange ==
    ASSUME NEW S, NEW s \in Seq(S), NEW k \in 1 .. Len(s)
    PROVE  /\ Range(RemoveAt(s, k)) \subseteq Range(s)
           /\ \A x \in Range(s) : x # s[k] => x \in Range(RemoveAt(s, k))
<1> DEFINE u == RemoveAt(s, k)
<1>1. u \in Seq(S) /\ Len(u) = Len(s) - 1
      /\ \A i \in 1 .. Len(s) - 1 : u[i] = IF i < k THEN s[i] ELSE s[i + 1]
  BY RemoveAtFacts
<1> HIDE DEF u
<1>2. Len(s) \in Nat /\ DOMAIN s = 1 .. Len(s) /\ DOMAIN u = 1 .. Len(s) - 1
  BY <1>1
<1>3. ASSUME NEW i \in 1 .. Len(s) - 1 PROVE u[i] \in Range(s)
  <2>1. i \in 1 .. Len(s) /\ i + 1 \in 1 .. Len(s)
    BY <1>2
  <2> QED
    BY <1>1, <1>2, <2>1 DEF Range
<1>4. ASSUME NEW i \in 1 .. Len(s), s[i] # s[k] PROVE s[i] \in Range(u)
  <2>1. CASE i < k
    <3>1. i \in 1 .. Len(s) - 1 /\ u[i] = s[i]
      BY <1>1, <1>2, <2>1
    <3> QED
      BY <1>2, <3>1 DEF Range
  <2>2. CASE i > k
    <3>1. i - 1 \in 1 .. Len(s) - 1 /\ ~ (i - 1 < k) /\ (i - 1) + 1 = i
      BY <1>2, <2>2
    <3>2. u[i - 1] = s[i]
      BY <1>1, <3>1
    <3> QED
      BY <1>2, <3>1, <3>2 DEF Range
  <2> QED
    BY <1>4, <2>1, <2>2
<1> QED
  BY <1>2, <1>3, <1>4 DEF Range, u

LEMMA PushFacts ==
    ASSUME NEW S, NEW s \in Seq(S), NEW x \in S
    PROVE  /\ <<x>> \o s \in Seq(S) /\ Len(<<x>> \o s) = Len(s) + 1
           /\ (<<x>> \o s)[1] = x
           /\ \A i \in 2 .. Len(s) + 1 : (<<x>> \o s)[i] = s[i - 1]
           /\ Range(<<x>> \o s) = {x} \cup Range(s)
<1>1. /\ <<x>> \o s \in Seq(S) /\ Len(<<x>> \o s) = Len(s) + 1
      /\ (<<x>> \o s)[1] = x
      /\ \A i \in 2 .. Len(s) + 1 : (<<x>> \o s)[i] = s[i - 1]
  OBVIOUS
<1> DEFINE u == <<x>> \o s
<1>2. DOMAIN u = 1 .. Len(s) + 1 /\ DOMAIN s = 1 .. Len(s) /\ Len(s) \in Nat
  BY <1>1
<1> HIDE DEF u
<1>3. ASSUME NEW i \in 1 .. Len(s) + 1 PROVE u[i] \in {x} \cup Range(s)
  <2>1. CASE i = 1
    BY <1>1, <2>1 DEF u
  <2>2. CASE i # 1
    <3>1. i \in 2 .. Len(s) + 1 /\ i - 1 \in 1 .. Len(s)
      BY <1>2, <2>2
    <3>2. u[i] = s[i - 1]
      BY <1>1, <3>1 DEF u
    <3> QED
      BY <1>2, <3>1, <3>2 DEF Range
  <2> QED
    BY <2>1, <2>2
<1>4. x \in Range(u)
  <2>1. 1 \in 1 .. Len(s) + 1 /\ u[1] = x
    BY <1>1, <1>2 DEF u
  <2> QED
    BY <1>2, <2>1 DEF Range
<1>5. ASSUME NEW i \in 1 .. Len(s) PROVE s[i] \in Range(u)
  <2>1. i + 1 \in 2 .. Len(s) + 1 /\ i + 1 \in 1 .. Len(s) + 1 /\ (i + 1) - 1 = i
    BY <1>2
  <2>2. u[i + 1] = s[i]
    BY <1>1, <2>1 DEF u
  <2> QED
    BY <1>2, <2>1, <2>2 DEF Range
<1>6. Range(u) = {x} \cup Range(s)
  BY <1>2, <1>3, <1>4, <1>5 DEF Range
<1> QED
  BY <1>1, <1>6 DEF u

-----------------------------------------------------------------------------
(* The inode cache                                                         *)

(* inode_uncacheNode() takes at most one entry out, which is not the first *)
(* and has the file it is called with.                                     *)
LEMMA UncachedCases ==
    ASSUME NEW s \in Seq(Cells), NEW f
    PROVE  \/ Uncached(s, f) = s
           \/ \E k \in 2 .. Len(s) : inode[s[k]] = f /\ Uncached(s, f) = RemoveAt(s, k)
<1> DEFINE at == {i \in 2 .. Len(s) : inode[s[i]] = f}
<1>1. CASE at = {}
  BY <1>1 DEF Uncached
<1>2. CASE at # {}
  <2>1. at \in SUBSET Nat
    OBVIOUS
  <2> HIDE DEF at
  <2>2. \E i \in at : \A j \in at : i <= j
    BY <1>2, <2>1, LeastExists
  <2>3. (CHOOSE i \in at : \A j \in at : i <= j) \in at
    BY <2>2
  <2>4. Uncached(s, f) = RemoveAt(s, CHOOSE i \in at : \A j \in at : i <= j)
    BY <1>2 DEF Uncached, at
  <2> QED
    BY <2>3, <2>4 DEF at
<1> QED
  BY <1>1, <1>2

(* The entries of s are of different cells and files.                      *)
Distinct(s) ==
    \A i, j \in 1 .. Len(s) : i # j => s[i] # s[j] /\ inode[s[i]] # inode[s[j]]

LEMMA UncachedKeeps ==
    ASSUME NEW s \in Seq(Cells), NEW f, Distinct(s)
    PROVE  /\ Uncached(s, f) \in Seq(Cells)
           /\ Distinct(Uncached(s, f))
           /\ Range(Uncached(s, f)) \subseteq Range(s)
           /\ \A c \in Range(s) : inode[c] # f => c \in Range(Uncached(s, f))
<1>1. CASE Uncached(s, f) = s
  BY <1>1
<1>2. CASE \E k \in 2 .. Len(s) : inode[s[k]] = f /\ Uncached(s, f) = RemoveAt(s, k)
  <2>1. PICK k \in 2 .. Len(s) : inode[s[k]] = f /\ Uncached(s, f) = RemoveAt(s, k)
    BY <1>2
  <2>2. k \in 1 .. Len(s) /\ Len(s) \in Nat
    OBVIOUS
  <2>3. PICK u : u = RemoveAt(s, k)
    OBVIOUS
  <2>4. /\ u \in Seq(Cells) /\ Len(u) = Len(s) - 1
        /\ \A i \in 1 .. Len(s) - 1 : u[i] = IF i < k THEN s[i] ELSE s[i + 1]
    BY <2>2, <2>3, RemoveAtFacts
  <2>5. Range(u) \subseteq Range(s) /\ \A x \in Range(s) : x # s[k] => x \in Range(u)
    BY <2>2, <2>3, RemoveAtRange
  <2>6. ASSUME NEW i \in 1 .. Len(u), NEW j \in 1 .. Len(u), i # j
        PROVE  u[i] # u[j] /\ inode[u[i]] # inode[u[j]]
    <3>1. PICK m \in 1 .. Len(s) : m = IF i < k THEN i ELSE i + 1
      BY <2>2, <2>4
    <3>2. PICK n \in 1 .. Len(s) : n = IF j < k THEN j ELSE j + 1
      BY <2>2, <2>4
    <3>3. m # n
      BY <2>2, <2>6, <3>1, <3>2
    <3>4. u[i] = s[m] /\ u[j] = s[n]
      BY <2>4, <3>1, <3>2
    <3> QED
      BY <3>3, <3>4 DEF Distinct
  <2> QED
    BY <2>1, <2>3, <2>4, <2>5, <2>6 DEF Distinct
<1> QED
  BY <1>1, <1>2, UncachedCases

LEMMA CacheFacts ==
    ASSUME FilesInv
    PROVE  /\ cache \in Seq(Cells) /\ inode \in [Cells -> Files \cup {None}]
           /\ Distinct(cache)
           /\ Range(cache) \subseteq Cells
           /\ \A c, d \in Range(cache) : inode[c] = inode[d] => c = d
<1>1. cache \in Seq(Cells) /\ inode \in [Cells -> Files \cup {None}]
  BY DEF FilesInv, TypeOK
<1>2. DOMAIN cache = 1 .. Len(cache)
  BY <1>1
<1>3. Distinct(cache)
  BY <1>2 DEF FilesInv, OneEntry, Distinct
<1>4. Range(cache) \subseteq Cells
  BY <1>1, <1>2 DEF Range
<1>5. \A c, d \in Range(cache) : inode[c] = inode[d] => c = d
  BY <1>2, <1>3 DEF Range, Distinct
<1> QED
  BY <1>1, <1>3, <1>4, <1>5

(* A list of different entries, whose files are all known.                 *)
LEMMA OneEntryOf ==
    ASSUME FilesInv, NEW s \in Seq(Cells), Distinct(s), Range(s) \subseteq Range(cache),
           cache' = s, inode' = inode
    PROVE  OneEntry' /\ Named'
<1>1. DOMAIN s = 1 .. Len(s)
  OBVIOUS
<1> QED
  BY <1>1 DEF Distinct, OneEntry, Named, FilesInv

(* A file that is found has one entry, which was its own or was not one.   *)
LEMMA FoundKeeps ==
    ASSUME FilesInv, NEW f \in Files, NEW c \in Cells, Found(f, c), inode' = Filled(f, c)
    PROVE  /\ inode' \in [Cells -> Files \cup {None}] /\ inode'[c] = f
           /\ \A x \in Cells : x # c => inode'[x] = inode[x]
           /\ \A x \in Range(cache) : inode'[x] = inode[x]
           /\ c \in Range(cache) => inode[c] = f
           /\ cache' = Pushed(f, c) =>
                 /\ cache' \in Seq(Cells) /\ OneEntry' /\ Named'
                 /\ Range(cache') = {c} \cup Range(cache)
<1>1. /\ cache \in Seq(Cells) /\ inode \in [Cells -> Files \cup {None}]
      /\ Distinct(cache) /\ Range(cache) \subseteq Cells
      /\ \A x, y \in Range(cache) : inode[x] = inode[y] => x = y
  BY CacheFacts
<1>2. CASE Cached(f)
  <2>1. c \in Range(cache) /\ inode[c] = f /\ inode' = inode
    BY <1>2 DEF Found, Filled, Entry
  <2>2. cache' = Pushed(f, c) => cache' = cache
    BY <1>2 DEF Pushed
  <2>3. cache' = cache => OneEntry' /\ Named'
    BY <1>1, <2>1, OneEntryOf
  <2> QED
    BY <1>1, <2>1, <2>2, <2>3
<1>3. CASE ~ Cached(f)
  <2>1. c \notin Range(cache) /\ inode' = [inode EXCEPT ![c] = f]
    BY <1>3 DEF Found, Filled
  <2>2. \A x \in Range(cache) : inode[x] # f
    BY <1>3 DEF Cached, Entry
  <2>3. /\ inode' \in [Cells -> Files \cup {None}] /\ inode'[c] = f
        /\ \A x \in Cells : x # c => inode'[x] = inode[x]
        /\ \A x \in Range(cache) : inode'[x] = inode[x]
    BY <1>1, <2>1
  <2>4. ASSUME cache' = Pushed(f, c)
        PROVE  /\ cache' \in Seq(Cells) /\ OneEntry' /\ Named'
               /\ Range(cache') = {c} \cup Range(cache)
    <3>1. PICK u : u = <<c>> \o cache
      OBVIOUS
    <3>2. cache' = u
      BY <1>3, <2>4, <3>1 DEF Pushed
    <3>3. /\ u \in Seq(Cells) /\ Len(u) = Len(cache) + 1 /\ u[1] = c
          /\ \A i \in 2 .. Len(cache) + 1 : u[i] = cache[i - 1]
          /\ Range(u) = {c} \cup Range(cache)
      BY <1>1, <3>1, PushFacts
    <3>4. DOMAIN u = 1 .. Len(cache) + 1 /\ Len(cache) \in Nat /\ DOMAIN cache = 1 .. Len(cache)
      BY <1>1, <3>3
    <3>5. \A i \in 1 .. Len(cache) : cache[i] \in Range(cache)
      BY <3>4 DEF Range
    <3>6. ASSUME NEW i \in DOMAIN u, NEW j \in DOMAIN u, i # j
          PROVE  u[i] # u[j] /\ inode'[u[i]] # inode'[u[j]]
      <4>1. CASE i # 1 /\ j # 1
        <5>1. PICK m \in 1 .. Len(cache), n \in 1 .. Len(cache) : m = i - 1 /\ n = j - 1
          BY <3>4, <3>6, <4>1
        <5>2. u[i] = cache[m] /\ u[j] = cache[n] /\ m # n
          BY <3>3, <3>4, <3>6, <4>1, <5>1
        <5>3. cache[m] # cache[n] /\ inode[cache[m]] # inode[cache[n]]
          BY <1>1, <5>2 DEF Distinct
        <5> QED
          BY <2>3, <3>5, <5>2, <5>3
      <4>2. CASE i = 1
        <5>1. PICK n \in 1 .. Len(cache) : n = j - 1
          BY <3>4, <3>6, <4>2
        <5>2. u[j] = cache[n] /\ u[i] = c
          BY <3>3, <3>4, <3>6, <4>2, <5>1
        <5> QED
          BY <2>1, <2>2, <2>3, <3>5, <5>2
      <4>3. CASE j = 1
        <5>1. PICK n \in 1 .. Len(cache) : n = i - 1
          BY <3>4, <3>6, <4>3
        <5>2. u[i] = cache[n] /\ u[j] = c
          BY <3>3, <3>4, <3>6, <4>3, <5>1
        <5> QED
          BY <2>1, <2>2, <2>3, <3>5, <5>2
      <4> QED
        BY <4>1, <4>2, <4>3
    <3>7. OneEntry'
      BY <3>2, <3>6 DEF OneEntry
    <3>8. Named'
      BY <2>3, <3>2, <3>3 DEF FilesInv, Named
    <3> QED
      BY <3>2, <3>3, <3>7, <3>8
  <2> QED
    BY <2>1, <2>3, <2>4
<1> QED
  BY <1>2, <1>3

(* Nobody has a pointer to the node of a file that is not in use.          *)
LEMMA NotReferred ==
    ASSUME NEW f, ~ InUse(f), NEW c \in Cells, inode[c] = f
    PROVE  /\ \A t \in Tables, i \in Slots : node[t][i] # c
           /\ \A p \in Procs : op[p].node # c
<1>1. c \notin Referred
  BY DEF InUse
<1>2. ASSUME NEW t \in Tables, NEW i \in Slots PROVE node[t][i] \in Referred
  <2>1. PICK S : S = {node[t][j] : j \in Slots}
    OBVIOUS
  <2>2. node[t][i] \in S
    BY <2>1
  <2>3. S \in {{node[u][j] : j \in Slots} : u \in Tables}
    BY <2>1
  <2>4. node[t][i] \in UNION {{node[u][j] : j \in Slots} : u \in Tables}
    BY <2>2, <2>3
  <2> QED
    BY <2>4 DEF Referred
<1>3. \A p \in Procs : op[p].node \in Referred
  BY DEF Referred
<1> QED
  BY <1>1, <1>2, <1>3

(* Nor to a cell that is not on the list.                                  *)
LEMMA FoundNotReferred ==
    ASSUME FilesInv, NEW f \in Files, ~ InUse(f), NEW c \in Cells, Found(f, c)
    PROVE  /\ \A t \in Tables, i \in Slots : node[t][i] # c
           /\ \A p \in Procs : op[p].node # c
<1>1. CASE Cached(f)
  BY <1>1, NotReferred DEF Found, Entry
<1>2. CASE ~ Cached(f)
  BY <1>2 DEF Found, FilesInv, Live
<1> QED
  BY <1>1, <1>2

-----------------------------------------------------------------------------
(* Operations                                                              *)

LEMMA ConstantsOf ==
    /\ Kernel \notin Procs /\ Kernel \in Tables /\ Procs \subseteq Tables
    /\ None \notin Cells /\ None \notin Nodes /\ None \notin Files /\ Dir \notin Cells /\ Dir \in Nodes
    /\ Cells \subseteq Nodes /\ Dir # None
    /\ Idle \in Op /\ PerPage \in Nat /\ PerPage >= 1 /\ Slots \subseteq Nat
<1>1. MaxPages * PerPage \in Nat
  BY FilesConstants
<1> QED
  BY <1>1, FilesConstants DEF Tables, Nodes, Op, Idle, Slots

(* vfs_open() takes a handle that is free and that it has memory for.      *)
LEMMA SlotFree ==
    ASSUME FilesInv, NEW t \in Tables, 0 .. LastOf(t) - 1 \subseteq paged[t], Slot(t) \in Slots
    PROVE  /\ Scanned(t) \subseteq paged[t]
           /\ node[t][Slot(t)] = None
           /\ FreeSlots(t) # {} => Slot(t) \in paged[t] /\ Slot(t) < LastOf(t)
           /\ FreeSlots(t) = {} => Slot(t) = LastOf(t) /\ Slot(t) \in PageOf(Slot(t))
           /\ LastOf(t) \in Nat
<1>1. LastOf(t) \in Nat
  BY DEF FilesInv, TypeOK, LastOf
<1>2. CASE FreeSlots(t) = {}
  <2>1. Slot(t) = LastOf(t)
    BY <1>2 DEF Slot
  <2>2. node[t][Slot(t)] = None
    <3>1. ~ (LastOf(t) < LastOf(t))
      BY <1>1
    <3> QED
      BY <2>1, <3>1 DEF FilesInv, HandlesHaveMemory
  <2>3. Scanned(t) = 0 .. LastOf(t) - 1
    BY <1>2, <2>1 DEF Scanned
  <2>4. Slot(t) \in PageOf(Slot(t))
    BY DEF PageOf
  <2> QED
    BY <1>1, <1>2, <2>1, <2>2, <2>3, <2>4
<1>3. CASE FreeSlots(t) # {}
  <2>1. FreeSlots(t) \in SUBSET Nat
    BY <1>1 DEF FreeSlots
  <2>2. \E i \in FreeSlots(t) : \A j \in FreeSlots(t) : i <= j
    BY <1>3, <2>1, LeastExists
  <2>3. Slot(t) \in FreeSlots(t)
    BY <1>3, <2>2 DEF Slot
  <2>4. Slot(t) \in 0 .. LastOf(t) - 1 /\ node[t][Slot(t)] = None
    BY <2>3 DEF FreeSlots
  <2>5. Scanned(t) = 0 .. Slot(t)
    BY <1>3, <2>4 DEF Scanned
  <2>6. 0 .. Slot(t) \subseteq 0 .. LastOf(t) - 1
    BY <1>1, <2>4
  <2> QED
    BY <1>1, <1>3, <2>4, <2>5, <2>6
<1> QED
  BY <1>2, <1>3

(* What another process does to a table leaves those underway alone.       *)
LEMMA UnderwayStays ==
    ASSUME NEW q \in Procs, Underway(q), op'[q] = op[q],
           op[q].pc # "idle" =>
              /\ op[q].slot \in paged[op[q].table] => op[q].slot \in paged'[op[q].table]
              /\ op[q].slot < LastOf(op[q].table) => op[q].slot < LastOf(op[q].table)'
              /\ node'[op[q].table][op[q].slot] = node[op[q].table][op[q].slot],
           op[q].pc \in {"idle", "walk", "store", "using"}
    PROVE  Underway(q)'
<1>1. CASE op[q].pc = "idle"
  BY <1>1 DEF Underway, Opening
<1>2. CASE op[q].pc \in Opening
  BY <1>2 DEF Underway, Opening
<1>3. CASE op[q].pc = "using"
  BY <1>3 DEF Underway, Opening
<1> QED
  BY <1>1, <1>2, <1>3 DEF Opening

LEMMA LedToOnce ==
    ASSUME FilesInv, NEW t \in Tables, NEW u \in Tables, NEW i \in Slots, NEW j \in Slots,
           node[t][i] \in Cells, node[t][i] = node[u][j]
    PROVE  t = u /\ i = j
BY Zenon DEF FilesInv, Unshared

LEMMA OpenSlotKeeps ==
    ASSUME FilesInv, NEW p \in Procs, NEW t \in Tables, QuietSlot(p, t)
    PROVE  FilesInv'
<1>1. /\ Idles(p) /\ t \in {p, Kernel} /\ Slot(t) \in Slots /\ 0 .. LastOf(t) - 1 \subseteq paged[t]
      /\ t = Kernel => \A q \in Procs \ {p} : op[q].table # Kernel \/ op[q].pc = "using"
  BY DEF QuietSlot, OpenSlot
<1>2. /\ Scanned(t) \subseteq paged[t] /\ node[t][Slot(t)] = None /\ LastOf(t) \in Nat
      /\ FreeSlots(t) # {} => Slot(t) \in paged[t] /\ Slot(t) < LastOf(t)
      /\ FreeSlots(t) = {} => Slot(t) = LastOf(t) /\ Slot(t) \in PageOf(Slot(t))
  BY <1>1, SlotFree
<1>3. PICK s \in Slots : s = Slot(t)
  BY <1>1
<1>4. /\ op' = [op EXCEPT ![p] = [pc |-> "walk", table |-> t, slot |-> s, node |-> None]]
      /\ UNCHANGED <<alive, node, cache, inode, fault>>
      /\ \/ UNCHANGED <<last, paged>> /\ FreeSlots(t) # {}
         \/ /\ FreeSlots(t) = {}
            /\ last' = IF t = Kernel THEN [last EXCEPT !.kernel = @ + PerPage]
                       ELSE [last EXCEPT !.user = @ + PerPage]
            /\ paged' = [paged EXCEPT ![t] = @ \cup PageOf(s)]
  BY <1>2, <1>3 DEF QuietSlot, OpenSlot
<1>5. last \in [user : Nat, kernel : Nat] /\ paged \in [Tables -> SUBSET Slots] /\ op \in [Procs -> Op]
  BY DEF FilesInv, TypeOK
<1>6. last' \in [user : Nat, kernel : Nat] /\ paged' \in [Tables -> SUBSET Slots]
  BY <1>4, <1>5, ConstantsOf DEF PageOf
<1>7. \A u \in Tables : paged[u] \subseteq paged'[u] /\ LastOf(u) <= LastOf(u)'
  BY <1>4, <1>5, ConstantsOf DEF LastOf
<1>8. s \in paged'[t] /\ s < LastOf(t)'
  <2>1. CASE FreeSlots(t) # {}
    BY <1>2, <1>3, <1>4, <2>1 DEF LastOf
  <2>2. CASE FreeSlots(t) = {}
    <3>1. s \in PageOf(s) /\ s = LastOf(t)
      BY <1>2, <1>3, <2>2
    <3>2. s \in paged'[t]
      BY <1>4, <1>5, <2>2, <3>1
    <3>3. LastOf(t)' = LastOf(t) + PerPage
      BY <1>4, <1>5, <2>2 DEF LastOf
    <3> QED
      BY <1>2, <3>1, <3>2, <3>3, ConstantsOf
  <2> QED
    BY <2>1, <2>2
<1>9. /\ op'[p] = [pc |-> "walk", table |-> t, slot |-> s, node |-> None]
      /\ \A q \in Procs : q # p => op'[q] = op[q]
  BY <1>4, <1>5
<1>10. op'[p] \in Op /\ op' \in [Procs -> Op]
  BY <1>4, <1>5, <1>9 DEF Op
<1>11. TypeOK'
  BY <1>4, <1>6, <1>10 DEF FilesInv, TypeOK
<1>12. Live' /\ OneEntry' /\ Named'
  BY <1>4, <1>9, ConstantsOf DEF FilesInv, Live, OneEntry, Named
<1>13. HandlesHaveMemory'
  <2>1. ASSUME NEW u \in Tables, NEW i \in Slots, node[u][i] # None
        PROVE  i \in paged'[u] /\ i < LastOf(u)'
    <3>1. i \in paged[u] /\ i < LastOf(u) /\ LastOf(u) \in Nat /\ LastOf(u)' \in Nat /\ i \in Nat
      BY <1>5, <1>6, <2>1, ConstantsOf DEF FilesInv, HandlesHaveMemory, LastOf
    <3> QED
      BY <1>7, <3>1
  <2> QED
    BY <1>4, <2>1 DEF FilesInv, HandlesHaveMemory
<1>14. DeadClear'
  BY <1>1, <1>4, <1>9 DEF FilesInv, DeadClear, Idles
<1>15. ASSUME NEW q \in Procs PROVE Underway(q)'
  <2>1. CASE q = p
    BY <1>1, <1>2, <1>3, <1>4, <1>8, <1>9, <2>1 DEF Underway, Opening
  <2>2. CASE q # p
    <3>1. Underway(q) /\ op'[q] = op[q] /\ op[q] \in Op
      BY <1>5, <1>9, <2>2 DEF FilesInv
    <3>2. ASSUME op[q].pc # "idle"
          PROVE  /\ op[q].slot \in paged[op[q].table] => op[q].slot \in paged'[op[q].table]
                 /\ op[q].slot < LastOf(op[q].table) => op[q].slot < LastOf(op[q].table)'
                 /\ node'[op[q].table][op[q].slot] = node[op[q].table][op[q].slot]
      <4>1. PICK u \in Tables, i \in Nat : u = op[q].table /\ i = op[q].slot
        BY <3>1, <3>2, ConstantsOf DEF Underway, Opening, Op
      <4>2. LastOf(u) \in Nat /\ LastOf(u)' \in Nat
        BY <1>5, <1>6 DEF LastOf
      <4>3. i < LastOf(u) => i < LastOf(u)'
        BY <1>7, <4>1, <4>2
      <4>4. i \in paged[u] => i \in paged'[u]
        BY <1>7
      <4> QED
        BY <1>4, <3>1, <4>1, <4>3, <4>4
    <3> QED
      BY <3>1, <3>2, UnderwayStays DEF Op
  <2> QED
    BY <2>1, <2>2
<1>16. KernelOne'
  BY <1>1, <1>9 DEF FilesInv, KernelOne, Opening
<1>17. Unshared'
  BY <1>4, <1>9, ConstantsOf DEF FilesInv, Unshared
<1> QED
  BY <1>11, <1>12, <1>13, <1>14, <1>15, <1>16, <1>17 DEF FilesInv

(* A process goes on with its call, and the tables stay as they are.       *)
LEMMA GoesOn ==
    ASSUME FilesInv, NEW p \in Procs, p \in alive, NEW o \in Op, op' = [op EXCEPT ![p] = o],
           UNCHANGED <<alive, last, paged, node, fault>>,
           Underway(p)',
           o.pc \in Opening => op[p].pc \in Opening /\ op[p].table = o.table,
           o.pc = "using" => op[p].pc = "using" /\ o.slot = op[p].slot
    PROVE  /\ \A q \in Procs : op'[q] = IF q = p THEN o ELSE op[q]
           /\ op' \in [Procs -> Op] /\ HandlesHaveMemory' /\ DeadClear'
           /\ \A q \in Procs : Underway(q)'
           /\ KernelOne'
<1>1. op \in [Procs -> Op]
  BY DEF FilesInv, TypeOK
<1>2. op' \in [Procs -> Op] /\ op'[p] = o /\ \A q \in Procs : q # p => op'[q] = op[q]
  BY <1>1
<1>3. HandlesHaveMemory'
  BY DEF FilesInv, HandlesHaveMemory, LastOf
<1>4. DeadClear'
  BY <1>2 DEF FilesInv, DeadClear
<1>5. ASSUME NEW q \in Procs, q # p PROVE Underway(q)'
  <2>1. Underway(q) /\ op'[q] = op[q] /\ op[q] \in Op
    BY <1>1, <1>2, <1>5 DEF FilesInv
  <2>2. op'[q].table = op[q].table /\ op'[q].slot = op[q].slot
    BY <2>1
  <2>3. op[q].slot < LastOf(op[q].table) => op[q].slot < LastOf(op[q].table)'
    BY <2>1, <2>2 DEF LastOf
  <2> QED
    BY <2>1, <2>3, UnderwayStays DEF Op
<1>6. \A q \in Procs : Underway(q)'
  BY <1>5
<1>7. KernelOne'
  BY <1>2 DEF FilesInv, KernelOne
<1>8. \A q \in Procs : op'[q] = IF q = p THEN o ELSE op[q]
  BY <1>2
<1> QED
  BY <1>2, <1>3, <1>4, <1>6, <1>7, <1>8

(* Whoever is in a call is there.                                          *)
LEMMA AtWork ==
    ASSUME FilesInv, NEW p \in Procs, op[p].pc # "idle"
    PROVE  p \in alive /\ op[p] \in Op /\ op \in [Procs -> Op]
BY DEF FilesInv, DeadClear, Idle, TypeOK

LEMMA OpenFindKeeps ==
    ASSUME FilesInv, NEW p \in Procs, NEW f \in Files, QuietFind(p, f)
    PROVE  FilesInv'
<1>1. PICK c \in Cells :
        /\ op[p].pc = "walk" /\ Found(f, c) /\ cache' = Pushed(f, c) /\ inode' = Filled(f, c)
        /\ op' = [op EXCEPT ![p].pc = "store", ![p].node = c]
        /\ UNCHANGED <<alive, last, paged, node, fault>>
        /\ ~ InUse(f)
  BY DEF QuietFind, OpenFind
<1>2. /\ inode' \in [Cells -> Files \cup {None}]
      /\ cache' \in Seq(Cells) /\ OneEntry' /\ Named' /\ Range(cache') = {c} \cup Range(cache)
  BY <1>1, FoundKeeps
<1>3. /\ \A t \in Tables, i \in Slots : node[t][i] # c
      /\ \A q \in Procs : op[q].node # c
  BY <1>1, FoundNotReferred
<1>4. p \in alive /\ op[p] \in Op /\ op \in [Procs -> Op]
  BY <1>1, AtWork
<1>5. PICK o : o = [op[p] EXCEPT !.pc = "store", !.node = c]
  OBVIOUS
<1>6. /\ o \in Op /\ o.pc = "store" /\ o.node = c /\ o.table = op[p].table /\ o.slot = op[p].slot
      /\ op' = [op EXCEPT ![p] = o]
  BY <1>1, <1>4, <1>5, ConstantsOf DEF Op
<1>7. Underway(p)'
  <2>1. op'[p] = o
    BY <1>4, <1>6
  <2>2. Underway(p)
    BY DEF FilesInv
  <2> QED
    BY <1>1, <1>6, <2>1, <2>2, ConstantsOf DEF Underway, Opening, LastOf
<1>8. /\ \A q \in Procs : op'[q] = IF q = p THEN o ELSE op[q]
      /\ op' \in [Procs -> Op] /\ HandlesHaveMemory' /\ DeadClear'
      /\ \A q \in Procs : Underway(q)'
      /\ KernelOne'
  BY <1>1, <1>4, <1>6, <1>7, GoesOn DEF Opening
<1>9. TypeOK'
  BY <1>1, <1>2, <1>8 DEF FilesInv, TypeOK
<1>10. Live'
  BY <1>1, <1>2, <1>6, <1>8 DEF FilesInv, Live
<1>11. Unshared'
  BY <1>1, <1>3, <1>6, <1>8 DEF FilesInv, Unshared
<1> QED
  BY <1>2, <1>8, <1>9, <1>10, <1>11 DEF FilesInv

LEMMA OpenDirKeeps ==
    ASSUME FilesInv, NEW p \in Procs, OpenDir(p)
    PROVE  FilesInv'
<1>1. /\ op[p].pc = "walk"
      /\ op' = [op EXCEPT ![p].pc = "store", ![p].node = Dir]
      /\ UNCHANGED <<alive, last, paged, node, cache, inode, fault>>
  BY DEF OpenDir
<1>2. p \in alive /\ op[p] \in Op /\ op \in [Procs -> Op]
  BY <1>1, AtWork
<1>3. PICK o : o = [op[p] EXCEPT !.pc = "store", !.node = Dir]
  OBVIOUS
<1>4. /\ o \in Op /\ o.pc = "store" /\ o.node = Dir /\ o.table = op[p].table /\ o.slot = op[p].slot
      /\ op' = [op EXCEPT ![p] = o]
  BY <1>1, <1>2, <1>3, ConstantsOf DEF Op
<1>5. Underway(p)'
  <2>1. op'[p] = o
    BY <1>2, <1>4
  <2>2. Underway(p)
    BY DEF FilesInv
  <2> QED
    BY <1>1, <1>4, <2>1, <2>2, ConstantsOf DEF Underway, Opening, LastOf
<1>6. /\ \A q \in Procs : op'[q] = IF q = p THEN o ELSE op[q]
      /\ op' \in [Procs -> Op] /\ HandlesHaveMemory' /\ DeadClear'
      /\ \A q \in Procs : Underway(q)'
      /\ KernelOne'
  BY <1>1, <1>2, <1>4, <1>5, GoesOn DEF Opening
<1>7. TypeOK' /\ OneEntry' /\ Named'
  BY <1>1, <1>6 DEF FilesInv, TypeOK, OneEntry, Named
<1>8. Live'
  BY <1>1, <1>4, <1>6, ConstantsOf DEF FilesInv, Live
<1>9. Unshared'
  BY <1>1, <1>4, <1>6, ConstantsOf DEF FilesInv, Unshared
<1> QED
  BY <1>6, <1>7, <1>8, <1>9 DEF FilesInv

(* A call that ends leaves nothing to be said of it.                       *)
LEMMA EndsKeeps ==
    ASSUME FilesInv, NEW p \in Procs, p \in alive, op' = [op EXCEPT ![p] = Idle],
           UNCHANGED <<alive, last, paged, node, cache, inode, fault>>
    PROVE  FilesInv'
<1>1. op \in [Procs -> Op]
  BY DEF FilesInv, TypeOK
<1>2. Idle \in Op /\ Idle.pc = "idle" /\ Idle.node = None
  BY ConstantsOf DEF Idle
<1>3. Underway(p)'
  BY <1>1, <1>2 DEF Underway, Opening
<1>4. /\ \A q \in Procs : op'[q] = IF q = p THEN Idle ELSE op[q]
      /\ op' \in [Procs -> Op] /\ HandlesHaveMemory' /\ DeadClear'
      /\ \A q \in Procs : Underway(q)'
      /\ KernelOne'
  BY <1>2, <1>3, GoesOn DEF Opening
<1>5. TypeOK' /\ OneEntry' /\ Named'
  BY <1>4 DEF FilesInv, TypeOK, OneEntry, Named
<1>6. Live'
  BY <1>2, <1>4, ConstantsOf DEF FilesInv, Live
<1>7. Unshared'
  BY <1>2, <1>4, ConstantsOf DEF FilesInv, Unshared
<1> QED
  BY <1>4, <1>5, <1>6, <1>7 DEF FilesInv

(* "Set handle info": the handle was free, and the node is no one else's.  *)
LEMMA OpenStoreKeeps ==
    ASSUME FilesInv, NEW p \in Procs, OpenStore(p)
    PROVE  FilesInv'
<1>1. /\ op[p].pc = "store"
      /\ UNCHANGED <<alive, last, paged, cache, inode, fault>>
  BY DEF OpenStore
<1>2. p \in alive /\ op[p] \in Op /\ op \in [Procs -> Op] /\ node \in [Tables -> [Slots -> Nodes \cup {None}]]
  BY <1>1, AtWork DEF FilesInv, TypeOK
<1>3. /\ op[p].table \in {p, Kernel} /\ op[p].slot \in Slots /\ op[p].node \in Nodes
      /\ op[p].slot \in paged[op[p].table] /\ op[p].slot < LastOf(op[p].table)
      /\ node[op[p].table][op[p].slot] = None
  BY <1>1 DEF FilesInv, Underway, Opening
<1>4. PICK t \in Tables, s \in Slots, n \in Nodes :
        t = op[p].table /\ s = op[p].slot /\ n = op[p].node
  BY <1>3, ConstantsOf
<1>5. node' = [node EXCEPT ![t][s] = n]
  BY <1>4 DEF OpenStore
<1>6. /\ node' \in [Tables -> [Slots -> Nodes \cup {None}]]
      /\ node'[t][s] = n
      /\ \A u \in Tables, i \in Slots : u # t \/ i # s => node'[u][i] = node[u][i]
  BY <1>2, <1>5
<1>7. PICK o : o = IF t = Kernel THEN [op[p] EXCEPT !.pc = "using"] ELSE Idle
  OBVIOUS
<1>8. /\ o \in Op /\ op' = [op EXCEPT ![p] = o]
      /\ IF t = Kernel THEN o.pc = "using" /\ o.node = n /\ o.table = t /\ o.slot = s
         ELSE o.pc = "idle" /\ o.node = None
  BY <1>2, <1>4, <1>7, ConstantsOf DEF OpenStore, Op, Idle
<1>9. op' \in [Procs -> Op] /\ op'[p] = o /\ \A q \in Procs : q # p => op'[q] = op[q]
  BY <1>2, <1>8
<1>10. TypeOK' /\ OneEntry' /\ Named'
  BY <1>1, <1>6, <1>9 DEF FilesInv, TypeOK, OneEntry, Named
<1>11. n \in Cells => n \in Range(cache)
  BY <1>4 DEF FilesInv, Live
<1>12. Live'
  BY <1>1, <1>4, <1>6, <1>8, <1>9, <1>11, ConstantsOf DEF FilesInv, Live
<1>13. HandlesHaveMemory'
  BY <1>1, <1>3, <1>4, <1>6 DEF FilesInv, HandlesHaveMemory, LastOf
<1>14. DeadClear'
  <2>1. ASSUME NEW q \in Procs \ alive PROVE node'[q] = NoHandles /\ op'[q] = Idle
    <3>1. q # t /\ q # p
      BY <1>2, <1>3, <1>4, ConstantsOf
    <3>2. node'[q] = node[q]
      BY <1>2, <1>5, <3>1, ConstantsOf
    <3> QED
      BY <1>9, <3>1, <3>2 DEF FilesInv, DeadClear
  <2> QED
    BY <1>1, <2>1 DEF DeadClear
<1>15. ASSUME NEW q \in Procs PROVE Underway(q)'
  <2>1. CASE q = p
    <3>1. CASE t = Kernel
      BY <1>3, <1>4, <1>6, <1>8, <1>9, <2>1, <3>1 DEF Underway, Opening
    <3>2. CASE t # Kernel
      BY <1>7, <1>8, <1>9, <2>1, <3>2 DEF Underway, Opening, Idle
    <3> QED
      BY <3>1, <3>2
  <2>2. CASE q # p
    <3>1. Underway(q) /\ op'[q] = op[q] /\ op[q] \in Op
      BY <1>2, <1>9, <2>2 DEF FilesInv
    <3>2. ASSUME op[q].pc # "idle"
          PROVE  node'[op[q].table][op[q].slot] = node[op[q].table][op[q].slot]
      <4>1. PICK u \in Tables, i \in Slots : u = op[q].table /\ i = op[q].slot
        BY <3>1, <3>2, ConstantsOf DEF Underway, Opening, Op
      <4>2. u # t \/ i # s
        <5>1. CASE op[q].pc \in Opening
          <6>1. op[q].table \in {q, Kernel}
            BY <3>1, <5>1 DEF Underway
          <6>2. ~ (op[q].table = Kernel /\ op[p].table = Kernel)
            BY <1>1, <2>2, <5>1 DEF FilesInv, KernelOne, Opening
          <6> QED
            BY <1>3, <1>4, <2>2, <4>1, <6>1, <6>2
        <5>2. CASE op[q].pc = "using"
          <6>1. node[u][i] \in Nodes
            BY <3>1, <4>1, <5>2 DEF Underway
          <6> QED
            BY <1>3, <1>4, <6>1, ConstantsOf
        <5> QED
          BY <3>1, <3>2, <5>1, <5>2 DEF Op, Opening
      <4> QED
        BY <1>6, <4>1, <4>2
    <3>3. op[q].slot < LastOf(op[q].table) => op[q].slot < LastOf(op[q].table)'
      <4>1. op'[q].table = op[q].table /\ op'[q].slot = op[q].slot
        BY <3>1
      <4> QED
        BY <1>1, <3>1, <4>1 DEF LastOf
    <3> QED
      BY <1>1, <3>1, <3>2, <3>3, UnderwayStays DEF Op
  <2> QED
    BY <2>1, <2>2
<1>16. KernelOne'
  <2>1. ASSUME NEW q \in Procs, q # p, op[q].pc = "using", t = Kernel PROVE op[q].slot # s
    <3>1. node[Kernel][op[q].slot] \in Nodes
      BY <2>1 DEF FilesInv, Underway
    <3> QED
      BY <1>3, <1>4, <2>1, <3>1, ConstantsOf
  <2> QED
    BY <1>8, <1>9, <2>1 DEF FilesInv, KernelOne, Opening
<1>17. Unshared'
  <2>1. ASSUME NEW u \in Tables, NEW v \in Tables, NEW i \in Slots, NEW j \in Slots,
               node'[u][i] \in Cells, node'[u][i] = node'[v][j]
        PROVE  u = v /\ i = j
    <3>1. \A w \in Tables, k \in Slots : n \in Cells => node[w][k] # n
      BY <1>1, <1>4 DEF FilesInv, Unshared
    <3> QED
      BY <1>6, <2>1, <3>1 DEF FilesInv, Unshared
  <2>2. ASSUME NEW q \in Procs, op'[q].pc = "store", op'[q].node \in Cells
        PROVE  /\ \A u \in Tables, i \in Slots : node'[u][i] # op'[q].node
               /\ \A r \in Procs : r # q => op'[r].node # op'[q].node
    <3>1. q # p
      BY <1>8, <1>9, <2>2
    <3>2. op'[q] = op[q] /\ op[q].node # op[p].node
      BY <1>9, <2>2, <3>1 DEF FilesInv, Unshared
    <3>3. \A u \in Tables, i \in Slots : node[u][i] # op[q].node
      BY <2>2, <3>2 DEF FilesInv, Unshared
    <3>4. \A r \in Procs : r # q => op[r].node # op[q].node
      BY <2>2, <3>2 DEF FilesInv, Unshared
    <3>5. o.node # op[q].node
      BY <1>4, <1>8, <2>2, <3>2, ConstantsOf
    <3>6. \A u \in Tables, i \in Slots : node'[u][i] # op[q].node
      BY <1>4, <1>6, <3>2, <3>3
    <3>7. \A r \in Procs : r # q => op'[r].node # op[q].node
      BY <1>9, <3>4, <3>5
    <3> QED
      BY <3>2, <3>6, <3>7
  <2> QED
    BY <2>1, <2>2 DEF Unshared
<1> QED
  BY <1>10, <1>12, <1>13, <1>14, <1>15, <1>16, <1>17 DEF FilesInv

(* vfs_close(): the node of the handle is freed, which no other leads to.  *)
LEMMA CloseNodeKeeps ==
    ASSUME FilesInv, NEW t \in Tables, NEW i \in Slots, node[t][i] # None, CloseNode(t, i)
    PROVE  /\ cache' \in Seq(Cells) /\ OneEntry' /\ Named' /\ HandlesHaveMemory'
           /\ Range(cache') \subseteq Range(cache)
           /\ \A c \in Range(cache) : c # node[t][i] => c \in Range(cache')
           /\ node' \in [Tables -> [Slots -> Nodes \cup {None}]]
           /\ node'[t][i] = None
           /\ \A u \in Tables, j \in Slots : u # t \/ j # i => node'[u][j] = node[u][j]
           /\ UNCHANGED <<alive, last, paged, inode, fault>>
<1>1. PICK c : c = node[t][i]
  OBVIOUS
<1>2. /\ cache' = IF c \in Cells THEN Uncached(cache, inode[c]) ELSE cache
      /\ node' = [node EXCEPT ![t][i] = None]
      /\ UNCHANGED <<alive, last, paged, inode, fault>>
  BY <1>1 DEF CloseNode
<1>3. node \in [Tables -> [Slots -> Nodes \cup {None}]]
  BY DEF FilesInv, TypeOK
<1>4. /\ node' \in [Tables -> [Slots -> Nodes \cup {None}]]
      /\ node'[t][i] = None
      /\ \A u \in Tables, j \in Slots : u # t \/ j # i => node'[u][j] = node[u][j]
  BY <1>2, <1>3
<1>5. /\ cache \in Seq(Cells) /\ Distinct(cache) /\ Range(cache) \subseteq Cells
      /\ \A x, y \in Range(cache) : inode[x] = inode[y] => x = y
  BY CacheFacts
<1>6. HandlesHaveMemory'
  <2>1. ASSUME NEW u \in Tables, NEW j \in Slots, node'[u][j] # None
        PROVE  j \in paged[u] /\ j < LastOf(u)
    BY <1>4, <2>1 DEF FilesInv, HandlesHaveMemory
  <2> QED
    BY <1>2, <2>1 DEF FilesInv, HandlesHaveMemory, LastOf
<1>7. CASE c \notin Cells
  <2>1. cache' = cache
    BY <1>2, <1>7
  <2>2. OneEntry' /\ Named'
    BY <1>2, <2>1 DEF FilesInv, OneEntry, Named
  <2> QED
    BY <1>2, <1>4, <1>5, <1>6, <2>1, <2>2
<1>8. CASE c \in Cells
  <2>1. PICK s : s = Uncached(cache, inode[c])
    OBVIOUS
  <2>2. /\ s \in Seq(Cells) /\ Distinct(s) /\ Range(s) \subseteq Range(cache)
        /\ \A x \in Range(cache) : inode[x] # inode[c] => x \in Range(s)
    BY <1>5, <2>1, UncachedKeeps
  <2>3. cache' = s
    BY <1>2, <1>8, <2>1
  <2>4. OneEntry' /\ Named'
    BY <1>2, <2>2, <2>3, OneEntryOf
  <2>5. c \in Range(cache)
    BY <1>1, <1>8 DEF FilesInv, Live
  <2>6. \A x \in Range(cache) : x # c => x \in Range(s)
    BY <1>5, <2>2, <2>5
  <2> QED
    BY <1>1, <1>2, <1>4, <1>6, <2>2, <2>3, <2>4, <2>6
<1> QED
  BY <1>7, <1>8

LEMMA CloseKeeps ==
    ASSUME FilesInv, NEW p \in Procs, NEW s \in Slots, Close(p, s)
    PROVE  FilesInv'
<1>1. Idles(p) /\ node[p][s] # None /\ CloseNode(p, s) /\ op' = op
  BY DEF Close
<1>2. p \in Tables /\ p # Kernel /\ op[p].pc = "idle" /\ p \in alive
  BY <1>1, ConstantsOf DEF Idles
<1>3. /\ cache' \in Seq(Cells) /\ OneEntry' /\ Named' /\ HandlesHaveMemory'
      /\ Range(cache') \subseteq Range(cache)
      /\ \A c \in Range(cache) : c # node[p][s] => c \in Range(cache')
      /\ node' \in [Tables -> [Slots -> Nodes \cup {None}]]
      /\ node'[p][s] = None
      /\ \A u \in Tables, j \in Slots : u # p \/ j # s => node'[u][j] = node[u][j]
      /\ UNCHANGED <<alive, last, paged, inode, fault>>
  BY <1>1, <1>2, CloseNodeKeeps
<1>4. TypeOK'
  BY <1>1, <1>3 DEF FilesInv, TypeOK
<1>5. ASSUME NEW q \in Procs, op[q].node \in Cells PROVE op[q].node # node[p][s]
  <2>1. op[q] \in Op /\ Underway(q)
    BY DEF FilesInv, TypeOK
  <2>2. CASE op[q].pc = "store"
    BY <1>2, <1>5, <2>2 DEF FilesInv, Unshared
  <2>3. CASE op[q].pc = "using"
    <3>1. op[q].slot \in Slots /\ node[Kernel][op[q].slot] = op[q].node
      BY <2>1, <2>3 DEF Underway
    <3>2. op[q].node # node[p][s]
      <4>1. ASSUME op[q].node = node[p][s] PROVE Kernel = p /\ op[q].slot = s
        <5>1. PICK j \in Slots : j = op[q].slot
          BY <3>1
        <5>2. node[Kernel][j] \in Cells /\ node[Kernel][j] = node[p][s]
          BY <1>5, <3>1, <4>1, <5>1
        <5> QED
          BY <1>2, <5>1, <5>2, ConstantsOf, LedToOnce
      <4> QED
        BY <1>2, <4>1
    <3> QED
      BY <3>2
  <2> QED
    BY <1>5, <2>1, <2>2, <2>3, ConstantsOf DEF Underway, Op, Idle
<1>6. ASSUME NEW u \in Tables, NEW j \in Slots, node'[u][j] \in Cells
      PROVE  node'[u][j] = node[u][j] /\ node[u][j] # node[p][s]
  <2>1. u # p \/ j # s
    BY <1>3, <1>6, ConstantsOf
  <2> QED
    BY <1>2, <1>3, <1>6, <2>1, LedToOnce
<1>7. Live'
  BY <1>1, <1>3, <1>5, <1>6 DEF FilesInv, Live
<1>8. DeadClear'
  <2>1. ASSUME NEW q \in Procs \ alive PROVE node'[q] = NoHandles
    <3>1. q # p /\ q \in Tables /\ node[q] = NoHandles
      BY <1>2, ConstantsOf DEF FilesInv, DeadClear
    <3>2. node'[q] = node[q]
      BY <1>1, <3>1 DEF CloseNode, FilesInv, TypeOK
    <3> QED
      BY <3>1, <3>2
  <2> QED
    BY <1>1, <1>3, <2>1 DEF FilesInv, DeadClear
<1>9. ASSUME NEW q \in Procs PROVE Underway(q)'
  <2>1. Underway(q) /\ op'[q] = op[q] /\ op[q] \in Op
    BY <1>1 DEF FilesInv, TypeOK
  <2>2. ASSUME op[q].pc # "idle"
        PROVE  node'[op[q].table][op[q].slot] = node[op[q].table][op[q].slot]
    <3>1. PICK u \in Tables, i \in Slots : u = op[q].table /\ i = op[q].slot
      BY <2>1, <2>2, ConstantsOf DEF Underway, Opening, Op
    <3>2. u \in {q, Kernel} /\ q # p
      BY <1>2, <2>1, <2>2, <3>1 DEF Underway, Opening, Op
    <3> QED
      BY <1>2, <1>3, <3>1, <3>2
  <2>3. op[q].slot < LastOf(op[q].table) => op[q].slot < LastOf(op[q].table)'
    <3>1. op'[q].table = op[q].table /\ op'[q].slot = op[q].slot
      BY <2>1
    <3> QED
      BY <1>3, <2>1, <3>1 DEF LastOf
  <2> QED
    BY <1>3, <2>1, <2>2, <2>3, UnderwayStays DEF Op
<1>10. KernelOne'
  BY <1>1 DEF FilesInv, KernelOne
<1>11. Unshared'
  <2>1. ASSUME NEW u \in Tables, NEW v \in Tables, NEW i \in Slots, NEW j \in Slots,
               node'[u][i] \in Cells, node'[u][i] = node'[v][j]
        PROVE  u = v /\ i = j
    <3>1. node'[u][i] = node[u][i] /\ node'[v][j] = node[v][j]
      BY <1>6, <2>1
    <3>2. node[u][i] \in Cells /\ node[u][i] = node[v][j]
      BY <2>1, <3>1
    <3> QED
      BY <3>2, LedToOnce
  <2>2. ASSUME NEW q \in Procs, op[q].pc = "store", op[q].node \in Cells
        PROVE  /\ \A u \in Tables, i \in Slots : node'[u][i] # op[q].node
               /\ \A r \in Procs : r # q => op[r].node # op[q].node
    <3>1. \A u \in Tables, i \in Slots : node[u][i] # op[q].node
      BY <2>2 DEF FilesInv, Unshared
    <3>2. \A u \in Tables, i \in Slots : node'[u][i] # op[q].node
      BY <1>6, <2>2, <3>1
    <3> QED
      BY <2>2, <3>2 DEF FilesInv, Unshared
  <2> QED
    BY <1>1, <2>1, <2>2 DEF Unshared
<1> QED
  BY <1>3, <1>4, <1>7, <1>8, <1>9, <1>10, <1>11 DEF FilesInv

LEMMA KernelCloseKeeps ==
    ASSUME FilesInv, NEW p \in Procs, KernelClose(p)
    PROVE  FilesInv'
<1>1. op[p].pc = "using" /\ CloseNode(Kernel, op[p].slot) /\ op' = [op EXCEPT ![p] = Idle]
  BY DEF KernelClose
<1>2. PICK s \in Slots : s = op[p].slot /\ node[Kernel][s] = op[p].node /\ op[p].node \in Nodes
  BY <1>1 DEF FilesInv, Underway
<1>3. p \in alive /\ op \in [Procs -> Op] /\ Kernel \in Tables
  BY <1>1, AtWork, ConstantsOf
<1>4. /\ cache' \in Seq(Cells) /\ OneEntry' /\ Named' /\ HandlesHaveMemory'
      /\ Range(cache') \subseteq Range(cache)
      /\ \A c \in Range(cache) : c # node[Kernel][s] => c \in Range(cache')
      /\ node' \in [Tables -> [Slots -> Nodes \cup {None}]]
      /\ node'[Kernel][s] = None
      /\ \A u \in Tables, j \in Slots : u # Kernel \/ j # s => node'[u][j] = node[u][j]
      /\ UNCHANGED <<alive, last, paged, inode, fault>>
  <2>1. node[Kernel][s] # None
    BY <1>2, ConstantsOf
  <2> QED
    BY <1>1, <1>2, <1>3, <2>1, CloseNodeKeeps
<1>5. /\ op' \in [Procs -> Op] /\ op'[p] = Idle /\ \A q \in Procs : q # p => op'[q] = op[q]
      /\ Idle.pc = "idle" /\ Idle.node = None
  BY <1>1, <1>3, ConstantsOf DEF Idle
<1>6. TypeOK'
  BY <1>4, <1>5 DEF FilesInv, TypeOK
<1>7. ASSUME NEW q \in Procs, q # p, op[q].node \in Cells PROVE op[q].node # node[Kernel][s]
  <2>1. op[q] \in Op /\ Underway(q)
    BY DEF FilesInv, TypeOK
  <2>2. CASE op[q].pc = "store"
    BY <1>3, <1>7, <2>2 DEF FilesInv, Unshared
  <2>3. CASE op[q].pc = "using"
    <3>1. op[q].slot \in Slots /\ node[Kernel][op[q].slot] = op[q].node
      BY <2>1, <2>3 DEF Underway
    <3>2. op[q].slot # s
      BY <1>1, <1>2, <1>7, <2>3 DEF FilesInv, KernelOne
    <3> QED
      BY <1>3, <1>7, <3>1, <3>2, LedToOnce
  <2> QED
    BY <1>7, <2>1, <2>2, <2>3, ConstantsOf DEF Underway, Op, Idle
<1>8. ASSUME NEW u \in Tables, NEW j \in Slots, node'[u][j] \in Cells
      PROVE  node'[u][j] = node[u][j] /\ node[u][j] # node[Kernel][s]
  <2>1. u # Kernel \/ j # s
    BY <1>4, <1>8, ConstantsOf
  <2> QED
    BY <1>3, <1>4, <1>8, <2>1, LedToOnce
<1>9. Live'
  <2>1. \A q \in Procs : op'[q].node \in Cells => op'[q].node \in Range(cache')
    BY <1>4, <1>5, <1>7, ConstantsOf DEF FilesInv, Live
  <2> QED
    BY <1>4, <1>8, <2>1 DEF FilesInv, Live
<1>10. DeadClear'
  <2>1. ASSUME NEW q \in Procs \ alive PROVE node'[q] = NoHandles
    <3>1. q # Kernel /\ q \in Tables /\ node[q] = NoHandles
      BY ConstantsOf DEF FilesInv, DeadClear
    <3>2. node'[q] = node[q]
      BY <1>1, <3>1 DEF CloseNode, FilesInv, TypeOK
    <3> QED
      BY <3>1, <3>2
  <2> QED
    BY <1>4, <1>5, <2>1 DEF FilesInv, DeadClear
<1>11. ASSUME NEW q \in Procs PROVE Underway(q)'
  <2>1. CASE q = p
    BY <1>5, <2>1 DEF Underway, Opening
  <2>2. CASE q # p
    <3>1. Underway(q) /\ op'[q] = op[q] /\ op[q] \in Op
      BY <1>5, <2>2 DEF FilesInv, TypeOK
    <3>2. ASSUME op[q].pc # "idle"
          PROVE  node'[op[q].table][op[q].slot] = node[op[q].table][op[q].slot]
      <4>1. PICK u \in Tables, i \in Slots : u = op[q].table /\ i = op[q].slot
        BY <3>1, <3>2, ConstantsOf DEF Underway, Opening, Op
      <4>2. u # Kernel \/ i # s
        <5>1. CASE op[q].pc \in Opening
          BY <1>2, <3>1, <4>1, <5>1, ConstantsOf DEF Underway
        <5>2. CASE op[q].pc = "using"
          BY <1>1, <1>2, <2>2, <4>1, <5>2 DEF FilesInv, KernelOne
        <5> QED
          BY <3>1, <3>2, <5>1, <5>2 DEF Op, Opening
      <4> QED
        BY <1>4, <4>1, <4>2
    <3>3. op[q].slot < LastOf(op[q].table) => op[q].slot < LastOf(op[q].table)'
      <4>1. op'[q].table = op[q].table /\ op'[q].slot = op[q].slot
        BY <3>1
      <4> QED
        BY <1>4, <3>1, <4>1 DEF LastOf
    <3> QED
      BY <1>4, <3>1, <3>2, <3>3, UnderwayStays DEF Op
  <2> QED
    BY <2>1, <2>2
<1>12. KernelOne'
  BY <1>5 DEF FilesInv, KernelOne, Opening
<1>13. Unshared'
  <2>1. ASSUME NEW u \in Tables, NEW v \in Tables, NEW i \in Slots, NEW j \in Slots,
               node'[u][i] \in Cells, node'[u][i] = node'[v][j]
        PROVE  u = v /\ i = j
    <3>1. node'[u][i] = node[u][i] /\ node'[v][j] = node[v][j]
      BY <1>8, <2>1
    <3>2. node[u][i] \in Cells /\ node[u][i] = node[v][j]
      BY <2>1, <3>1
    <3> QED
      BY <3>2, LedToOnce
  <2>2. ASSUME NEW q \in Procs, op'[q].pc = "store", op'[q].node \in Cells
        PROVE  /\ \A u \in Tables, i \in Slots : node'[u][i] # op'[q].node
               /\ \A r \in Procs : r # q => op'[r].node # op'[q].node
    <3>1. q # p /\ op'[q] = op[q]
      BY <1>5, <2>2
    <3>2. \A u \in Tables, i \in Slots : node[u][i] # op[q].node
      BY <2>2, <3>1 DEF FilesInv, Unshared
    <3>3. \A u \in Tables, i \in Slots : node'[u][i] # op[q].node
      BY <1>8, <2>2, <3>1, <3>2
    <3>4. \A r \in Procs : r # q => op[r].node # op[q].node
      BY <2>2, <3>1 DEF FilesInv, Unshared
    <3>5. \A r \in Procs : r # q => op'[r].node # op[q].node
      BY <1>5, <2>2, <3>1, <3>4, ConstantsOf
    <3> QED
      BY <3>1, <3>3, <3>5
  <2> QED
    BY <2>1, <2>2 DEF Unshared
<1> QED
  BY <1>4, <1>6, <1>9, <1>10, <1>11, <1>12, <1>13 DEF FilesInv

(* vfs_readdir() closes what it has found, which nobody else has.          *)
LEMMA ReaddirKeeps ==
    ASSUME FilesInv, NEW p \in Procs, NEW i \in Slots, NEW f \in Files, QuietReaddir(p, i, f)
    PROVE  FilesInv'
<1>1. PICK c \in Cells :
        /\ Found(f, c) /\ inode' = Filled(f, c) /\ cache' = Uncached(Pushed(f, c), f)
        /\ UNCHANGED <<alive, last, paged, node, op, fault>> /\ ~ InUse(f)
  BY DEF QuietReaddir, Readdir
<1>2. /\ \A u \in Tables, j \in Slots : node[u][j] # c
      /\ \A q \in Procs : op[q].node # c
  BY <1>1, FoundNotReferred
<1>3. /\ inode' \in [Cells -> Files \cup {None}] /\ inode'[c] = f
      /\ \A x \in Range(cache) : inode'[x] = inode[x]
      /\ c \in Range(cache) => inode[c] = f
      /\ cache' = Pushed(f, c) => /\ cache' \in Seq(Cells) /\ OneEntry' /\ Named'
                                  /\ Range(cache') = {c} \cup Range(cache)
  BY <1>1, FoundKeeps
<1>4. /\ cache \in Seq(Cells) /\ Distinct(cache) /\ Range(cache) \subseteq Cells
      /\ \A x, y \in Range(cache) : inode[x] = inode[y] => x = y
  BY CacheFacts
<1>5. /\ cache' \in Seq(Cells) /\ OneEntry' /\ Named'
      /\ \A x \in Range(cache) : x # c => x \in Range(cache')
  <2>1. CASE Cached(f)
    <3>1. PICK s : s = Uncached(cache, f)
      OBVIOUS
    <3>2. cache' = s /\ inode' = inode /\ c \in Range(cache) /\ inode[c] = f
      BY <1>1, <2>1, <3>1 DEF Pushed, Filled, Found, Entry
    <3>3. /\ s \in Seq(Cells) /\ Distinct(s) /\ Range(s) \subseteq Range(cache)
          /\ \A x \in Range(cache) : inode[x] # f => x \in Range(s)
      BY <1>4, <3>1, UncachedKeeps
    <3>4. OneEntry' /\ Named'
      BY <3>2, <3>3, OneEntryOf
    <3>5. \A x \in Range(cache) : x # c => inode[x] # f
      BY <1>4, <3>2
    <3> QED
      BY <3>2, <3>3, <3>4, <3>5
  <2>2. CASE ~ Cached(f)
    <3>1. PICK s : s = <<c>> \o cache
      OBVIOUS
    <3>2. /\ s \in Seq(Cells) /\ Len(s) = Len(cache) + 1
          /\ \A k \in 2 .. Len(cache) + 1 : s[k] = cache[k - 1]
      BY <1>4, <3>1, PushFacts
    <3>3. ASSUME NEW k \in 2 .. Len(s) PROVE inode[s[k]] # f
      <4>1. k - 1 \in 1 .. Len(cache) /\ DOMAIN cache = 1 .. Len(cache)
        BY <1>4, <3>2
      <4>2. s[k] \in Range(cache)
        BY <3>2, <4>1 DEF Range
      <4> QED
        BY <2>2, <4>2 DEF Cached, Entry
    <3>4. Uncached(s, f) = s
      BY <3>2, <3>3, UncachedCases
    <3>5. cache' = Pushed(f, c)
      BY <1>1, <2>2, <3>1, <3>4 DEF Pushed
    <3> QED
      BY <1>3, <3>5
  <2> QED
    BY <2>1, <2>2
<1>6. TypeOK'
  BY <1>1, <1>3, <1>5 DEF FilesInv, TypeOK
<1>7. Live'
  BY <1>1, <1>2, <1>5 DEF FilesInv, Live
<1>8. HandlesHaveMemory' /\ DeadClear' /\ KernelOne' /\ Unshared'
  BY <1>1 DEF FilesInv, HandlesHaveMemory, LastOf, DeadClear, KernelOne, Unshared
<1>9. \A q \in Procs : Underway(q)'
  BY <1>1 DEF FilesInv, Underway, LastOf
<1> QED
  BY <1>5, <1>6, <1>7, <1>8, <1>9 DEF FilesInv

(* A child is led to no cell: its parent has only directories open.        *)
LEMMA ForkKeeps ==
    ASSUME FilesInv, NEW p \in Procs, NEW q \in Procs, QuietFork(p, q)
    PROVE  FilesInv'
<1>1. /\ p \in alive /\ q \notin alive /\ alive' = alive \cup {q} /\ op[p].pc = "idle"
      /\ paged' = [paged EXCEPT ![q] = paged[p]] /\ node' = [node EXCEPT ![q] = node[p]]
      /\ UNCHANGED <<last, cache, inode, op, fault>>
      /\ \A i \in Slots : node[p][i] \notin Cells
  BY DEF QuietFork, Fork, Idles
<1>2. /\ paged \in [Tables -> SUBSET Slots] /\ node \in [Tables -> [Slots -> Nodes \cup {None}]]
      /\ p \in Tables /\ q \in Tables /\ q # Kernel
  BY ConstantsOf DEF FilesInv, TypeOK
<1>3. /\ paged' \in [Tables -> SUBSET Slots] /\ node' \in [Tables -> [Slots -> Nodes \cup {None}]]
      /\ node'[q] = node[p] /\ paged'[q] = paged[p]
      /\ \A u \in Tables : u # q => node'[u] = node[u] /\ paged'[u] = paged[u]
  BY <1>1, <1>2
<1>4. op[q] = Idle
  BY <1>1 DEF FilesInv, DeadClear
<1>5. TypeOK' /\ OneEntry' /\ Named'
  BY <1>1, <1>3 DEF FilesInv, TypeOK, OneEntry, Named
<1>6. ASSUME NEW u \in Tables, NEW i \in Slots, node'[u][i] \in Cells
      PROVE  node'[u][i] = node[u][i]
  BY <1>1, <1>3, <1>6
<1>7. Live'
  BY <1>1, <1>6 DEF FilesInv, Live
<1>8. HandlesHaveMemory'
  <2>1. ASSUME NEW u \in Tables, NEW i \in Slots, node'[u][i] # None
        PROVE  i \in paged'[u] /\ i < LastOf(u)
    <3>1. CASE u = q
      <4>1. i \in paged[p] /\ i < LastOf(p)
        BY <1>2, <1>3, <2>1, <3>1 DEF FilesInv, HandlesHaveMemory
      <4>2. LastOf(p) = LastOf(q)
        BY ConstantsOf DEF LastOf
      <4> QED
        BY <1>3, <3>1, <4>1, <4>2
    <3>2. CASE u # q
      BY <1>3, <2>1, <3>2 DEF FilesInv, HandlesHaveMemory
    <3> QED
      BY <3>1, <3>2
  <2> QED
    BY <1>1, <2>1 DEF FilesInv, HandlesHaveMemory, LastOf
<1>9. DeadClear'
  BY <1>1, <1>3, ConstantsOf DEF FilesInv, DeadClear
<1>10. ASSUME NEW r \in Procs PROVE Underway(r)'
  <2>1. CASE r = q
    BY <1>1, <1>4, <2>1 DEF Underway, Opening, Idle
  <2>2. CASE r # q
    <3>1. Underway(r) /\ op'[r] = op[r] /\ op[r] \in Op
      BY <1>1 DEF FilesInv, TypeOK
    <3>2. ASSUME op[r].pc # "idle"
          PROVE  /\ node'[op[r].table] = node[op[r].table]
                 /\ paged'[op[r].table] = paged[op[r].table]
      <4>1. op[r].table \in {r, Kernel}
        BY <3>1, <3>2 DEF Underway, Opening, Op
      <4> QED
        BY <1>2, <1>3, <2>2, <4>1, ConstantsOf
    <3>3. op[r].slot < LastOf(op[r].table) => op[r].slot < LastOf(op[r].table)'
      <4>1. op'[r].table = op[r].table /\ op'[r].slot = op[r].slot
        BY <3>1
      <4> QED
        BY <1>1, <3>1, <4>1 DEF LastOf
    <3> QED
      BY <3>1, <3>2, <3>3, UnderwayStays DEF Op
  <2> QED
    BY <2>1, <2>2
<1>11. KernelOne'
  BY <1>1 DEF FilesInv, KernelOne
<1>12. Unshared'
  <2>1. ASSUME NEW u \in Tables, NEW v \in Tables, NEW i \in Slots, NEW j \in Slots,
               node'[u][i] \in Cells, node'[u][i] = node'[v][j]
        PROVE  u = v /\ i = j
    <3>1. node'[u][i] = node[u][i] /\ node'[v][j] = node[v][j]
      BY <1>6, <2>1
    <3>2. node[u][i] \in Cells /\ node[u][i] = node[v][j]
      BY <2>1, <3>1
    <3> QED
      BY <3>2, LedToOnce
  <2>2. ASSUME NEW r \in Procs, op[r].pc = "store", op[r].node \in Cells
        PROVE  /\ \A u \in Tables, i \in Slots : node'[u][i] # op[r].node
               /\ \A s \in Procs : s # r => op[s].node # op[r].node
    <3>1. \A u \in Tables, i \in Slots : node[u][i] # op[r].node
      BY <2>2 DEF FilesInv, Unshared
    <3>2. \A u \in Tables, i \in Slots : node'[u][i] # op[r].node
      BY <1>6, <2>2, <3>1
    <3> QED
      BY <2>2, <3>2 DEF FilesInv, Unshared
  <2> QED
    BY <1>1, <2>1, <2>2 DEF Unshared
<1> QED
  BY <1>5, <1>7, <1>8, <1>9, <1>10, <1>11, <1>12 DEF FilesInv

LEMMA ExitKeeps ==
    ASSUME FilesInv, NEW p \in Procs, Exit(p)
    PROVE  FilesInv'
<1>1. /\ p \in alive /\ alive' = alive \ {p} /\ op[p].pc = "idle"
      /\ paged' = [paged EXCEPT ![p] = {}] /\ node' = [node EXCEPT ![p] = NoHandles]
      /\ UNCHANGED <<last, cache, inode, op, fault>>
  BY DEF Exit, Idles
<1>2. /\ paged \in [Tables -> SUBSET Slots] /\ node \in [Tables -> [Slots -> Nodes \cup {None}]]
      /\ p \in Tables /\ p # Kernel
  BY ConstantsOf DEF FilesInv, TypeOK
<1>3. NoHandles \in [Slots -> Nodes \cup {None}] /\ \A i \in Slots : NoHandles[i] = None
  BY DEF NoHandles
<1>4. /\ paged' \in [Tables -> SUBSET Slots] /\ node' \in [Tables -> [Slots -> Nodes \cup {None}]]
      /\ node'[p] = NoHandles
      /\ \A u \in Tables : u # p => node'[u] = node[u] /\ paged'[u] = paged[u]
  BY <1>1, <1>2, <1>3
<1>5. op[p] = Idle
  BY <1>1 DEF FilesInv, Underway
<1>6. TypeOK' /\ OneEntry' /\ Named'
  BY <1>1, <1>4 DEF FilesInv, TypeOK, OneEntry, Named
<1>7. ASSUME NEW u \in Tables, NEW i \in Slots, node'[u][i] # None
      PROVE  u # p /\ node'[u] = node[u] /\ paged'[u] = paged[u]
  BY <1>3, <1>4, <1>7
<1>8. ASSUME NEW u \in Tables, NEW i \in Slots, node'[u][i] \in Cells
      PROVE  node'[u][i] = node[u][i]
  BY <1>7, <1>8, ConstantsOf
<1>9. Live'
  BY <1>1, <1>8 DEF FilesInv, Live
<1>10. HandlesHaveMemory'
  <2>1. ASSUME NEW u \in Tables, NEW i \in Slots, node'[u][i] # None
        PROVE  i \in paged'[u] /\ i < LastOf(u)
    BY <1>7, <2>1 DEF FilesInv, HandlesHaveMemory
  <2> QED
    BY <1>1, <2>1 DEF FilesInv, HandlesHaveMemory, LastOf
<1>11. DeadClear'
  BY <1>1, <1>4, <1>5, ConstantsOf DEF FilesInv, DeadClear
<1>12. ASSUME NEW r \in Procs PROVE Underway(r)'
  <2>1. CASE r = p
    BY <1>1, <1>5, <2>1 DEF Underway, Opening, Idle
  <2>2. CASE r # p
    <3>1. Underway(r) /\ op'[r] = op[r] /\ op[r] \in Op
      BY <1>1 DEF FilesInv, TypeOK
    <3>2. ASSUME op[r].pc # "idle"
          PROVE  /\ node'[op[r].table] = node[op[r].table]
                 /\ paged'[op[r].table] = paged[op[r].table]
      <4>1. op[r].table \in {r, Kernel}
        BY <3>1, <3>2 DEF Underway, Opening, Op
      <4> QED
        BY <1>2, <1>4, <2>2, <4>1, ConstantsOf
    <3>3. op[r].slot < LastOf(op[r].table) => op[r].slot < LastOf(op[r].table)'
      <4>1. op'[r].table = op[r].table /\ op'[r].slot = op[r].slot
        BY <3>1
      <4> QED
        BY <1>1, <3>1, <4>1 DEF LastOf
    <3> QED
      BY <3>1, <3>2, <3>3, UnderwayStays DEF Op
  <2> QED
    BY <2>1, <2>2
<1>13. KernelOne'
  BY <1>1 DEF FilesInv, KernelOne
<1>14. Unshared'
  <2>1. ASSUME NEW u \in Tables, NEW v \in Tables, NEW i \in Slots, NEW j \in Slots,
               node'[u][i] \in Cells, node'[u][i] = node'[v][j]
        PROVE  u = v /\ i = j
    <3>1. node'[u][i] = node[u][i] /\ node'[v][j] = node[v][j]
      BY <1>8, <2>1
    <3>2. node[u][i] \in Cells /\ node[u][i] = node[v][j]
      BY <2>1, <3>1
    <3> QED
      BY <3>2, LedToOnce
  <2>2. ASSUME NEW r \in Procs, op[r].pc = "store", op[r].node \in Cells
        PROVE  /\ \A u \in Tables, i \in Slots : node'[u][i] # op[r].node
               /\ \A s \in Procs : s # r => op[s].node # op[r].node
    <3>1. \A u \in Tables, i \in Slots : node[u][i] # op[r].node
      BY <2>2 DEF FilesInv, Unshared
    <3>2. \A u \in Tables, i \in Slots : node'[u][i] # op[r].node
      BY <1>8, <2>2, <3>1
    <3> QED
      BY <2>2, <3>2 DEF FilesInv, Unshared
  <2> QED
    BY <1>1, <2>1, <2>2 DEF Unshared
<1> QED
  BY <1>6, <1>9, <1>10, <1>11, <1>12, <1>13, <1>14 DEF FilesInv

-----------------------------------------------------------------------------
(* The invariant holds throughout                                          *)

LEMMA InitFiles == Init => FilesInv
<1> SUFFICES ASSUME Init PROVE FilesInv
  OBVIOUS
<1>1. /\ \A t \in Tables, i \in Slots : node[t][i] = None
      /\ \A p \in Procs : node[p] = NoHandles /\ op[p] = Idle
      /\ cache = <<>> /\ ~ fault
  BY DEF Init, NoHandles, Tables
<1>2. Range(cache) = {}
  BY <1>1 DEF Range
<1>3. TypeOK
  <2>1. NoHandles \in [Slots -> Nodes \cup {None}]
    BY DEF NoHandles
  <2>2. node \in [Tables -> [Slots -> Nodes \cup {None}]] /\ op \in [Procs -> Op]
    BY <2>1, ConstantsOf DEF Init
  <2>3. paged \in [Tables -> SUBSET Slots] /\ inode \in [Cells -> Files \cup {None}]
    BY DEF Init
  <2>4. last \in [user : Nat, kernel : Nat] /\ cache \in Seq(Cells)
    BY DEF Init
  <2> QED
    BY <2>2, <2>3, <2>4 DEF Init, TypeOK
<1>4. Live /\ OneEntry /\ HandlesHaveMemory /\ Unshared /\ Named
  BY <1>1, <1>2, ConstantsOf DEF Live, OneEntry, HandlesHaveMemory, Unshared, Named, Idle
<1>5. DeadClear /\ KernelOne /\ \A p \in Procs : Underway(p)
  BY <1>1 DEF DeadClear, KernelOne, Underway, Opening, Idle
<1> QED
  BY <1>3, <1>4, <1>5 DEF FilesInv

LEMMA NextFiles == FilesInv /\ [QuietNext]_vars => FilesInv'
<1> SUFFICES ASSUME FilesInv, [QuietNext]_vars PROVE FilesInv'
  OBVIOUS
<1>1. ASSUME NEW p \in Procs, NEW t \in Tables, QuietSlot(p, t) PROVE FilesInv'
  BY <1>1, OpenSlotKeeps
<1>2. ASSUME NEW p \in Procs, NEW f \in Files, QuietFind(p, f) PROVE FilesInv'
  BY <1>2, OpenFindKeeps
<1>3. ASSUME NEW p \in Procs, OpenDir(p) PROVE FilesInv'
  BY <1>3, OpenDirKeeps
<1>4. ASSUME NEW p \in Procs, OpenFails(p) \/ KernelLeaves(p) PROVE FilesInv'
  <2>1. /\ op[p].pc # "idle" /\ op' = [op EXCEPT ![p] = Idle]
        /\ UNCHANGED <<alive, last, paged, node, cache, inode, fault>>
    BY <1>4 DEF OpenFails, KernelLeaves
  <2> QED
    BY <2>1, AtWork, EndsKeeps
<1>5. ASSUME NEW p \in Procs, OpenStore(p) PROVE FilesInv'
  BY <1>5, OpenStoreKeeps
<1>6. ASSUME NEW p \in Procs, KernelClose(p) PROVE FilesInv'
  BY <1>6, KernelCloseKeeps
<1>7. ASSUME NEW p \in Procs, NEW i \in Slots, Close(p, i) PROVE FilesInv'
  BY <1>7, CloseKeeps
<1>8. ASSUME NEW p \in Procs, NEW i \in Slots, NEW f \in Files, QuietReaddir(p, i, f)
      PROVE  FilesInv'
  BY <1>8, ReaddirKeeps
<1>9. ASSUME NEW p \in Procs, NEW q \in Procs, QuietFork(p, q) PROVE FilesInv'
  BY <1>9, ForkKeeps
<1>10. ASSUME NEW p \in Procs, Exit(p) PROVE FilesInv'
  BY <1>10, ExitKeeps
<1>11. CASE UNCHANGED vars
  <2>1. TypeOK' /\ Live' /\ OneEntry' /\ Named'
    BY <1>11 DEF vars, FilesInv, TypeOK, Live, OneEntry, Named
  <2>2. HandlesHaveMemory' /\ DeadClear' /\ KernelOne' /\ Unshared'
    BY <1>11 DEF vars, FilesInv, HandlesHaveMemory, LastOf, DeadClear, KernelOne, Unshared
  <2>3. UNCHANGED <<last, paged, node, op>>
    BY <1>11 DEF vars
  <2>4. \A q \in Procs : Underway(q)'
    BY <2>3 DEF FilesInv, Underway, LastOf
  <2> QED
    BY <2>1, <2>2, <2>4 DEF FilesInv
<1> QED
  BY <1>1, <1>2, <1>3, <1>4, <1>5, <1>6, <1>7, <1>8, <1>9, <1>10, <1>11 DEF QuietNext

(* The inductive invariant: what the handles lead to, the calls under way, *)
(* and the cache agree.                                                    *)
THEOREM FilesInvariant == QuietSpec => []FilesInv
  BY InitFiles, NextFiles, PTL DEF QuietSpec

(* Every variable keeps its type: no handle is taken outside of a table,   *)
(* and no pointer is anything but a node or nothing.                       *)
THEOREM FilesTyped == QuietSpec => []TypeOK
<1>1. FilesInv => TypeOK
  BY DEF FilesInv
<1> QED
  BY <1>1, FilesInvariant, PTL

(* What handles lead to is there: nodes that have not been freed, one for  *)
(* each file, and memory behind every handle that is open.                 *)
THEOREM HandlesAlwaysSound == QuietSpec => []HandlesSound
<1>1. FilesInv => HandlesSound
  <2> SUFFICES ASSUME FilesInv PROVE HandlesSound
    OBVIOUS
  <2>1. ASSUME NEW c \in Referred, c \in Cells PROVE c \in Range(cache)
    <3>1. CASE c \in {op[p].node : p \in Procs}
      BY <2>1, <3>1 DEF FilesInv, Live
    <3>2. CASE c \in UNION {{node[t][i] : i \in Slots} : t \in Tables}
      <4>1. PICK S \in {{node[t][i] : i \in Slots} : t \in Tables} : c \in S
        BY <3>2
      <4>2. PICK t \in Tables : S = {node[t][i] : i \in Slots}
        BY <4>1
      <4>3. PICK i \in Slots : c = node[t][i]
        BY <4>1, <4>2
      <4> QED
        BY <2>1, <4>3 DEF FilesInv, Live
    <3> QED
      BY <2>1, <3>1, <3>2 DEF Referred
  <2>2. NodesLive
    BY <2>1 DEF NodesLive
  <2> QED
    BY <2>2 DEF FilesInv, HandlesSound
<1> QED
  BY <1>1, FilesInvariant, PTL

-----------------------------------------------------------------------------
(* A handle means the file it was opened for                               *)

(* The table of handles somebody sees who knows nothing of nodes.          *)
Opened == [t \in Tables |-> [i \in Slots |->
              IF node[t][i] \in Cells THEN inode[node[t][i]] ELSE node[t][i]]]

(* As long as the nodes that are cached mean the same, only what changes   *)
(* in the tables changes what handles mean.                                *)
LEMMA OpenedKeeps ==
    ASSUME FilesInv, \A c \in Range(cache) : inode'[c] = inode[c]
    PROVE  \A t \in Tables, i \in Slots : node'[t][i] = node[t][i] => Opened'[t][i] = Opened[t][i]
<1> SUFFICES ASSUME NEW t \in Tables, NEW i \in Slots, node'[t][i] = node[t][i]
             PROVE  Opened'[t][i] = Opened[t][i]
  OBVIOUS
<1>1. PICK n : n = node[t][i]
  OBVIOUS
<1>2. /\ Opened[t][i] = IF n \in Cells THEN inode[n] ELSE n
      /\ Opened'[t][i] = IF n \in Cells THEN inode'[n] ELSE n
  BY <1>1 DEF Opened
<1>3. n \in Cells => n \in Range(cache)
  BY <1>1 DEF FilesInv, Live
<1> QED
  BY <1>2, <1>3

LEMMA OpenedStays ==
    ASSUME FilesInv, node' = node, \A c \in Range(cache) : inode'[c] = inode[c]
    PROVE  Opened' = Opened
<1>1. \A t \in Tables, i \in Slots : Opened'[t][i] = Opened[t][i]
  BY OpenedKeeps
<1>2. PICK m, n : m = Opened /\ n = Opened'
  OBVIOUS
<1>3. /\ m = [t \in Tables |-> [i \in Slots |-> m[t][i]]]
      /\ n = [t \in Tables |-> [i \in Slots |-> n[t][i]]]
  BY <1>2 DEF Opened
<1>4. \A t \in Tables, i \in Slots : n[t][i] = m[t][i]
  BY <1>1, <1>2
<1>5. n = m
  BY <1>3, <1>4
<1> QED
  BY <1>2, <1>5

(* One handle changes.                                                     *)
LEMMA OpenedChanges ==
    ASSUME FilesInv, UNCHANGED inode, NEW t \in Tables, NEW s \in Slots, NEW n,
           node' = [node EXCEPT ![t][s] = n]
    PROVE  Opened' = [Opened EXCEPT ![t][s] = IF n \in Cells THEN inode[n] ELSE n]
<1>1. node \in [Tables -> [Slots -> Nodes \cup {None}]]
  BY DEF FilesInv, TypeOK
<1>2. /\ node'[t][s] = n
      /\ \A u \in Tables, i \in Slots : u # t \/ i # s => node'[u][i] = node[u][i]
  BY <1>1
<1>3. PICK o, m, x : o = Opened /\ m = Opened' /\ x = IF n \in Cells THEN inode[n] ELSE n
  OBVIOUS
<1>4. m = [u \in Tables |-> [i \in Slots |-> m[u][i]]]
  BY <1>3 DEF Opened
<1>5. \A u \in Tables, i \in Slots : u # t \/ i # s => m[u][i] = o[u][i]
  BY <1>2, <1>3, OpenedKeeps
<1>6. m[t][s] = x
  BY <1>2, <1>3 DEF Opened
<1>7. m = [o EXCEPT ![t][s] = x]
  <2>1. o = [u \in Tables |-> [i \in Slots |-> o[u][i]]]
    BY <1>3 DEF Opened
  <2>2. PICK e : e = [o EXCEPT ![t][s] = x]
    OBVIOUS
  <2>3. e = [u \in Tables |-> [i \in Slots |-> e[u][i]]]
    BY <2>1, <2>2
  <2>4. \A u \in Tables, i \in Slots : e[u][i] = m[u][i]
    BY <1>5, <1>6, <2>1, <2>2
  <2>5. e = m
    BY <1>4, <2>3, <2>4
  <2> QED
    BY <2>2, <2>5
<1> QED
  BY <1>3, <1>7

(* A whole table changes.                                                  *)
LEMMA TableChanges ==
    ASSUME FilesInv, UNCHANGED inode, NEW t \in Tables, NEW x, x = [i \in Slots |-> x[i]],
           \A u \in Tables : u # t => node'[u] = node[u],
           \A i \in Slots :
               x[i] = IF node'[t][i] \in Cells THEN inode[node'[t][i]] ELSE node'[t][i]
    PROVE  Opened' = [Opened EXCEPT ![t] = x]
<1>3. PICK o, m : o = Opened /\ m = Opened'
  OBVIOUS
<1>4. /\ o = [u \in Tables |-> o[u]] /\ m = [u \in Tables |-> m[u]]
      /\ m[t] = [i \in Slots |-> m[t][i]]
  BY <1>3 DEF Opened
<1>5. \A u \in Tables : u # t => m[u] = o[u]
  BY <1>3 DEF Opened
<1>6. \A i \in Slots : m[t][i] = x[i]
  BY <1>3 DEF Opened
<1>7. m[t] = x
  BY <1>4, <1>6
<1>8. m = [o EXCEPT ![t] = x]
  BY <1>4, <1>5, <1>7
<1> QED
  BY <1>3, <1>8

LEMMA CloseNodeRefines ==
    ASSUME FilesInv, NEW t \in Tables, NEW i \in Slots, CloseNode(t, i)
    PROVE  Promise!Next
<1>1. UNCHANGED inode /\ node' = [node EXCEPT ![t][i] = None]
  BY DEF CloseNode
<1>2. Opened' = [Opened EXCEPT ![t][i] = None]
  BY <1>1, OpenedChanges, ConstantsOf
<1>3. Promise!Close(t, i)
  BY <1>2 DEF Promise!Close, Opened
<1> QED
  BY <1>3 DEF Promise!Next

LEMMA OpenStoreRefines ==
    ASSUME FilesInv, NEW p \in Procs, OpenStore(p)
    PROVE  Promise!Next
<1>1. /\ op[p].table \in {p, Kernel} /\ op[p].slot \in Slots /\ op[p].node \in Nodes
      /\ node[op[p].table][op[p].slot] = None /\ op[p].pc = "store"
  BY DEF OpenStore, FilesInv, Underway, Opening
<1>2. PICK t \in Tables, s \in Slots, n \in Nodes :
        t = op[p].table /\ s = op[p].slot /\ n = op[p].node
  BY <1>1, ConstantsOf
<1>3. UNCHANGED inode /\ node' = [node EXCEPT ![t][s] = n]
  BY <1>2 DEF OpenStore
<1>4. PICK x : x = IF n \in Cells THEN inode[n] ELSE n
  OBVIOUS
<1>5. x \in Files \cup {Dir}
  <2>1. n \in Cells => n \in Range(cache)
    BY <1>2 DEF FilesInv, Live
  <2> QED
    BY <1>2, <1>4, <2>1 DEF FilesInv, Named, Nodes
<1>6. Opened' = [Opened EXCEPT ![t][s] = x]
  BY ZenonT(30), <1>3, <1>4, OpenedChanges
<1>7. Opened[t][s] = None
  BY <1>1, <1>2, ConstantsOf DEF Opened
<1>8. Promise!Open(t, s)
  BY <1>5, <1>6, <1>7 DEF Promise!Open, Opened
<1> QED
  BY <1>8 DEF Promise!Next

LEMMA ForkRefines ==
    ASSUME FilesInv, NEW p \in Procs, NEW q \in Procs, Fork(p, q)
    PROVE  Promise!Next
<1>1. q \notin alive /\ UNCHANGED inode /\ node' = [node EXCEPT ![q] = node[p]]
  BY DEF Fork
<1>2. p \in Tables /\ q \in Tables
  BY ConstantsOf
<1>3. PICK x : x = Opened[p]
  OBVIOUS
<1>4. /\ node'[q] = node[p]
      /\ \A u \in Tables : u # q => node'[u] = node[u]
  BY <1>1, <1>2 DEF FilesInv, TypeOK
<1>5. Opened' = [Opened EXCEPT ![q] = x]
  <2>1. x = [i \in Slots |-> x[i]]
    BY <1>2, <1>3 DEF Opened
  <2>2. \A i \in Slots : x[i] = IF node'[q][i] \in Cells THEN inode[node'[q][i]] ELSE node'[q][i]
    BY <1>2, <1>3, <1>4 DEF Opened
  <2> QED
    BY <1>1, <1>2, <1>4, <2>1, <2>2, TableChanges
<1>6. Opened[q] = [i \in Slots |-> None]
  <2>1. \A i \in Slots : node[q][i] = None
    BY <1>1 DEF FilesInv, DeadClear, NoHandles
  <2>2. PICK y : y = Opened[q]
    OBVIOUS
  <2>3. y = [i \in Slots |-> y[i]] /\ \A i \in Slots : y[i] = None
    BY <1>2, <2>1, <2>2, ConstantsOf DEF Opened
  <2>4. y = [i \in Slots |-> None]
    BY <2>3
  <2> QED
    BY <2>2, <2>4
<1>7. Opened' = [Opened EXCEPT ![q] = Opened[p]]
  BY <1>3, <1>5
<1>8. Promise!Inherit(p, q)
  BY <1>6, <1>7 DEF Promise!Inherit, Promise!Nothing, Opened
<1> QED
  BY <1>2, <1>8 DEF Promise!Next

LEMMA ExitRefines ==
    ASSUME FilesInv, NEW p \in Procs, Exit(p)
    PROVE  Promise!Next
<1>1. UNCHANGED inode /\ node' = [node EXCEPT ![p] = NoHandles] /\ p \in Tables
  BY ConstantsOf DEF Exit
<1>2. PICK x : x = NoHandles
  OBVIOUS
<1>3. x \in [Slots -> {None}] /\ \A i \in Slots : x[i] = None
  BY <1>2 DEF NoHandles
<1>4. Opened' = [Opened EXCEPT ![p] = x]
  <2>1. /\ node'[p] = x
        /\ \A u \in Tables : u # p => node'[u] = node[u]
    BY <1>1, <1>2 DEF FilesInv, TypeOK
  <2>2. \A i \in Slots : x[i] = IF node'[p][i] \in Cells THEN inode[node'[p][i]] ELSE node'[p][i]
    BY <1>3, <2>1, ConstantsOf
  <2>3. UNCHANGED inode /\ p \in Tables
    BY <1>1
  <2>4. x = [i \in Slots |-> x[i]]
    BY <1>3
  <2> QED
    BY <2>1, <2>2, <2>3, <2>4, TableChanges
<1>5. Promise!CloseAll(p)
  BY <1>2, <1>4 DEF Promise!CloseAll, Promise!Nothing, Opened, NoHandles
<1> QED
  BY <1>1, <1>5 DEF Promise!Next

LEMMA NextRefinesPromise ==
    FilesInv /\ [QuietNext]_vars => Promise!Next \/ UNCHANGED Opened
<1> SUFFICES ASSUME FilesInv, [QuietNext]_vars PROVE Promise!Next \/ UNCHANGED Opened
  OBVIOUS
<1>1. ASSUME node' = node, inode' = inode PROVE UNCHANGED Opened
  BY <1>1, OpenedStays
<1>2. ASSUME NEW f \in Files, NEW c \in Cells, Found(f, c), inode' = Filled(f, c), node' = node
      PROVE  UNCHANGED Opened
  <2>1. \A x \in Range(cache) : inode'[x] = inode[x]
    BY <1>2, FoundKeeps
  <2> QED
    BY <1>2, <2>1, OpenedStays
<1>3. ASSUME NEW p \in Procs, NEW t \in Tables, QuietSlot(p, t) PROVE UNCHANGED Opened
  BY <1>1, <1>3 DEF QuietSlot, OpenSlot, Faults
<1>4. ASSUME NEW p \in Procs, NEW f \in Files, QuietFind(p, f) PROVE UNCHANGED Opened
  <2>1. PICK c \in Cells : Found(f, c) /\ inode' = Filled(f, c) /\ node' = node
    BY <1>4 DEF QuietFind, OpenFind
  <2> QED
    BY <1>2, <2>1
<1>5. ASSUME NEW p \in Procs, OpenDir(p) \/ OpenFails(p) \/ KernelLeaves(p) PROVE UNCHANGED Opened
  BY <1>1, <1>5 DEF OpenDir, OpenFails, KernelLeaves
<1>6. ASSUME NEW p \in Procs, KernelClose(p) PROVE Promise!Next
  <2>1. op[p].slot \in Slots /\ CloseNode(Kernel, op[p].slot)
    BY <1>6 DEF KernelClose, FilesInv, Underway
  <2> QED
    BY <2>1, CloseNodeRefines, ConstantsOf
<1>7. ASSUME NEW p \in Procs, NEW i \in Slots, Close(p, i) PROVE Promise!Next
  BY <1>7, CloseNodeRefines, ConstantsOf DEF Close
<1>8. ASSUME NEW p \in Procs, NEW i \in Slots, NEW f \in Files, QuietReaddir(p, i, f)
      PROVE  UNCHANGED Opened
  <2>1. PICK c \in Cells : Found(f, c) /\ inode' = Filled(f, c) /\ node' = node
    BY <1>8 DEF QuietReaddir, Readdir
  <2> QED
    BY <1>2, <2>1
<1>9. ASSUME NEW p \in Procs, NEW q \in Procs, QuietFork(p, q) PROVE Promise!Next
  BY <1>9, ForkRefines DEF QuietFork
<1>10. CASE UNCHANGED vars
  BY <1>1, <1>10 DEF vars
<1> QED
  BY <1>3, <1>4, <1>5, <1>6, <1>7, <1>8, <1>9, <1>10, OpenStoreRefines, ExitRefines DEF QuietNext

LEMMA InitRefinesPromise == Init => Promise!Init
<1> SUFFICES ASSUME Init PROVE Promise!Init
  OBVIOUS
<1>1. \A t \in Tables, i \in Slots : node[t][i] = None
  BY DEF Init, NoHandles
<1>2. Opened = [t \in Tables |-> [i \in Slots |-> None]]
  BY <1>1, ConstantsOf DEF Opened
<1> QED
  BY <1>2 DEF Promise!Init, Promise!Nothing, Opened

(* The tables, the cache and the cells implement handles that mean the file*)
(* they were opened for until they are closed, whatever is opened, closed  *)
(* and listed beside.                                                      *)
THEOREM HandlesAreKept == QuietSpec => HandlesKept
<1>1. FilesInv /\ [QuietNext]_vars =>
          [Promise!Next]_[t \in Tables |-> [i \in Slots |->
              IF node[t][i] \in Cells THEN inode[node[t][i]] ELSE node[t][i]]]
  BY NextRefinesPromise DEF Opened
<1> QED
  BY <1>1, InitRefinesPromise, FilesInvariant, PTL DEF QuietSpec, HandlesKept, Promise!Spec
==============================================================================
