-------------------------- MODULE SchedulerProofs --------------------------
(***************************************************************************)
(* Proofs about the process lists (Scheduler), for any number of processes,*)
(* delays and ticks to a time slice: every variable keeps its type, each   *)
(* process is in its one place, and no delay ends early.                   *)
(*                                                                         *)
(* The first half is about linked lists: what appending to them, unlinking *)
(* from them and waking do to the processes they hold.                     *)
(***************************************************************************)
EXTENDS Scheduler, FiniteSetTheorems, SequenceTheorems, WellFoundedInduction, TLAPS

-----------------------------------------------------------------------------
(* Linked lists                                                            *)

Links == [Procs -> Procs \cup {Null}]

(* No two processes point to the same one, none points to the head, and    *)
(* one is the last.                                                        *)
Linked(nx, head) ==
    /\ head \in Procs \cup {Null}
    /\ \A p, q \in Nodes(nx, head) : nx[p] = nx[q] => p = q
    /\ \A p \in Nodes(nx, head) : nx[p] # head
    /\ head # Null => \E p \in Nodes(nx, head) : nx[p] = Null

LEMMA NullNodes ==
    ASSUME NEW nx
    PROVE  Nodes(nx, Null) = {} /\ Linked(nx, Null)
BY DEF Nodes, Linked

(* The list is the least set that holds the head and, with a process, the  *)
(* one it points to.                                                       *)
LEMMA NodesLeast ==
    ASSUME NEW nx, NEW head \in Procs, NEW s \in SUBSET Procs, head \in s, Closed(nx, s)
    PROVE  Nodes(nx, head) \subseteq s
BY DEF Nodes

LEMMA NodesHold ==
    ASSUME NEW nx \in Links, NEW head \in Procs
    PROVE  /\ Nodes(nx, head) \subseteq Procs
           /\ head \in Nodes(nx, head)
           /\ \A p \in Nodes(nx, head) : nx[p] # Null => nx[p] \in Nodes(nx, head)
<1>1. head # Null
  BY SchedulerConstants
<1>2. Nodes(nx, head) \subseteq Procs /\ head \in Nodes(nx, head)
  BY <1>1 DEF Nodes
<1>3. ASSUME NEW p \in Nodes(nx, head), nx[p] # Null
      PROVE  nx[p] \in Nodes(nx, head)
  <2>1. nx[p] \in Procs
    BY <1>2, <1>3 DEF Links
  <2>2. ASSUME NEW s \in SUBSET Procs, head \in s, Closed(nx, s)
        PROVE  nx[p] \in s
    BY <1>3, <2>2 DEF Nodes, Closed
  <2> QED
    BY <1>1, <2>1, <2>2 DEF Nodes
<1> QED
  BY <1>2, <1>3

LEMMA NodesAreProcs ==
    ASSUME NEW nx, NEW head
    PROVE  Nodes(nx, head) \subseteq Procs
BY DEF Nodes

(* What is not on the list has no say in it.                               *)
LEMMA SameNodes ==
    ASSUME NEW nx \in Links, NEW ny \in Links, NEW head \in Procs \cup {Null},
           \A p \in Nodes(nx, head) : ny[p] = nx[p]
    PROVE  /\ Nodes(ny, head) = Nodes(nx, head)
           /\ Linked(nx, head) => Linked(ny, head)
<1>1. CASE head = Null
  BY <1>1, NullNodes
<1>2. CASE head \in Procs
  <2>1. Nodes(ny, head) \subseteq Nodes(nx, head)
    <3>1. Closed(ny, Nodes(nx, head))
      BY <1>2, NodesHold DEF Closed
    <3> QED
      BY <1>2, <3>1, NodesHold, NodesLeast
  <2>2. Nodes(nx, head) \subseteq Nodes(ny, head)
    <3>1. Closed(nx, Nodes(ny, head))
      BY <1>2, <2>1, NodesHold DEF Closed
    <3> QED
      BY <1>2, <3>1, NodesHold, NodesLeast
  <2>3. Nodes(ny, head) = Nodes(nx, head)
    BY <2>1, <2>2
  <2> QED
    BY <2>3 DEF Linked
<1> QED
  BY <1>1, <1>2

(* Whoever is not the first has one before it.                             *)
LEMMA Before ==
    ASSUME NEW nx \in Links, NEW head \in Procs, NEW p \in Nodes(nx, head), p # head
    PROVE  \E q \in Nodes(nx, head) : nx[q] = p
<1> SUFFICES ASSUME \A q \in Nodes(nx, head) : nx[q] # p
             PROVE  FALSE
  OBVIOUS
<1>1. PICK s \in SUBSET Procs : s = Nodes(nx, head) \ {p}
  BY NodesHold
<1>2. Closed(nx, s)
  BY <1>1, NodesHold DEF Closed
<1>3. head \in s
  BY <1>1, NodesHold
<1> QED
  BY <1>1, <1>2, <1>3, NodesLeast

(* A process that points nowhere goes behind the last.                     *)
LEMMA LinkedBehind ==
    ASSUME NEW nx \in Links, NEW head \in Procs, Linked(nx, head),
           NEW e \in Nodes(nx, head), nx[e] = Null,
           NEW p \in Procs, p \notin Nodes(nx, head), nx[p] = Null,
           NEW ny \in Links, ny[e] = p, \A q \in Procs : q # e => ny[q] = nx[q]
    PROVE  Nodes(ny, head) = Nodes(nx, head) \cup {p} /\ Linked(ny, head)
<1>1. e \in Procs /\ p # e /\ p # Null
  BY NodesHold, SchedulerConstants
<1>2. ny[e] = p /\ \A q \in Procs : q # e => ny[q] = nx[q]
  OBVIOUS
<1>3. PICK s \in SUBSET Procs : s = Nodes(nx, head) \cup {p}
  BY NodesHold
<1>4. Nodes(ny, head) \subseteq s
  <2>1. Closed(ny, s) /\ head \in s
    BY <1>2, <1>3, NodesHold DEF Closed
  <2> QED
    BY <2>1, NodesLeast
<1>5. s \subseteq Nodes(ny, head)
  <2>1. PICK t \in SUBSET Procs : t = Nodes(ny, head) \cap Nodes(nx, head)
    BY NodesHold
  <2>2. head \in t
    BY <1>2, <2>1, NodesHold
  <2>3. Closed(nx, t)
    <3> SUFFICES ASSUME NEW q \in t, nx[q] # Null
                 PROVE  nx[q] \in t
      BY DEF Closed
    <3>1. nx[q] \in Nodes(nx, head)
      BY <2>1, NodesHold
    <3>2. q # e /\ ny[q] = nx[q] /\ q \in Nodes(ny, head)
      BY <1>2, <2>1
    <3>3. nx[q] \in Nodes(ny, head)
      BY <1>2, <3>2, NodesHold
    <3> QED
      BY <2>1, <3>1, <3>3
  <2>4. Nodes(nx, head) \subseteq Nodes(ny, head)
    <3>1. Nodes(nx, head) \subseteq t
      BY <2>2, <2>3, NodesLeast
    <3> QED
      BY <2>1, <3>1
  <2>5. p \in Nodes(ny, head)
    BY <1>1, <1>2, <2>4, NodesHold
  <2> QED
    BY <1>3, <2>4, <2>5
<1>6. Nodes(ny, head) = Nodes(nx, head) \cup {p}
  BY <1>3, <1>4, <1>5
<1>7. Linked(ny, head)
  <2>1. \A q, r \in Nodes(nx, head) \cup {p} : ny[q] = ny[r] => q = r
    <3>1. \A q \in Nodes(nx, head) : q # e => nx[q] # Null /\ nx[q] # p
      BY NodesHold DEF Linked
    <3> QED
      BY <1>1, <1>2, <3>1, NodesHold DEF Linked
  <2>2. \A q \in Nodes(nx, head) \cup {p} : ny[q] # head
    <3>1. head \in Nodes(nx, head) /\ Nodes(nx, head) \subseteq Procs /\ head # Null
      BY NodesHold, SchedulerConstants
    <3>2. \A q \in Nodes(nx, head) : nx[q] # head
      BY DEF Linked
    <3> QED
      BY <1>2, <3>1, <3>2
  <2>3. ny[p] = Null
    BY <1>1, <1>2
  <2> QED
    BY <1>6, <2>1, <2>2, <2>3 DEF Linked
<1> QED
  BY <1>6, <1>7

(* ll_append()                                                             *)
LEMMA AppendedNodes ==
    ASSUME NEW nx \in Links, NEW head \in Procs \cup {Null}, Linked(nx, head),
           NEW p \in Procs, p \notin Nodes(nx, head),
           NEW l, l = Appended(nx, head, p)
    PROVE  /\ l.next \in Links /\ l.head \in Procs
           /\ head # Null => l.head = head
           /\ Nodes(l.next, l.head) = Nodes(nx, head) \cup {p}
           /\ Linked(l.next, l.head)
           /\ l.next[p] = Null
           /\ \A q \in Procs : q # p /\ (q \in Nodes(nx, head) => nx[q] # Null) => l.next[q] = nx[q]
<1>1. PICK cut \in Links :
         /\ cut = [nx EXCEPT ![p] = Null]
         /\ cut[p] = Null /\ \A q \in Procs : q # p => cut[q] = nx[q]
  <2>1. PICK cut : cut = [nx EXCEPT ![p] = Null]
    OBVIOUS
  <2>2. cut \in Links /\ cut[p] = Null /\ \A q \in Procs : q # p => cut[q] = nx[q]
    BY <2>1 DEF Links
  <2> QED
    BY <2>1, <2>2
<1>2. Nodes(cut, head) = Nodes(nx, head) /\ Linked(cut, head)
  <2>1. \A q \in Nodes(nx, head) : cut[q] = nx[q]
    BY <1>1, NodesAreProcs
  <2> QED
    BY <2>1, SameNodes
<1>3. CASE head = Null
  <2>1. l = [next |-> cut, head |-> p]
    BY <1>1, <1>3 DEF Appended
  <2>2. Nodes(nx, head) = {}
    BY <1>3, NullNodes
  <2>3. Nodes(cut, p) = {p}
    <3>1. p # Null /\ p \in Nodes(cut, p) /\ {p} \in SUBSET Procs
      BY <1>1, NodesHold, SchedulerConstants
    <3>2. Closed(cut, {p})
      BY <1>1 DEF Closed
    <3>3. Nodes(cut, p) \subseteq {p}
      BY <3>1, <3>2, NodesLeast
    <3> QED
      BY <3>1, <3>3
  <2>4. Linked(cut, p)
    BY <1>1, <2>3, SchedulerConstants DEF Linked
  <2>5. l.next = cut /\ l.head = p
    BY <2>1
  <2> QED
    BY <1>1, <1>3, <2>2, <2>3, <2>4, <2>5
<1>4. CASE head \in Procs
  <2>1. head # Null
    BY <1>4, SchedulerConstants
  <2>2. Lasts(cut, head) # {}
    BY <1>2, <2>1 DEF Linked, Lasts
  <2>3. PICK e \in Procs : e = CHOOSE q \in Lasts(cut, head) : TRUE
    BY <2>2, NodesAreProcs DEF Lasts
  <2>4. e \in Nodes(cut, head) /\ cut[e] = Null /\ e # p
    BY <1>2, <2>2, <2>3 DEF Lasts
  <2>5. PICK ny : ny = [cut EXCEPT ![e] = p]
    OBVIOUS
  <2>6. l = [next |-> ny, head |-> head]
    BY <1>1, <2>1, <2>3, <2>5 DEF Appended
  <2>7. /\ ny \in Links
        /\ Nodes(ny, head) = Nodes(cut, head) \cup {p}
        /\ Linked(ny, head)
        /\ \A q \in Procs : q # e => ny[q] = cut[q]
    <3>1. e \in Nodes(cut, head) /\ p \notin Nodes(cut, head) /\ Linked(cut, head)
      BY <1>2, <2>4
    <3>2. ny \in Links /\ ny[e] = p /\ \A q \in Procs : q # e => ny[q] = cut[q]
      BY <2>5 DEF Links
    <3>3. cut[e] = Null /\ cut[p] = Null
      BY <1>1, <2>4
    <3>4. Nodes(ny, head) = Nodes(cut, head) \cup {p} /\ Linked(ny, head)
      BY <1>4, <3>1, <3>2, <3>3, LinkedBehind
    <3> QED
      BY <3>2, <3>4
  <2>8. e \in Nodes(nx, head) /\ nx[e] = Null
    BY <1>1, <1>2, <2>4
  <2>9. l.next = ny /\ l.head = head
    BY <2>6
  <2>10. \A q \in Procs : q # p /\ (q \in Nodes(nx, head) => nx[q] # Null) => ny[q] = nx[q]
    BY <1>1, <2>7, <2>8
  <2>11. ny[p] = Null
    BY <1>1, <2>4, <2>7
  <2> QED
    BY <1>2, <1>4, <2>7, <2>9, <2>10, <2>11
<1> QED
  BY <1>3, <1>4

(* The walk to the process before p, which then points past it.            *)
LEMMA UnlinkedNodes ==
    ASSUME NEW nx \in Links, NEW head \in Procs, Linked(nx, head),
           NEW p \in Nodes(nx, head), p # head,
           NEW ny, ny = Unlinked(nx, head, p)
    PROVE  /\ ny \in Links
           /\ Nodes(ny, head) = Nodes(nx, head) \ {p}
           /\ Linked(ny, head)
           /\ ny[p] = nx[p]
           /\ \A q \in Procs : q \notin Nodes(nx, head) => ny[q] = nx[q]
<1>1. Befores(nx, head, p) # {}
  BY Before DEF Befores
<1>2. PICK e \in Procs : e = CHOOSE q \in Befores(nx, head, p) : TRUE
  BY <1>1, NodesAreProcs DEF Befores
<1>3. e \in Nodes(nx, head) /\ nx[e] = p
  BY <1>1, <1>2 DEF Befores
<1>4. p \in Procs /\ head # Null /\ p # Null
  BY NodesHold, SchedulerConstants
<1>5. e # p
  <2> SUFFICES ASSUME e = p PROVE FALSE
    OBVIOUS
  <2>1. PICK s \in SUBSET Procs : s = Nodes(nx, head) \ {p}
    BY NodesHold
  <2>2. Closed(nx, s)
    <3> SUFFICES ASSUME NEW q \in s, nx[q] # Null PROVE nx[q] \in s
      BY DEF Closed
    <3>1. nx[q] \in Nodes(nx, head)
      BY <2>1, NodesHold
    <3>2. nx[q] # p
      BY <1>3, <2>1 DEF Linked
    <3> QED
      BY <2>1, <3>1, <3>2
  <2>3. head \in s
    BY <2>1, NodesHold
  <2> QED
    BY <2>1, <2>2, <2>3, NodesLeast
<1>6. ny = [nx EXCEPT ![e] = nx[p]]
  BY <1>1, <1>2 DEF Unlinked
<1>7. ny \in Links /\ ny[e] = nx[p] /\ \A q \in Procs : q # e => ny[q] = nx[q]
  BY <1>4, <1>6 DEF Links
<1>8. PICK s \in SUBSET Procs : s = Nodes(nx, head) \ {p}
  BY NodesHold
<1>9. \A q \in s : q # e => nx[q] # p
  BY <1>3, <1>8 DEF Linked
<1>10. nx[p] # p
  BY <1>3, <1>5 DEF Linked
<1>11. Closed(ny, s)
  <2> SUFFICES ASSUME NEW q \in s, ny[q] # Null PROVE ny[q] \in s
    BY DEF Closed
  <2>1. CASE q = e
    <3>1. nx[p] \in Nodes(nx, head)
      BY <1>7, <2>1, NodesHold
    <3> QED
      BY <1>7, <1>8, <1>10, <2>1, <3>1
  <2>2. CASE q # e
    <3>1. ny[q] = nx[q] /\ nx[q] \in Nodes(nx, head)
      BY <1>7, <1>8, <2>2, NodesHold
    <3> QED
      BY <1>8, <1>9, <2>2, <3>1
  <2> QED
    BY <2>1, <2>2
<1>12. head \in s
  BY <1>8, NodesHold
<1>13. Nodes(ny, head) \subseteq s
  BY <1>11, <1>12, NodesLeast
<1>14. s \subseteq Nodes(ny, head)
  <2>1. PICK t \in SUBSET Procs :
           t = Nodes(ny, head) \cup (IF e \in Nodes(ny, head) THEN {p} ELSE {})
    BY <1>4, NodesAreProcs
  <2>2. \A q \in Nodes(ny, head) : ny[q] # Null => ny[q] \in Nodes(ny, head)
    BY <1>7, NodesHold
  <2>3. Closed(nx, t)
    <3> SUFFICES ASSUME NEW q \in t, nx[q] # Null PROVE nx[q] \in t
      BY DEF Closed
    <3>1. CASE q = e
      <4>1. e \in Nodes(ny, head)
        BY <1>5, <2>1, <3>1
      <4> QED
        BY <1>3, <2>1, <3>1, <4>1
    <3>2. CASE q = p
      <4>1. e \in Nodes(ny, head)
        BY <1>8, <1>13, <2>1, <3>2
      <4> QED
        BY <1>7, <2>1, <2>2, <3>2, <4>1
    <3>3. CASE q # e /\ q # p
      <4>1. q \in Nodes(ny, head) /\ ny[q] = nx[q]
        BY <1>7, <2>1, <3>3
      <4> QED
        BY <2>1, <2>2, <4>1
    <3> QED
      BY <3>1, <3>2, <3>3
  <2>4. head \in t
    BY <1>7, <2>1, NodesHold
  <2>5. Nodes(nx, head) \subseteq t
    BY <2>3, <2>4, NodesLeast
  <2> QED
    BY <1>8, <2>1, <2>5
<1>15. Nodes(ny, head) = Nodes(nx, head) \ {p}
  BY <1>8, <1>13, <1>14
<1>16. Linked(ny, head)
  <2>1. \A q \in Nodes(nx, head) \ {p} : ny[q] = IF q = e THEN nx[p] ELSE nx[q]
    BY <1>7, NodesHold
  <2>2. \A q, r \in Nodes(nx, head) \ {p} : ny[q] = ny[r] => q = r
    BY <2>1 DEF Linked
  <2>3. \A q \in Nodes(nx, head) \ {p} : ny[q] # head
    BY <2>1 DEF Linked
  <2>4. \E q \in Nodes(nx, head) \ {p} : ny[q] = Null
    <3>1. PICK q \in Nodes(nx, head) : nx[q] = Null
      BY <1>4 DEF Linked
    <3>2. CASE q = p
      BY <1>3, <1>5, <1>7, <3>1, <3>2
    <3>3. CASE q # p
      BY <1>3, <1>4, <2>1, <3>1, <3>3
    <3> QED
      BY <3>2, <3>3
  <2> QED
    BY <1>15, <2>2, <2>3, <2>4 DEF Linked
<1>17. ny[p] = nx[p]
  BY <1>4, <1>5, <1>7
<1>18. \A q \in Procs : q \notin Nodes(nx, head) => ny[q] = nx[q]
  BY <1>3, <1>7
<1> QED
  BY <1>7, <1>15, <1>16, <1>17, <1>18

(* The head becomes the one behind it.                                     *)
LEMMA TailNodes ==
    ASSUME NEW nx \in Links, NEW head \in Procs, Linked(nx, head)
    PROVE  /\ Nodes(nx, nx[head]) = Nodes(nx, head) \ {head}
           /\ Linked(nx, nx[head])
<1>1. PICK h \in Procs \cup {Null} : h = nx[head]
  BY DEF Links
<1>2. head \in Nodes(nx, head) /\ head # Null
  BY NodesHold, SchedulerConstants
<1>3. CASE h = Null
  <2>1. {head} \in SUBSET Procs /\ Closed(nx, {head})
    BY <1>1, <1>3 DEF Closed
  <2>2. Nodes(nx, head) \subseteq {head}
    BY <2>1, NodesLeast
  <2> QED
    BY <1>1, <1>3, <2>2, NullNodes
<1>4. CASE h \in Procs
  <2>1. h # Null
    BY <1>4, SchedulerConstants
  <2>2. PICK s \in SUBSET Procs : s = Nodes(nx, head) \ {head}
    BY NodesHold
  <2>3. Closed(nx, s) /\ h \in s
    BY <1>1, <1>2, <2>1, <2>2, NodesHold DEF Linked, Closed
  <2>4. Nodes(nx, h) \subseteq s
    BY <1>4, <2>3, NodesLeast
  <2>5. PICK t \in SUBSET Procs : t = Nodes(nx, h) \cup {head}
    BY NodesAreProcs
  <2>6. Closed(nx, t)
    BY <1>1, <1>4, <2>5, NodesHold DEF Closed
  <2>7. Nodes(nx, head) \subseteq t
    BY <2>5, <2>6, NodesLeast
  <2>8. Nodes(nx, h) = Nodes(nx, head) \ {head}
    BY <2>2, <2>4, <2>5, <2>7
  <2>9. \A p \in Nodes(nx, head) \ {head} : nx[p] # h
    BY <1>1, <1>2 DEF Linked
  <2>10. \E p \in Nodes(nx, head) \ {head} : nx[p] = Null
    BY <1>1, <1>2, <2>1 DEF Linked
  <2>11. Linked(nx, h)
    BY <1>1, <2>8, <2>9, <2>10 DEF Linked
  <2> QED
    BY <1>1, <2>8, <2>11
<1> QED
  BY <1>1, <1>3, <1>4

-----------------------------------------------------------------------------
(* The inductive invariant                                                 *)

(* Where a process is, by what it does and its status.                     *)
Place(p) ==
    /\ pc[p] \notin {"run", "gone"} => p = cpu
    /\ p \in Delayed => status[p] = "active"
    /\ pc[p] = "run" =>
          /\ status[p] # "null"
          /\ p \in Active <=> status[p] = "active" /\ p \notin Delayed
          /\ p \in Asleep <=> status[p] = "sleep"
    /\ pc[p] = "unlink" => status[p] = "sleep" /\ p \in Active /\ p \notin Asleep
    /\ pc[p] = "append" => status[p] = "sleep" /\ p \notin Active /\ p \notin Asleep
    /\ pc[p] = "remove" => status[p] = "active" /\ p \in Active /\ p \notin Asleep /\ p \in Delayed
    /\ pc[p] = "gone" => status[p] = "null" /\ p \notin Active /\ p \notin Asleep

(* Whose code runs is the current process.  It leaves somebody behind who  *)
(* can run, and where it points is a way on to who runs next.              *)
Current ==
    /\ ~ fault /\ cpu = current /\ idle = "no"
    /\ status[cpu] # "unused"
    /\ pc[cpu] = "run" /\ (status[cpu] = "sleep" \/ cpu \in Delayed) => hlt /\ timeRem[cpu] = 0
    /\ pc[cpu] = "run" /\ status[cpu] = "sleep" => next[cpu] = Null
    /\ pc[cpu] = "run" /\ cpu \in Delayed => next[cpu] \in Active \cup {Null}
    /\ \E q \in Active : pc[cpu] \in {"unlink", "remove"} => q # cpu

(* No delay is longer than the deltas up to its own.                       *)
Sums(at) ==
    /\ at[0] = 0
    /\ \A i \in DOMAIN waiting : at[i] = at[i - 1] + waiting[i].delta
InTime == \E at \in [0 .. Len(waiting) -> Nat] : Sums(at) /\ \A i \in DOMAIN waiting : waiting[i].due <= at[i]

Once == \A i, j \in DOMAIN waiting : waiting[i].proc = waiting[j].proc => i = j

SchedInv ==
    /\ TypeOK
    /\ Linked(next, active) /\ Linked(next, asleep)
    /\ Active \cap Asleep = {}
    /\ Once
    /\ \A p \in Procs : Place(p)
    /\ Current
    /\ InTime

-----------------------------------------------------------------------------
(* The delay list                                                          *)

LessNat == {r \in Nat \X Nat : r[1] < r[2]}

LEMMA LeastExists ==
    ASSUME NEW S \in SUBSET Nat, S # {}
    PROVE  \E x \in S : \A y \in S : x <= y
<1>1. IsWellFoundedOn(LessNat, Nat)
  BY NatLessThanWellFounded DEF OpToRel, LessNat
<1>2. \E x \in S : \A y \in S : ~ (<<y, x>> \in LessNat)
  BY <1>1, WFMin, Zenon
<1>3. PICK x \in S : \A y \in S : ~ (<<y, x>> \in LessNat)
  BY <1>2
<1>4. \A y \in S : x <= y
  <2>1. SUFFICES ASSUME NEW y \in S, y < x PROVE FALSE
    OBVIOUS
  <2>2. <<y, x>> \in Nat \X Nat
    BY <2>1
  <2>3. <<y, x>>[1] < <<y, x>>[2]
    BY <2>1
  <2> QED
    BY <1>3, <2>2, <2>3 DEF LessNat
<1> QED
  BY <1>4

LEMMA Entries ==
    ASSUME TypeOK
    PROVE  /\ Len(waiting) \in Nat
           /\ DOMAIN waiting = 1 .. Len(waiting)
           /\ \A i \in 1 .. Len(waiting) :
                 /\ waiting[i] \in WaitEntry
                 /\ waiting[i].proc \in Procs
                 /\ waiting[i].delta \in Nat /\ waiting[i].delta < Word
                 /\ waiting[i].due \in Nat \cup {-1}
           /\ Word \in Nat /\ Word > 0
<1>1. waiting \in Seq(WaitEntry)
  BY DEF TypeOK
<1>2. Len(waiting) \in Nat /\ DOMAIN waiting = 1 .. Len(waiting)
  BY <1>1
<1>3. \A i \in 1 .. Len(waiting) : waiting[i] \in WaitEntry
  BY <1>1
<1>4. Word \in Nat /\ Word > 0
  BY SchedulerConstants
<1>5. \A e \in WaitEntry : /\ e.proc \in Procs
                           /\ e.delta \in Nat /\ e.delta < Word
                           /\ e.due \in Nat \cup {-1}
  BY <1>4 DEF WaitEntry
<1> QED
  BY <1>2, <1>3, <1>4, <1>5

(* The sum that the walk of Proc_Delay() keeps.                            *)
LEMMA AheadIs ==
    ASSUME TypeOK, NEW at \in [0 .. Len(waiting) -> Nat], Sums(at), NEW i \in 0 .. Len(waiting)
    PROVE  Ahead(i) = at[i] % Word
<1> DEFINE Def(f) == f = [j \in 0 .. i |-> IF j = 0 THEN 0 ELSE f[j - 1] + waiting[j].delta]
           sum == CHOOSE f : Def(f)
<1>1. Len(waiting) \in Nat /\ DOMAIN waiting = 1 .. Len(waiting)
  BY Entries
<1>2. Def([j \in 0 .. i |-> at[j]])
  <2>1. PICK f : f = [j \in 0 .. i |-> at[j]]
    OBVIOUS
  <2>2. \A j \in 0 .. i : f[j] = IF j = 0 THEN 0 ELSE f[j - 1] + waiting[j].delta
    <3> SUFFICES ASSUME NEW j \in 0 .. i, j # 0 PROVE f[j] = f[j - 1] + waiting[j].delta
      BY <2>1 DEF Sums
    <3>1. j \in 1 .. Len(waiting) /\ j - 1 \in 0 .. i
      BY <1>1
    <3> QED
      BY <1>1, <2>1, <3>1 DEF Sums
  <2>3. f = [j \in 0 .. i |-> f[j]]
    BY <2>1
  <2>4. Def(f)
    BY <2>2, <2>3
  <2> QED
    BY <2>1, <2>4
<1>3. Def(sum)
  BY <1>2
<1>4. Ahead(i) = sum[i] % Word
  BY DEF Ahead
<1> HIDE DEF sum
<1>5. \A j \in 0 .. i : sum[j] = IF j = 0 THEN 0 ELSE sum[j - 1] + waiting[j].delta
  BY <1>3
<1>6. \A j \in 0 .. i : sum[j] = at[j]
  <2> SUFFICES ASSUME NEW k \in 0 .. i, sum[k] # at[k] PROVE FALSE
    OBVIOUS
  <2>1. PICK S : S = {j \in 0 .. i : sum[j] # at[j]}
    OBVIOUS
  <2> S \in SUBSET Nat /\ S # {}
    BY <1>1, <2>1
  <2>2. PICK j \in S : \A l \in S : j <= l
    BY LeastExists
  <2>3. j \in 0 .. i /\ sum[j] # at[j]
    BY <2>1, <2>2
  <2>4. j # 0
    BY <1>5, <2>3 DEF Sums
  <2>5. j - 1 \in 0 .. i /\ j - 1 \notin S
    BY <1>1, <2>2, <2>3, <2>4
  <2>6. sum[j - 1] = at[j - 1]
    BY <2>1, <2>5
  <2>7. sum[j] = at[j - 1] + waiting[j].delta
    BY <1>5, <2>3, <2>4, <2>6
  <2>8. j \in DOMAIN waiting
    BY <1>1, <2>3, <2>4
  <2> QED
    BY <2>3, <2>7, <2>8 DEF Sums
<1> QED
  BY <1>4, <1>6, <1>1

LEMMA SumsExist ==
    ASSUME InTime
    PROVE  \E at \in [0 .. Len(waiting) -> Nat] :
              Sums(at) /\ \A i \in DOMAIN waiting : waiting[i].due <= at[i]
BY DEF InTime

LEMMA StopAtIs ==
    ASSUME TypeOK, InTime, waiting # <<>>, NEW ms \in 0 .. Word - 1
    PROVE  /\ StopAt(ms) \in 1 .. Len(waiting)
           /\ StopAt(ms) = Len(waiting) \/ Ahead(StopAt(ms)) > ms
           /\ \A j \in 1 .. StopAt(ms) - 1 : Ahead(j) <= ms
<1>1. Len(waiting) \in Nat /\ DOMAIN waiting = 1 .. Len(waiting) /\ Word \in Nat /\ Word > 0
  BY Entries
<1>2. Len(waiting) # 0
  BY <1>1 DEF TypeOK
<1>3. \A i \in 0 .. Len(waiting) : Ahead(i) \in Nat
  <2>1. PICK at \in [0 .. Len(waiting) -> Nat] : Sums(at)
    BY SumsExist
  <2> QED
    BY <1>1, <2>1, AheadIs
<1>4. PICK S : S = {i \in 1 .. Len(waiting) : i = Len(waiting) \/ Ahead(i) > ms}
  OBVIOUS
<1> S \in SUBSET Nat
  BY <1>1, <1>4
<1>5. Len(waiting) \in S
  BY <1>1, <1>2, <1>4
<1>6. PICK i \in S : \A l \in S : i <= l
  BY <1>5, LeastExists
<1>7. i \in 1 .. Len(waiting) /\ (i = Len(waiting) \/ Ahead(i) > ms)
  BY <1>4, <1>6
<1>8. ASSUME NEW j \in 1 .. i - 1 PROVE Ahead(j) <= ms
  <2>0. PICK n \in Nat : n = Len(waiting)
    BY <1>1
  <2> i \in Nat /\ 1 <= i /\ i <= n
    BY <1>7, <2>0
  <2> j \in Nat /\ 1 <= j /\ j < i
    OBVIOUS
  <2>1. j \in 1 .. Len(waiting) /\ j # Len(waiting) /\ j < i
    BY <2>0
  <2>2. j \notin S
    <3> SUFFICES ASSUME j \in S PROVE FALSE
      OBVIOUS
    <3>1. i <= j
      BY <1>6
    <3> QED
      BY <1>7, <2>1, <3>1
  <2>3. ~ (Ahead(j) > ms)
    BY <1>4, <2>1, <2>2
  <2>4. Ahead(j) \in Nat
    BY <1>3, <2>0
  <2>5. ms \in Nat
    BY <1>1
  <2> QED
    BY <2>3, <2>4, <2>5
<1>9. \E k \in DOMAIN waiting :
         /\ k = Len(waiting) \/ Ahead(k) > ms
         /\ \A j \in 1 .. k - 1 : Ahead(j) <= ms
  BY <1>1, <1>7, <1>8
<1>10. /\ StopAt(ms) \in DOMAIN waiting
       /\ StopAt(ms) = Len(waiting) \/ Ahead(StopAt(ms)) > ms
       /\ \A j \in 1 .. StopAt(ms) - 1 : Ahead(j) <= ms
  BY <1>9 DEF StopAt
<1> QED
  BY <1>1, <1>10

LEMMA ExpiredIs ==
    ASSUME TypeOK
    PROVE  /\ Expired \in 0 .. Len(waiting)
           /\ \A i \in 1 .. Expired : waiting[i].delta = 0
           /\ Expired = Len(waiting) \/ waiting[Expired + 1].delta # 0
<1>1. Len(waiting) \in Nat
  BY Entries
<1>2. PICK S : S = {i \in 0 .. Len(waiting) : i = Len(waiting) \/ waiting[i + 1].delta # 0}
  OBVIOUS
<1> S \in SUBSET Nat
  BY <1>1, <1>2
<1>3. Len(waiting) \in S
  BY <1>1, <1>2
<1>4. PICK n \in S : \A l \in S : n <= l
  BY <1>3, LeastExists
<1>5. n \in 0 .. Len(waiting) /\ (n = Len(waiting) \/ waiting[n + 1].delta # 0)
  BY <1>2, <1>4
<1>6. ASSUME NEW i \in 1 .. n PROVE waiting[i].delta = 0
  <2>1. i - 1 \in 0 .. Len(waiting) /\ i - 1 \notin S /\ (i - 1) + 1 = i
    BY <1>1, <1>4, <1>5
  <2> QED
    BY <1>2, <2>1
<1>7. \E k \in 0 .. Len(waiting) :
         /\ \A i \in 1 .. k : waiting[i].delta = 0
         /\ k = Len(waiting) \/ waiting[k + 1].delta # 0
  BY <1>5, <1>6
<1> QED
  BY <1>7 DEF Expired

LEMMA Joined ==
    ASSUME NEW a \in Seq(WaitEntry), NEW e \in WaitEntry, NEW b \in Seq(WaitEntry),
           NEW s, s = (a \o <<e>>) \o b
    PROVE  /\ s \in Seq(WaitEntry) /\ Len(s) = Len(a) + Len(b) + 1
           /\ \A i \in 1 .. Len(a) : s[i] = a[i]
           /\ s[Len(a) + 1] = e
           /\ \A i \in 1 .. Len(b) : s[Len(a) + 1 + i] = b[i]
<1>1. PICK c : c = a \o <<e>> /\ s = c \o b
  OBVIOUS
<1>2. PICK m \in Nat, n \in Nat, k \in Nat : m = Len(a) /\ n = Len(b) /\ k = m + 1
  OBVIOUS
<1>3. <<e>> \in Seq(WaitEntry) /\ Len(<<e>>) = 1 /\ <<e>>[1] = e
  OBVIOUS
<1>4. /\ c \in Seq(WaitEntry) /\ Len(c) = m + 1
      /\ \A i \in 1 .. m + 1 : c[i] = IF i <= m THEN a[i] ELSE <<e>>[i - m]
  <2>1. /\ a \o <<e>> \in Seq(WaitEntry) /\ Len(a \o <<e>>) = Len(a) + Len(<<e>>)
        /\ \A i \in 1 .. Len(a) + Len(<<e>>) :
              (a \o <<e>>)[i] = IF i <= Len(a) THEN a[i] ELSE <<e>>[i - Len(a)]
    BY <1>3, ConcatProperties
  <2> QED
    BY <1>1, <1>2, <1>3, <2>1
<1>5. /\ s \in Seq(WaitEntry) /\ Len(s) = k + n
      /\ \A i \in 1 .. k + n : s[i] = IF i <= k THEN c[i] ELSE b[i - k]
  <2>1. /\ c \o b \in Seq(WaitEntry) /\ Len(c \o b) = Len(c) + Len(b)
        /\ \A i \in 1 .. Len(c) + Len(b) : (c \o b)[i] = IF i <= Len(c) THEN c[i] ELSE b[i - Len(c)]
    BY <1>4, ConcatProperties
  <2>2. Len(c) = k /\ Len(b) = n
    BY <1>2, <1>4
  <2> QED
    BY <1>1, <2>1, <2>2
<1>6. \A i \in 1 .. m : s[i] = a[i]
  BY <1>2, <1>4, <1>5
<1>7. s[k] = e
  <2>1. s[k] = c[k]
    BY <1>2, <1>5
  <2>2. k \in 1 .. m + 1 /\ ~ (k <= m) /\ k - m = 1
    BY <1>2
  <2>3. c[k] = <<e>>[1]
    BY <1>4, <2>2
  <2> QED
    BY <1>3, <2>1, <2>3
<1>8. ASSUME NEW i \in 1 .. n PROVE s[k + i] = b[i]
  <2>1. k + i \in 1 .. k + n /\ ~ (k + i <= k) /\ (k + i) - k = i
    BY <1>2
  <2>2. s[k + i] = b[(k + i) - k]
    BY <1>5, <2>1
  <2> QED
    BY <2>1, <2>2
<1>9. Len(s) = m + n + 1
  BY <1>2, <1>5
<1> QED
  BY <1>2, <1>5, <1>6, <1>7, <1>8, <1>9

(* The entry goes behind entry s, if there is one, with delta d.           *)
InsertedAt(w, ms, s, d) ==
    /\ w \in Seq(WaitEntry) /\ Len(w) = Len(waiting) + 1
    /\ w[s + 1] = [proc |-> cpu, delta |-> d, due |-> ms]
    /\ \A i \in 1 .. s : w[i] = waiting[i]
    /\ \A i \in s + 1 .. Len(waiting) :
          /\ w[i + 1].proc = waiting[i].proc /\ w[i + 1].due = waiting[i].due
          /\ w[i + 1].delta = IF i = s + 1 THEN (waiting[i].delta - d) % Word ELSE waiting[i].delta

LEMMA InsertedIs ==
    ASSUME TypeOK, InTime, NEW ms \in 0 .. Word - 1
    PROVE  \E s \in 0 .. Len(waiting), d \in 0 .. Word - 1 :
              /\ InsertedAt(Inserted(ms), ms, s, d)
              /\ s = 0 => Len(waiting) = 0 /\ d = ms
              /\ s > 0 => /\ d = (ms - Ahead(s - 1)) % Word
                          /\ s = Len(waiting) \/ Ahead(s) > ms
<1>1. /\ Word \in Nat /\ Word > 0
      /\ cpu \in Procs
      /\ \A i \in 1 .. Len(waiting) : waiting[i] \in WaitEntry
  BY Entries DEF TypeOK
<1>2. PICK n \in Nat : n = Len(waiting)
  BY Entries
<1>3. CASE waiting = <<>>
  <2>1. PICK e : e = [proc |-> cpu, delta |-> ms, due |-> ms]
    OBVIOUS
  <2>2. e \in WaitEntry
    BY <1>1, <2>1 DEF WaitEntry
  <2>3. Inserted(ms) = <<e>>
    BY <1>3, <2>1 DEF Inserted
  <2>4. n = 0
    BY <1>2, <1>3
  <2>5. InsertedAt(<<e>>, ms, 0, ms)
    <3>1. <<e>> \in Seq(WaitEntry) /\ Len(<<e>>) = 1 /\ <<e>>[1] = e
      BY <2>2
    <3> QED
      BY <1>2, <2>1, <2>4, <3>1 DEF InsertedAt
  <2> QED
    BY <1>1, <1>2, <2>3, <2>4, <2>5
<1>4. CASE waiting # <<>>
  <2>1. PICK s \in Nat : s = StopAt(ms) /\ 1 <= s /\ s <= n
    BY <1>2, <1>4, StopAtIs
  <2>2. PICK d : d = (ms - Ahead(s - 1)) % Word
    OBVIOUS
  <2>3. Ahead(s - 1) \in Nat /\ d \in 0 .. Word - 1
    <3>1. PICK at \in [0 .. Len(waiting) -> Nat] : Sums(at)
      BY SumsExist
    <3>2. Ahead(s - 1) = at[s - 1] % Word /\ at[s - 1] \in Nat
      BY <1>2, <2>1, <3>1, AheadIs
    <3>3. Ahead(s - 1) \in Nat
      BY <1>1, <3>2
    <3>4. \A x \in Int : x % Word \in 0 .. Word - 1
      BY <1>1
    <3>5. ms - Ahead(s - 1) \in Int
      BY <1>1, <3>3
    <3> QED
      BY <2>2, <3>3, <3>4, <3>5
  <2>4. s = n \/ Ahead(s) > ms
    BY <1>2, <1>4, <2>1, StopAtIs
  <2>5. PICK e : e = [proc |-> cpu, delta |-> d, due |-> ms]
    OBVIOUS
  <2>6. e \in WaitEntry
    BY <1>1, <2>3, <2>5 DEF WaitEntry
  <2>7. PICK a : a = SubSeq(waiting, 1, s)
    OBVIOUS
  <2>8. a \in Seq(WaitEntry) /\ Len(a) = s /\ \A i \in 1 .. s : a[i] = waiting[i]
    <3>1. \A i \in 1 .. s : waiting[i] \in WaitEntry
      BY <1>1, <1>2, <2>1
    <3> QED
      BY <2>1, <2>7, <3>1, SubSeqProperties
  <2>9. PICK r : r = SubSeq(waiting, s + 1, n)
    OBVIOUS
  <2>10. r \in Seq(WaitEntry) /\ Len(r) = n - s /\ \A i \in 1 .. n - s : r[i] = waiting[s + i]
    <3>0. PICK m \in Nat : m = s + 1
      BY <2>1
    <3>1. \A i \in m .. n : waiting[i] \in WaitEntry
      BY <1>1, <1>2, <2>1, <3>0
    <3>2. r = SubSeq(waiting, m, n)
      BY <2>9, <3>0
    <3>3. /\ r \in Seq(WaitEntry) /\ Len(r) = IF m <= n THEN n - m + 1 ELSE 0
          /\ \A i \in 1 .. n - m + 1 : r[i] = waiting[m + i - 1]
      BY <3>1, <3>2, SubSeqProperties
    <3>4. ASSUME NEW i \in 1 .. n - s PROVE r[i] = waiting[s + i]
      <4>1. i \in 1 .. n - m + 1 /\ m + i - 1 = s + i
        BY <2>1, <3>0
      <4> QED
        BY <3>3, <4>1
    <3>5. Len(r) = n - s
      BY <2>1, <3>0, <3>3
    <3> QED
      BY <3>3, <3>4, <3>5
  <2>11. PICK b : b = IF r = <<>> THEN <<>> ELSE <<[r[1] EXCEPT !.delta = (@ - d) % Word]>> \o Tail(r)
    OBVIOUS
  <2>12. Inserted(ms) = a \o <<e>> \o b
    BY <1>2, <1>4, <2>1, <2>2, <2>5, <2>7, <2>9, <2>11 DEF Inserted
  <2>13. /\ b \in Seq(WaitEntry) /\ Len(b) = n - s
         /\ \A i \in 1 .. n - s :
               /\ b[i].proc = waiting[s + i].proc /\ b[i].due = waiting[s + i].due
               /\ b[i].delta = IF i = 1 THEN (waiting[s + i].delta - d) % Word ELSE waiting[s + i].delta
    <3>1. CASE r = <<>>
      <4>1. n - s = 0 /\ b = <<>>
        BY <2>1, <2>10, <2>11, <3>1
      <4> QED
        BY <2>1, <4>1
    <3>2. CASE r # <<>>
      <4>1. n - s > 0 /\ r[1] \in WaitEntry
        BY <2>1, <2>10, <3>2
      <4>2. PICK f : f = [r[1] EXCEPT !.delta = (@ - d) % Word]
        OBVIOUS
      <4>3. /\ f \in WaitEntry
            /\ f.proc = r[1].proc /\ f.due = r[1].due /\ f.delta = (r[1].delta - d) % Word
        <5>1. r[1].delta \in Int /\ d \in Int
          BY <1>1, <2>3, <4>1 DEF WaitEntry
        <5>2. \A x \in Int : x % Word \in 0 .. Word - 1
          BY <1>1
        <5>3. (r[1].delta - d) % Word \in 0 .. Word - 1
          BY <5>1, <5>2
        <5> QED
          BY <4>1, <4>2, <5>3 DEF WaitEntry
      <4>4. PICK t : t = Tail(r)
        OBVIOUS
      <4>5. t \in Seq(WaitEntry) /\ Len(t) = n - s - 1 /\ \A i \in 1 .. n - s - 1 : t[i] = r[i + 1]
        BY <2>1, <2>10, <3>2, <4>4, HeadTailProperties
      <4>6. <<f>> \in Seq(WaitEntry) /\ Len(<<f>>) = 1 /\ <<f>>[1] = f
        BY <4>3
      <4>7. b = <<f>> \o t
        BY <2>11, <3>2, <4>2, <4>4
      <4>8. /\ b \in Seq(WaitEntry) /\ Len(b) = 1 + (n - s - 1)
            /\ \A i \in 1 .. 1 + (n - s - 1) : b[i] = IF i <= 1 THEN <<f>>[i] ELSE t[i - 1]
        BY <4>5, <4>6, <4>7, ConcatProperties
      <4>9. Len(b) = n - s
        BY <2>1, <4>8
      <4>10. b[1] = f
        BY <2>1, <4>1, <4>6, <4>8
      <4>11. ASSUME NEW i \in 1 .. n - s, i # 1 PROVE b[i] = waiting[s + i]
        <5>1. i \in 1 .. 1 + (n - s - 1) /\ ~ (i <= 1) /\ i - 1 \in 1 .. n - s - 1 /\ (i - 1) + 1 = i
          BY <2>1, <4>11
        <5> QED
          BY <2>10, <4>5, <4>8, <5>1
      <4>12. r[1] = waiting[s + 1]
        BY <2>1, <2>10, <4>1
      <4> QED
        BY <4>3, <4>8, <4>9, <4>10, <4>11, <4>12
    <3> QED
      BY <3>1, <3>2
  <2>14. PICK w : w = Inserted(ms)
    OBVIOUS
  <2>15. n - s \in Nat
    BY <2>1
  <2>16. /\ w \in Seq(WaitEntry) /\ Len(w) = s + (n - s) + 1
         /\ \A i \in 1 .. s : w[i] = a[i]
         /\ w[s + 1] = e
         /\ \A i \in 1 .. n - s : w[s + 1 + i] = b[i]
    <3>1. w = (a \o <<e>>) \o b
      BY <2>12, <2>14
    <3>2. a \in Seq(WaitEntry) /\ Len(a) = s /\ b \in Seq(WaitEntry) /\ Len(b) = n - s
      BY <2>8, <2>13
    <3>3. /\ w \in Seq(WaitEntry) /\ Len(w) = Len(a) + Len(b) + 1
          /\ \A i \in 1 .. Len(a) : w[i] = a[i]
          /\ w[Len(a) + 1] = e
          /\ \A i \in 1 .. Len(b) : w[Len(a) + 1 + i] = b[i]
      <4>1. a \in Seq(WaitEntry) /\ b \in Seq(WaitEntry) /\ e \in WaitEntry
        BY <2>6, <3>2
      <4> QED
        BY <3>1, <4>1, Joined
    <3> QED
      BY <3>2, <3>3
  <2>17. ASSUME NEW i \in s + 1 .. n
         PROVE  /\ w[i + 1].proc = waiting[i].proc /\ w[i + 1].due = waiting[i].due
                /\ w[i + 1].delta = IF i = s + 1 THEN (waiting[i].delta - d) % Word ELSE waiting[i].delta
    <3>1. /\ i - s \in 1 .. n - s /\ s + 1 + (i - s) = i + 1 /\ s + (i - s) = i
          /\ i - s = 1 <=> i = s + 1
      BY <2>1
    <3>2. PICK k \in 1 .. n - s : k = i - s
      BY <3>1
    <3>3. w[s + 1 + k] = b[k] /\ s + 1 + k = i + 1
      BY <2>16, <3>1, <3>2
    <3>4. /\ b[k].proc = waiting[s + k].proc /\ b[k].due = waiting[s + k].due
          /\ b[k].delta = IF k = 1 THEN (waiting[s + k].delta - d) % Word ELSE waiting[s + k].delta
      BY <2>13
    <3>5. s + k = i /\ (k = 1 <=> i = s + 1)
      BY <3>1, <3>2
    <3> QED
      BY <3>3, <3>4, <3>5
  <2>18. InsertedAt(w, ms, s, d)
    <3>1. s + (n - s) + 1 = n + 1
      BY <2>1
    <3> QED
      BY <1>2, <2>5, <2>8, <2>16, <2>17, <3>1 DEF InsertedAt
  <2>19. s \in 0 .. Len(waiting) /\ s # 0
    BY <1>2, <2>1
  <2> QED
    BY <1>2, <2>2, <2>3, <2>4, <2>14, <2>18, <2>19
<1> QED
  BY <1>3, <1>4

(* What a tick leaves of the delay list.                                   *)
LEMMA StillWaitingIs ==
    ASSUME TypeOK, NEW n \in Nat, n = Expired, NEW v, v = StillWaiting
    PROVE  /\ v \in Seq(WaitEntry) /\ Len(v) = Len(waiting) - n
           /\ \A i \in 1 .. Len(waiting) - n :
                 /\ v[i].proc = waiting[n + i].proc
                 /\ v[i].delta = IF i = 1 THEN waiting[n + i].delta - 1 ELSE waiting[n + i].delta
                 /\ v[i].due = IF waiting[n + i].due < 0 THEN waiting[n + i].due ELSE waiting[n + i].due - 1
<1>1. PICK m \in Nat : m = Len(waiting)
  BY Entries
<1>2. n <= m /\ (n < m => waiting[n + 1].delta # 0)
  BY <1>1, ExpiredIs
<1>3. PICK r : r = SubSeq(waiting, n + 1, m)
  OBVIOUS
<1>4. r \in Seq(WaitEntry) /\ Len(r) = m - n /\ \A i \in 1 .. m - n : r[i] = waiting[n + i]
  <2>1. PICK k \in Nat : k = n + 1
    OBVIOUS
  <2>2. \A i \in k .. m : waiting[i] \in WaitEntry
    BY <1>1, <2>1, Entries
  <2>3. r = SubSeq(waiting, k, m)
    BY <1>3, <2>1
  <2>4. /\ r \in Seq(WaitEntry) /\ Len(r) = IF k <= m THEN m - k + 1 ELSE 0
        /\ \A i \in 1 .. m - k + 1 : r[i] = waiting[k + i - 1]
    BY <2>2, <2>3, SubSeqProperties
  <2>5. ASSUME NEW i \in 1 .. m - n PROVE r[i] = waiting[n + i]
    <3>1. i \in 1 .. m - k + 1 /\ k + i - 1 = n + i
      BY <2>1
    <3> QED
      BY <2>4, <3>1
  <2>6. Len(r) = m - n
    BY <1>2, <2>1, <2>4
  <2> QED
    BY <2>4, <2>5, <2>6
<1>5. PICK s : s = CountedDown(r)
  OBVIOUS
<1>6. /\ s \in Seq(WaitEntry) /\ Len(s) = m - n /\ DOMAIN s = 1 .. m - n
      /\ \A i \in 1 .. m - n :
            /\ s[i].proc = waiting[n + i].proc /\ s[i].due = waiting[n + i].due
            /\ s[i].delta = IF i = 1 THEN waiting[n + i].delta - 1 ELSE waiting[n + i].delta
  <2>1. CASE r = <<>>
    <3>1. s = r /\ m - n = 0
      BY <1>2, <1>4, <1>5, <2>1 DEF CountedDown
    <3> QED
      BY <1>4, <3>1
  <2>2. CASE r # <<>>
    <3>1. n < m
      BY <1>2, <1>4, <2>2
    <3>2. 1 \in 1 .. m - n /\ n + 1 \in 1 .. m
      BY <3>1
    <3>3. PICK d \in Nat : d = waiting[n + 1].delta /\ d # 0 /\ d < Word
      BY <1>1, <1>2, <3>1, <3>2, Entries
    <3>4. r[1] \in WaitEntry /\ r[1].delta = d
      BY <1>4, <3>2, <3>3
    <3>5. Word \in Nat /\ Word > 0
      BY Entries
    <3>6. (d - 1) % Word = d - 1 /\ d - 1 \in 0 .. Word - 1
      <4>1. PICK c \in Nat : c = d - 1 /\ c < Word
        BY <3>3, <3>5
      <4> QED
        BY <3>5, <4>1
    <3>7. PICK f : f = [r[1] EXCEPT !.delta = (@ - 1) % Word]
      OBVIOUS
    <3>8. f \in WaitEntry /\ f.proc = r[1].proc /\ f.due = r[1].due /\ f.delta = d - 1
      BY <3>4, <3>6, <3>7 DEF WaitEntry
    <3>9. s = [r EXCEPT ![1] = f]
      BY <1>5, <2>2, <3>7 DEF CountedDown
    <3>10. /\ s \in Seq(WaitEntry) /\ Len(s) = Len(r)
           /\ \A i \in 1 .. Len(r) : s[i] = IF i = 1 THEN f ELSE r[i]
      BY <1>4, <3>2, <3>8, <3>9, ExceptSeq
    <3>11. \A i \in 1 .. m - n : s[i] = IF i = 1 THEN f ELSE waiting[n + i]
      BY <1>4, <3>10
    <3>12. f.proc = waiting[n + 1].proc /\ f.due = waiting[n + 1].due /\ f.delta = waiting[n + 1].delta - 1
      BY <1>4, <3>2, <3>3, <3>8
    <3> QED
      BY <1>4, <3>10, <3>11, <3>12
  <2> QED
    BY <2>1, <2>2
<1>7. v = [i \in 1 .. m - n |-> [s[i] EXCEPT !.due = IF @ < 0 THEN @ ELSE @ - 1]]
  BY <1>1, <1>3, <1>5, <1>6 DEF StillWaiting
<1>8. ASSUME NEW i \in 1 .. m - n
      PROVE  /\ v[i] \in WaitEntry
             /\ v[i].proc = s[i].proc /\ v[i].delta = s[i].delta
             /\ v[i].due = IF s[i].due < 0 THEN s[i].due ELSE s[i].due - 1
  <2>1. s[i] \in WaitEntry
    BY <1>6
  <2>2. v[i] = [s[i] EXCEPT !.due = IF @ < 0 THEN @ ELSE @ - 1]
    BY <1>7
  <2>3. \A x \in Nat \cup {-1} : (IF x < 0 THEN x ELSE x - 1) \in Nat \cup {-1}
    OBVIOUS
  <2> QED
    BY <2>1, <2>2, <2>3 DEF WaitEntry
<1>9. v \in Seq(WaitEntry) /\ Len(v) = m - n
  <2>1. m - n \in Nat
    BY <1>2
  <2>2. v \in [1 .. m - n -> WaitEntry]
    BY <1>7, <1>8
  <2> QED
    BY <2>1, <2>2
<1>10. ASSUME NEW i \in 1 .. m - n
       PROVE  /\ v[i].proc = waiting[n + i].proc
              /\ v[i].delta = IF i = 1 THEN waiting[n + i].delta - 1 ELSE waiting[n + i].delta
              /\ v[i].due = IF waiting[n + i].due < 0 THEN waiting[n + i].due ELSE waiting[n + i].due - 1
  <2>1. /\ v[i].proc = s[i].proc /\ v[i].delta = s[i].delta
        /\ v[i].due = IF s[i].due < 0 THEN s[i].due ELSE s[i].due - 1
    BY <1>8
  <2>2. /\ s[i].proc = waiting[n + i].proc /\ s[i].due = waiting[n + i].due
        /\ s[i].delta = IF i = 1 THEN waiting[n + i].delta - 1 ELSE waiting[n + i].delta
    BY <1>6
  <2> QED
    BY <2>1, <2>2
<1> QED
  BY <1>1, <1>9, <1>10

(* One after the other, w[1] first, goes to the front of the list.         *)
Pushed(nx, head, n, w, ny, top) ==
    /\ nx \in Links /\ head \in Procs \cup {Null} /\ Linked(nx, head)
    /\ n \in Nat /\ w \in [1 .. n -> Procs]
    /\ \A i, j \in 1 .. n : w[i] = w[j] => i = j
    /\ \A i \in 1 .. n : w[i] \notin Nodes(nx, head)
    /\ ny \in Links
    /\ \A p \in Procs : (\A i \in 1 .. n : w[i] # p) => ny[p] = nx[p]
    /\ \A i \in 1 .. n : ny[w[i]] = IF i = 1 THEN head ELSE w[i - 1]
    /\ top = IF n = 0 THEN head ELSE w[n]

LEMMA PushedNodes ==
    ASSUME NEW nx, NEW head, NEW n, NEW w, NEW ny, NEW top, Pushed(nx, head, n, w, ny, top)
    PROVE  /\ Nodes(ny, top) = Nodes(nx, head) \cup {w[i] : i \in 1 .. n}
           /\ Linked(ny, top)
<1> USE DEF Pushed
<1>1. PICK W : W = {w[i] : i \in 1 .. n}
  OBVIOUS
<1> W \in SUBSET Procs
  BY <1>1
<1>2. PICK N \in SUBSET Procs : N = Nodes(nx, head)
  BY NodesAreProcs
<1>3. \A p \in N : ny[p] = nx[p]
  BY <1>2
<1>4. CASE n = 0
  <2>1. top = head /\ W = {}
    BY <1>1, <1>4
  <2> QED
    BY <1>1, <1>2, <1>3, <2>1, SameNodes
<1>5. CASE n # 0
  <2>1. n \in 1 .. n /\ 1 \in 1 .. n /\ top = w[n] /\ top \in Procs /\ top \in W
    BY <1>1, <1>5
  <2>2. head = Null => N = {}
    BY <1>2, NullNodes
  <2>3. head # Null => head \in N /\ \A p \in N : nx[p] # Null => nx[p] \in N
    BY <1>2, NodesHold
  <2>4. Nodes(ny, top) \subseteq N \cup W
    <3>1. PICK s \in SUBSET Procs : s = N \cup W
      OBVIOUS
    <3>2. Closed(ny, s)
      <4> SUFFICES ASSUME NEW p \in s, ny[p] # Null PROVE ny[p] \in s
        BY DEF Closed
      <4>1. CASE p \in N
        BY <1>3, <2>2, <2>3, <3>1, <4>1
      <4>2. CASE p \in W
        <5>1. PICK i \in 1 .. n : p = w[i]
          BY <1>1, <4>2
        <5>2. CASE i = 1
          BY <2>3, <3>1, <5>1, <5>2
        <5>3. CASE i # 1
          <6>1. i - 1 \in 1 .. n
            BY <5>3
          <6> QED
            BY <1>1, <3>1, <5>1, <5>3, <6>1
        <5> QED
          BY <5>2, <5>3
      <4> QED
        BY <3>1, <4>1, <4>2
    <3> QED
      BY <2>1, <3>1, <3>2, NodesLeast
  <2>5. PICK t \in SUBSET Procs : t = Nodes(ny, top)
    BY NodesAreProcs
  <2>6. top \in t /\ \A p \in t : ny[p] # Null => ny[p] \in t
    BY <2>1, <2>5, NodesHold
  <2>7. \A i \in 1 .. n : w[i] \in t
    <3> SUFFICES ASSUME NEW k \in 1 .. n, w[k] \notin t PROVE FALSE
      OBVIOUS
    <3>1. PICK S : S = {j \in 0 .. n - 1 : w[n - j] \notin t}
      OBVIOUS
    <3> S \in SUBSET Nat /\ S # {}
      <4>1. n - k \in 0 .. n - 1 /\ n - (n - k) = k
        OBVIOUS
      <4>2. n - k \in S
        BY <3>1, <4>1
      <4>3. S \in SUBSET Nat
        BY <3>1
      <4> QED
        BY <4>2, <4>3
    <3>2. PICK j \in S : \A l \in S : j <= l
      BY LeastExists
    <3>3. j \in 0 .. n - 1 /\ w[n - j] \notin t
      BY <3>1, <3>2
    <3>4. j # 0
      BY <2>1, <2>6, <3>3
    <3>5. j - 1 \in 0 .. n - 1 /\ j - 1 \notin S
      BY <3>2, <3>3, <3>4
    <3>6. PICK i \in 1 .. n : i = n - (j - 1) /\ i # 1 /\ i - 1 = n - j
      BY <3>3, <3>4
    <3>7. w[i] \in t
      BY <3>1, <3>5, <3>6
    <3>8. ny[w[i]] = w[n - j] /\ w[n - j] \in Procs
      BY <3>3, <3>6
    <3> QED
      BY <2>6, <3>3, <3>7, <3>8, SchedulerConstants
  <2>8. N \subseteq t
    <3>1. CASE head = Null
      BY <2>2, <3>1
    <3>2. CASE head # Null
      <4>1. ny[w[1]] = head
        BY <2>1
      <4>2. head \in t
        BY <2>1, <2>6, <2>7, <3>2, <4>1
      <4>3. PICK s \in SUBSET Procs : s = t \cap N
        OBVIOUS
      <4>4. Closed(nx, s)
        BY <1>3, <2>3, <2>6, <3>2, <4>3 DEF Closed
      <4>5. head \in s /\ head \in Procs
        BY <2>3, <3>2, <4>2, <4>3
      <4>6. Nodes(nx, head) \subseteq s
        BY <4>4, <4>5, NodesLeast
      <4> QED
        BY <1>2, <4>3, <4>6
    <3> QED
      BY <3>1, <3>2
  <2>9. Nodes(ny, top) = N \cup W
    BY <1>1, <2>4, <2>5, <2>7, <2>8
  <2>10. \A p \in N : ny[p] \in N \cup {Null} /\ ny[p] # head
    <3>1. \A p \in N : nx[p] # head
      BY <1>2 DEF Linked
    <3> QED
      BY <1>3, <2>2, <2>3, <3>1
  <2>11. \A i \in 1 .. n : w[i] \notin N /\ w[i] # Null
    BY <1>2, SchedulerConstants
  <2>12. \A i \in 1 .. n : ny[w[i]] = IF i = 1 THEN head ELSE w[i - 1]
    OBVIOUS
  <2>13. \A i \in 1 .. n : i # 1 => i - 1 \in 1 .. n
    OBVIOUS
  <2>14. ASSUME NEW p \in N, NEW i \in 1 .. n PROVE ny[p] # ny[w[i]]
    <3>1. CASE i = 1
      BY <2>10, <2>12, <3>1
    <3>2. CASE i # 1
      <4>1. i - 1 \in 1 .. n
        BY <3>2
      <4> QED
        BY <2>10, <2>11, <2>12, <3>2, <4>1
    <3> QED
      BY <3>1, <3>2
  <2>15. ASSUME NEW i \in 1 .. n, NEW j \in 1 .. n, ny[w[i]] = ny[w[j]] PROVE i = j
    <3>1. head \notin W
      BY <1>1, <2>3, <2>11
    <3>2. ASSUME NEW x \in 1 .. n, x # 1 PROVE x - 1 \in 1 .. n /\ w[x - 1] \in W /\ ny[w[x]] = w[x - 1]
      BY <1>1, <3>2
    <3>3. CASE i = 1 \/ j = 1
      BY <2>12, <2>15, <3>1, <3>2, <3>3
    <3>4. CASE i # 1 /\ j # 1
      <4>1. i - 1 \in 1 .. n /\ j - 1 \in 1 .. n /\ w[i - 1] = w[j - 1]
        BY <2>15, <3>2, <3>4
      <4>2. i - 1 = j - 1
        BY <4>1
      <4> QED
        BY <4>2
    <3> QED
      BY <3>3, <3>4
  <2>16. \A p, q \in N \cup W : ny[p] = ny[q] => p = q
    <3>1. \A p, q \in N : ny[p] = ny[q] => p = q
      BY <1>2, <1>3 DEF Linked
    <3> QED
      BY <1>1, <2>14, <2>15, <3>1
  <2>17. \A p \in N \cup W : ny[p] # top
    <3>1. \A p \in N : ny[p] # top
      BY <2>1, <2>10, <2>11
    <3>2. ASSUME NEW i \in 1 .. n PROVE ny[w[i]] # top
      <4>1. CASE i = 1
        BY <2>1, <2>3, <2>11, <2>12, <4>1
      <4>2. CASE i # 1
        <5>1. i - 1 \in 1 .. n /\ i - 1 # n
          BY <4>2
        <5> QED
          BY <2>1, <2>12, <4>2, <5>1
      <4> QED
        BY <4>1, <4>2
    <3> QED
      BY <1>1, <3>1, <3>2
  <2>18. \E p \in N \cup W : ny[p] = Null
    <3>1. CASE head = Null
      BY <1>1, <2>1, <2>12, <3>1
    <3>2. CASE head # Null
      BY <1>2, <1>3, <3>2 DEF Linked
    <3> QED
      BY <3>1, <3>2
  <2> QED
    BY <1>1, <1>2, <2>1, <2>9, <2>16, <2>17, <2>18 DEF Linked
<1> QED
  BY <1>4, <1>5

-----------------------------------------------------------------------------
(* The operations                                                          *)

LEMMA ListsHold ==
    ASSUME SchedInv
    PROVE  /\ next \in Links /\ cpu \in Procs /\ Null \notin Procs
           /\ active \in Procs \cup {Null} /\ asleep \in Procs \cup {Null}
           /\ Active \subseteq Procs /\ Asleep \subseteq Procs /\ Active \cap Asleep = {}
           /\ active \in Procs /\ active \in Active
           /\ asleep # Null => asleep \in Asleep
           /\ \A p \in Active : next[p] # Null => next[p] \in Active
           /\ \A p \in Asleep : next[p] # Null => next[p] \in Asleep
<1>1. /\ next \in Links /\ cpu \in Procs /\ Null \notin Procs
      /\ active \in Procs \cup {Null} /\ asleep \in Procs \cup {Null}
  BY SchedulerConstants DEF SchedInv, TypeOK, Links
<1>2. Active \subseteq Procs /\ Asleep \subseteq Procs /\ Active \cap Asleep = {}
  BY NodesAreProcs DEF SchedInv, Active, Asleep
<1>3. active # Null
  <2>1. Active # {}
    BY DEF SchedInv, Current
  <2> QED
    BY <2>1, NullNodes DEF Active
<1>4. active \in Procs
  BY <1>1, <1>3
<1>5. active \in Active /\ \A p \in Active : next[p] # Null => next[p] \in Active
  BY <1>1, <1>4, NodesHold DEF Active
<1>6. /\ asleep # Null => asleep \in Asleep
      /\ \A p \in Asleep : next[p] # Null => next[p] \in Asleep
  <2>1. CASE asleep = Null
    BY <2>1, NullNodes DEF Asleep
  <2>2. CASE asleep \in Procs
    BY <1>1, <2>2, NodesHold DEF Asleep
  <2> QED
    BY <1>1, <2>1, <2>2
<1> QED
  BY <1>1, <1>2, <1>4, <1>5, <1>6

(* Who makes a system call is active.                                      *)
LEMMA Runner ==
    ASSUME SchedInv, Runs("run")
    PROVE  /\ cpu \in Procs /\ cpu = current /\ pc[cpu] = "run" /\ status[cpu] = "active"
           /\ cpu \in Active /\ cpu \notin Delayed /\ cpu \notin Asleep
<1>1. cpu \in Procs /\ status[cpu] \in {"unused", "active", "sleep", "null"}
  BY DEF SchedInv, TypeOK
<1>2. pc[cpu] = "run" /\ ~ hlt /\ Place(cpu) /\ Current
  BY <1>1 DEF SchedInv, Runs
<1> QED
  BY <1>1, <1>2 DEF Place, Current

LEMMA WaitingSame ==
    ASSUME SchedInv, UNCHANGED waiting
    PROVE  Once' /\ InTime' /\ Delayed' = Delayed
<1>1. Once' /\ Delayed' = Delayed
  BY DEF SchedInv, Once, Delayed
<1>2. InTime'
  BY DEF SchedInv, InTime, Sums
<1> QED
  BY <1>1, <1>2

LEMMA YieldKeeps ==
    ASSUME SchedInv, Yield
    PROVE  SchedInv'
<1>1. /\ UNCHANGED <<next, active, asleep, waiting, status, current, cpu, pc, idle, lost, fault>>
      /\ timeRem' = [timeRem EXCEPT ![current] = 0] /\ hlt' = TRUE
  BY DEF Yield, GiveUp, lists
<1>2. cpu \in Procs /\ cpu = current
  BY DEF SchedInv, TypeOK, Current
<1>3. timeRem' \in [Procs -> 0 .. Slots] /\ timeRem'[cpu] = 0
  <2>1. 0 \in 0 .. Slots
    BY SchedulerConstants
  <2> QED
    BY <1>1, <1>2, <2>1 DEF SchedInv, TypeOK
<1>4. TypeOK'
  BY <1>1, <1>3 DEF SchedInv, TypeOK
<1>5. Active' = Active /\ Asleep' = Asleep /\ Linked(next, active)' /\ Linked(next, asleep)'
  BY <1>1 DEF SchedInv, Active, Asleep
<1>6. \A p \in Procs : Place(p)'
  BY <1>1, <1>5, WaitingSame DEF SchedInv, Place
<1>7. Current'
  BY <1>1, <1>3, <1>5, WaitingSame DEF SchedInv, Current
<1> QED
  BY <1>1, <1>4, <1>5, <1>6, <1>7, WaitingSame DEF SchedInv

LEMMA SleepMarkKeeps ==
    ASSUME SchedInv, OthersActive, SleepMark
    PROVE  SchedInv'
<1>1. /\ UNCHANGED <<next, active, asleep, waiting, timeRem, current, cpu, hlt, idle, lost, fault>>
      /\ status' = [status EXCEPT ![cpu] = "sleep"]
      /\ pc' = [pc EXCEPT ![cpu] = "unlink"]
      /\ Runs("run")
  BY DEF SleepMark, lists
<1>2. cpu \in Procs /\ cpu \in Active /\ cpu \notin Delayed /\ cpu \notin Asleep
  BY <1>1, Runner
<1>3. TypeOK'
  BY <1>1 DEF SchedInv, TypeOK
<1>4. Active' = Active /\ Asleep' = Asleep /\ Linked(next, active)' /\ Linked(next, asleep)'
  BY <1>1 DEF SchedInv, Active, Asleep
<1>5. /\ status'[cpu] = "sleep" /\ pc'[cpu] = "unlink"
      /\ \A p \in Procs : p # cpu => status'[p] = status[p] /\ pc'[p] = pc[p]
  BY <1>1, <1>2 DEF SchedInv, TypeOK
<1>6. \A p \in Procs : Place(p)'
  BY <1>1, <1>2, <1>4, <1>5, WaitingSame DEF SchedInv, Place
<1>7. Current'
  BY <1>1, <1>2, <1>4, <1>5 DEF SchedInv, Current, OthersActive
<1> QED
  BY <1>1, <1>3, <1>4, <1>6, <1>7, WaitingSame DEF SchedInv

(* A process leaves the active list, at the head of it or not.             *)
LEMMA Leaves ==
    ASSUME SchedInv, NEW p \in Active,
           NEW h, h = IF active = p THEN next[p] ELSE active,
           NEW nx, nx = IF active = p THEN next ELSE Unlinked(next, active, p)
    PROVE  /\ active = p \/ Befores(next, active, p) # {}
           /\ nx \in Links /\ nx[p] = next[p]
           /\ Nodes(nx, h) = Active \ {p} /\ Linked(nx, h)
           /\ Nodes(nx, asleep) = Asleep /\ Linked(nx, asleep)
<1>1. next \in Links /\ active \in Procs /\ p \in Nodes(next, active)
  BY ListsHold DEF Active
<1>2. Linked(next, active) /\ Linked(next, asleep)
  BY DEF SchedInv
<1>3. CASE active = p
  <2>1. Nodes(next, next[p]) = Active \ {p} /\ Linked(next, next[p])
    BY <1>1, <1>2, <1>3, TailNodes DEF Active
  <2> QED
    BY <1>1, <1>2, <1>3, <2>1 DEF Asleep
<1>4. CASE active # p
  <2>1. nx = Unlinked(next, active, p) /\ h = active
    BY <1>4
  <2>2. /\ nx \in Links /\ nx[p] = next[p]
        /\ Nodes(nx, active) = Nodes(next, active) \ {p} /\ Linked(nx, active)
        /\ \A q \in Procs : q \notin Nodes(next, active) => nx[q] = next[q]
    BY <1>1, <1>2, <1>4, <2>1, UnlinkedNodes
  <2>3. \A q \in Nodes(next, asleep) : nx[q] = next[q]
    BY <2>2, ListsHold DEF Active, Asleep
  <2>4. Nodes(nx, asleep) = Asleep /\ Linked(nx, asleep)
    BY <1>1, <1>2, <2>2, <2>3, SameNodes, ListsHold DEF Asleep
  <2>5. Befores(next, active, p) # {}
    BY <1>1, <1>4, Before DEF Befores
  <2> QED
    BY <2>1, <2>2, <2>4, <2>5 DEF Active
<1> QED
  BY <1>3, <1>4

LEMMA SleepUnlinkKeeps ==
    ASSUME SchedInv, SleepUnlink
    PROVE  SchedInv'
<1>1. cpu \in Procs /\ pc[cpu] = "unlink"
  BY DEF SchedInv, TypeOK, SleepUnlink, Runs
<1>2. status[cpu] = "sleep" /\ cpu \in Active /\ cpu \notin Asleep /\ cpu \notin Delayed
  BY <1>1 DEF SchedInv, Place
<1>3. ~ (active # cpu /\ Befores(next, active, cpu) = {})
  BY <1>2, Leaves
<1>4. /\ active' = IF active = cpu THEN next[cpu] ELSE active
      /\ next' = IF active = cpu THEN next ELSE Unlinked(next, active, cpu)
      /\ pc' = [pc EXCEPT ![cpu] = "append"]
      /\ UNCHANGED <<asleep, waiting, status, timeRem, current, cpu, hlt, idle, lost, fault>>
  BY <1>3 DEF SleepUnlink
<1>5. /\ next' \in Links
      /\ Active' = Active \ {cpu} /\ Linked(next, active)'
      /\ Asleep' = Asleep /\ Linked(next, asleep)'
  <2>1. PICK nx, h : nx = next' /\ h = active'
    OBVIOUS
  <2>2. /\ nx \in Links
        /\ Nodes(nx, h) = Active \ {cpu} /\ Linked(nx, h)
        /\ Nodes(nx, asleep) = Asleep /\ Linked(nx, asleep)
    BY <1>2, <1>4, <2>1, Leaves
  <2> QED
    BY <1>4, <2>1, <2>2 DEF Active, Asleep
<1>6. TypeOK'
  <2>1. active' \in Procs \cup {Null}
    BY <1>5 DEF Linked
  <2> QED
    BY <1>4, <1>5, <2>1 DEF SchedInv, TypeOK, Links
<1>7. pc'[cpu] = "append" /\ \A p \in Procs : p # cpu => pc'[p] = pc[p]
  BY <1>1, <1>4 DEF SchedInv, TypeOK
<1>8. \A p \in Procs : Place(p)'
  BY <1>1, <1>2, <1>4, <1>5, <1>7, WaitingSame DEF SchedInv, Place
<1>9. Current'
  BY <1>1, <1>4, <1>5, <1>7 DEF SchedInv, Current
<1>10. Active' \cap Asleep' = {}
  BY <1>5 DEF SchedInv
<1> QED
  BY <1>4, <1>5, <1>6, <1>8, <1>9, <1>10, WaitingSame DEF SchedInv

LEMMA SleepAppendKeeps ==
    ASSUME SchedInv, SleepAppend
    PROVE  SchedInv'
<1>1. cpu \in Procs /\ pc[cpu] = "append" /\ cpu = current
  BY DEF SchedInv, TypeOK, SleepAppend, Runs
<1>2. status[cpu] = "sleep" /\ cpu \notin Active /\ cpu \notin Asleep /\ cpu \notin Delayed
  BY <1>1 DEF SchedInv, Place
<1>3. PICK l : l = Appended(next, asleep, cpu)
  OBVIOUS
<1>4. /\ next' = l.next /\ asleep' = l.head
      /\ pc' = [pc EXCEPT ![cpu] = "run"]
      /\ timeRem' = [timeRem EXCEPT ![cpu] = 0] /\ hlt' = TRUE
      /\ UNCHANGED <<active, waiting, status, current, cpu, idle, lost, fault>>
  BY <1>1, <1>3 DEF SleepAppend, GiveUp
<1>5. /\ l.next \in Links /\ l.head \in Procs
      /\ Nodes(l.next, l.head) = Asleep \cup {cpu} /\ Linked(l.next, l.head)
      /\ l.next[cpu] = Null
      /\ \A q \in Active : l.next[q] = next[q]
  <2>1. next \in Links /\ asleep \in Procs \cup {Null} /\ Linked(next, asleep)
        /\ cpu \notin Nodes(next, asleep)
    BY <1>2, ListsHold DEF SchedInv, Asleep
  <2>2. /\ l.next \in Links /\ l.head \in Procs
        /\ Nodes(l.next, l.head) = Nodes(next, asleep) \cup {cpu} /\ Linked(l.next, l.head)
        /\ l.next[cpu] = Null
        /\ \A q \in Procs : q # cpu /\ (q \in Nodes(next, asleep) => next[q] # Null) => l.next[q] = next[q]
    BY <1>1, <1>3, <2>1, AppendedNodes
  <2>3. \A q \in Active : q \in Procs /\ q # cpu /\ q \notin Nodes(next, asleep)
    BY <1>2, ListsHold DEF Asleep
  <2> QED
    BY <2>2, <2>3 DEF Asleep
<1>6. Nodes(l.next, active) = Active /\ Linked(l.next, active)
  BY <1>5, SameNodes, ListsHold DEF SchedInv, Active
<1>7. /\ Active' = Active /\ Linked(next, active)'
      /\ Asleep' = Asleep \cup {cpu} /\ Linked(next, asleep)'
  BY <1>4, <1>5, <1>6 DEF Active, Asleep
<1>8. TypeOK'
  <2>1. 0 \in 0 .. Slots
    BY SchedulerConstants
  <2>2. timeRem' \in [Procs -> 0 .. Slots]
    BY <1>4, <2>1 DEF SchedInv, TypeOK
  <2> QED
    BY <1>4, <1>5, <2>2 DEF SchedInv, TypeOK, Links
<1>9. pc'[cpu] = "run" /\ \A p \in Procs : p # cpu => pc'[p] = pc[p]
  BY <1>1, <1>4 DEF SchedInv, TypeOK
<1>10. \A p \in Procs : Place(p)'
  BY <1>1, <1>2, <1>4, <1>7, <1>9, WaitingSame DEF SchedInv, Place
<1>11. Current'
  <2>1. timeRem'[cpu] = 0 /\ next'[cpu] = Null
    BY <1>1, <1>4, <1>5 DEF SchedInv, TypeOK
  <2> QED
    BY <1>1, <1>2, <1>4, <1>7, <1>9, <2>1, WaitingSame DEF SchedInv, Current
<1>12. Active' \cap Asleep' = {}
  BY <1>2, <1>7 DEF SchedInv
<1> QED
  BY <1>4, <1>7, <1>8, <1>10, <1>11, <1>12, WaitingSame DEF SchedInv

(* Nobody on a list points to itself.                                      *)
LEMMA NoLoop ==
    ASSUME NEW nx \in Links, NEW head \in Procs, Linked(nx, head), NEW p \in Nodes(nx, head)
    PROVE  nx[p] # p
<1> SUFFICES ASSUME nx[p] = p PROVE FALSE
  OBVIOUS
<1>1. p # head
  BY DEF Linked
<1>2. PICK s \in SUBSET Procs : s = Nodes(nx, head) \ {p}
  BY NodesHold
<1>3. Closed(nx, s)
  <2> SUFFICES ASSUME NEW q \in s, nx[q] # Null PROVE nx[q] \in s
    BY DEF Closed
  <2>1. nx[q] \in Nodes(nx, head)
    BY <1>2, NodesHold
  <2>2. nx[q] # p
    BY <1>2 DEF Linked
  <2> QED
    BY <1>2, <2>1, <2>2
<1>4. head \in s
  BY <1>1, <1>2, NodesHold
<1> QED
  BY <1>2, <1>3, <1>4, NodesLeast

LEMMA DelayRemoveKeeps ==
    ASSUME SchedInv, DelayRemove
    PROVE  SchedInv'
<1>1. cpu \in Procs /\ pc[cpu] = "remove" /\ cpu = current
  BY DEF SchedInv, TypeOK, DelayRemove, Runs
<1>2. status[cpu] = "active" /\ cpu \in Active /\ cpu \notin Asleep /\ cpu \in Delayed
  BY <1>1 DEF SchedInv, Place
<1>3. active \in Procs /\ active # Null
  BY ListsHold
<1>4. ~ (active \notin {Null, cpu} /\ Befores(next, active, cpu) = {})
  BY <1>2, Leaves
<1>5. /\ active' = IF active = cpu THEN next[cpu] ELSE active
      /\ next' = IF active = cpu THEN next ELSE Unlinked(next, active, cpu)
      /\ pc' = [pc EXCEPT ![cpu] = "run"]
      /\ timeRem' = [timeRem EXCEPT ![cpu] = 0] /\ hlt' = TRUE
      /\ UNCHANGED <<asleep, waiting, status, current, cpu, idle, lost, fault>>
  BY <1>1, <1>3, <1>4 DEF DelayRemove, GiveUp
<1>6. /\ next' \in Links /\ next'[cpu] = next[cpu]
      /\ Active' = Active \ {cpu} /\ Linked(next, active)'
      /\ Asleep' = Asleep /\ Linked(next, asleep)'
  <2>1. PICK nx, h : nx = next' /\ h = active'
    OBVIOUS
  <2>2. /\ nx \in Links /\ nx[cpu] = next[cpu]
        /\ Nodes(nx, h) = Active \ {cpu} /\ Linked(nx, h)
        /\ Nodes(nx, asleep) = Asleep /\ Linked(nx, asleep)
    BY <1>2, <1>5, <2>1, Leaves
  <2> QED
    BY <1>5, <2>1, <2>2 DEF Active, Asleep
<1>7. next'[cpu] \in Active' \cup {Null}
  <2>1. next[cpu] # cpu
    BY <1>2, <1>3, ListsHold, NoLoop DEF SchedInv, Active
  <2> QED
    BY <1>2, <1>6, <2>1, ListsHold
<1>8. timeRem' \in [Procs -> 0 .. Slots] /\ timeRem'[cpu] = 0
  <2>1. 0 \in 0 .. Slots
    BY SchedulerConstants
  <2> QED
    BY <1>1, <1>5, <2>1 DEF SchedInv, TypeOK
<1>9. TypeOK'
  <2>1. active' \in Procs \cup {Null}
    BY <1>6 DEF Linked
  <2> QED
    BY <1>5, <1>6, <1>8, <2>1 DEF SchedInv, TypeOK, Links
<1>10. pc'[cpu] = "run" /\ \A p \in Procs : p # cpu => pc'[p] = pc[p]
  BY <1>1, <1>5 DEF SchedInv, TypeOK
<1>11. \A p \in Procs : Place(p)'
  BY <1>1, <1>2, <1>5, <1>6, <1>10, WaitingSame DEF SchedInv, Place
<1>12. Current'
  BY <1>1, <1>2, <1>5, <1>6, <1>7, <1>8, <1>10, WaitingSame DEF SchedInv, Current
<1>13. Active' \cap Asleep' = {}
  BY <1>6 DEF SchedInv
<1> QED
  BY <1>5, <1>6, <1>9, <1>11, <1>12, <1>13, WaitingSame DEF SchedInv

LEMMA ExitKeeps ==
    ASSUME SchedInv, OthersActive, QuietExit
    PROVE  SchedInv'
<1>1. /\ cpu \in Procs /\ cpu = current /\ pc[cpu] = "run" /\ status[cpu] = "active"
      /\ cpu \in Active /\ cpu \notin Delayed /\ cpu \notin Asleep
  BY Runner DEF QuietExit, Exit
<1>2. active \in Procs /\ active # Null /\ asleep # Null /\ asleep \in Procs /\ asleep # cpu
  BY <1>1, ListsHold DEF QuietExit
<1>3. PICK nx : nx = IF active = cpu THEN next ELSE Unlinked(next, active, cpu)
  OBVIOUS
<1>4. PICK h : h = IF active = cpu THEN next[cpu] ELSE active
  OBVIOUS
<1>5. /\ nx \in Links
      /\ Nodes(nx, h) = Active \ {cpu} /\ Linked(nx, h)
      /\ Nodes(nx, asleep) = Asleep /\ Linked(nx, asleep)
  BY <1>1, <1>3, <1>4, Leaves
<1>6. Unlinked(nx, asleep, cpu) = nx
  <2>1. cpu # Null
    BY <1>1, SchedulerConstants
  <2>2. \A q \in Nodes(nx, asleep) : nx[q] # cpu
    BY <1>1, <1>2, <1>5, <2>1, NodesHold
  <2> QED
    BY <1>5, <2>2 DEF Unlinked, Befores
<1>7. /\ active' = h /\ asleep' = asleep /\ next' = nx
      /\ status' = [status EXCEPT ![cpu] = "null"]
      /\ pc' = [pc EXCEPT ![cpu] = "gone"]
      /\ hlt' = TRUE
      /\ UNCHANGED <<waiting, timeRem, current, cpu, idle, lost, fault>>
  BY <1>2, <1>3, <1>4, <1>6 DEF QuietExit, Exit
<1>8. /\ Active' = Active \ {cpu} /\ Linked(next, active)'
      /\ Asleep' = Asleep /\ Linked(next, asleep)'
  BY <1>5, <1>7 DEF Active, Asleep
<1>9. TypeOK'
  <2>1. h \in Procs \cup {Null}
    BY <1>5 DEF Linked
  <2> QED
    BY <1>5, <1>7, <2>1 DEF SchedInv, TypeOK, Links
<1>10. /\ pc'[cpu] = "gone" /\ \A p \in Procs : p # cpu => pc'[p] = pc[p]
       /\ status'[cpu] = "null" /\ \A p \in Procs : p # cpu => status'[p] = status[p]
  BY <1>1, <1>7 DEF SchedInv, TypeOK
<1>11. \A p \in Procs : Place(p)'
  BY <1>1, <1>7, <1>8, <1>10, WaitingSame DEF SchedInv, Place
<1>12. Current'
  BY <1>1, <1>7, <1>8, <1>10, WaitingSame DEF SchedInv, Current, OthersActive
<1>13. Active' \cap Asleep' = {}
  BY <1>8 DEF SchedInv
<1> QED
  BY <1>7, <1>8, <1>9, <1>11, <1>12, <1>13, WaitingSame DEF SchedInv

LEMMA ForkKeeps ==
    ASSUME SchedInv, NEW q \in Procs, Fork(q)
    PROVE  SchedInv'
<1>1. /\ cpu \in Procs /\ cpu = current /\ pc[cpu] = "run" /\ status[cpu] = "active"
      /\ cpu \in Active /\ cpu \notin Delayed /\ cpu \notin Asleep
  BY Runner DEF Fork
<1>2. pc[q] = "run" /\ status[q] = "unused" /\ q # cpu
      /\ q \notin Active /\ q \notin Asleep /\ q \notin Delayed
  <2>1. status[q] = "unused" /\ q # cpu
    BY <1>1 DEF Fork
  <2>2. pc[q] \in {"run", "gone", "unlink", "append", "remove"}
    BY DEF SchedInv, TypeOK
  <2>3. Place(q)
    BY DEF SchedInv
  <2> QED
    BY <2>1, <2>2, <2>3 DEF Place
<1>3. PICK l : l = Appended(next, active, q)
  OBVIOUS
<1>4. /\ next' = l.next
      /\ status' = [status EXCEPT ![q] = "active"]
      /\ timeRem' = [timeRem EXCEPT ![q] = Slots]
      /\ pc' = [pc EXCEPT ![q] = "run"]
      /\ UNCHANGED <<active, asleep, waiting, current, cpu, hlt, idle, lost, fault>>
  BY <1>3 DEF Fork
<1>5. next \in Links /\ active \in Procs /\ active # Null /\ Linked(next, active)
      /\ q \notin Nodes(next, active)
  BY <1>2, ListsHold DEF SchedInv, Active
<1>6. /\ l.next \in Links
      /\ Nodes(l.next, active) = Active \cup {q} /\ Linked(l.next, active)
      /\ \A p \in Asleep : l.next[p] = next[p]
  <2>1. /\ l.next \in Links
        /\ l.head = active
        /\ Nodes(l.next, l.head) = Nodes(next, active) \cup {q} /\ Linked(l.next, l.head)
        /\ \A p \in Procs : p # q /\ (p \in Nodes(next, active) => next[p] # Null) => l.next[p] = next[p]
    BY <1>3, <1>5, AppendedNodes
  <2>2. \A p \in Asleep : p \in Procs /\ p # q /\ p \notin Nodes(next, active)
    BY <1>2, ListsHold DEF Active
  <2> QED
    BY <2>1, <2>2 DEF Active
<1>7. Nodes(l.next, asleep) = Asleep /\ Linked(l.next, asleep)
  BY <1>6, SameNodes, ListsHold DEF SchedInv, Asleep
<1>8. /\ Active' = Active \cup {q} /\ Linked(next, active)'
      /\ Asleep' = Asleep /\ Linked(next, asleep)'
  BY <1>4, <1>6, <1>7 DEF Active, Asleep
<1>9. TypeOK'
  <2>1. Slots \in 0 .. Slots
    BY SchedulerConstants
  <2>2. timeRem' \in [Procs -> 0 .. Slots]
    BY <1>4, <2>1 DEF SchedInv, TypeOK
  <2> QED
    BY <1>4, <1>6, <2>2 DEF SchedInv, TypeOK, Links
<1>10. /\ pc'[q] = "run" /\ \A p \in Procs : p # q => pc'[p] = pc[p]
       /\ status'[q] = "active" /\ \A p \in Procs : p # q => status'[p] = status[p]
  BY <1>4 DEF SchedInv, TypeOK
<1>11. \A p \in Procs : Place(p)'
  BY <1>2, <1>4, <1>8, <1>10, WaitingSame DEF SchedInv, Place
<1>12. Current'
  BY <1>1, <1>2, <1>4, <1>8, <1>10, WaitingSame DEF SchedInv, Current
<1>13. Active' \cap Asleep' = {}
  BY <1>2, <1>8 DEF SchedInv
<1> QED
  BY <1>4, <1>8, <1>9, <1>11, <1>12, <1>13, WaitingSame DEF SchedInv

(* Who sleeps is between two of its steps.                                 *)
LEMMA Sleeper ==
    ASSUME SchedInv, NEW q \in Asleep
    PROVE  /\ q \in Procs /\ pc[q] = "run" /\ status[q] = "sleep"
           /\ q \notin Active /\ q \notin Delayed
<1>1. q \in Procs
  BY ListsHold
<1>2. pc[q] \in {"run", "gone", "unlink", "append", "remove"} /\ Place(q)
  BY <1>1 DEF SchedInv, TypeOK
<1> QED
  BY <1>1, <1>2, ListsHold DEF Place

LEMMA WakeFirstKeeps ==
    ASSUME SchedInv, NEW q \in Procs, WakeFirst(q)
    PROVE  SchedInv'
<1>1. /\ cpu \in Procs /\ cpu = current /\ pc[cpu] = "run" /\ status[cpu] = "active"
      /\ cpu \in Active /\ cpu \notin Delayed /\ cpu \notin Asleep
  BY Runner DEF WakeFirst
<1>2. q = asleep /\ q \in Asleep /\ pc[q] = "run" /\ status[q] = "sleep" /\ q # cpu
      /\ q \notin Active /\ q \notin Delayed
  BY <1>1, ListsHold, Sleeper DEF WakeFirst
<1>3. PICK l : l = Appended(next, active, q)
  OBVIOUS
<1>4. /\ next' = l.next /\ active' = l.head /\ asleep' = next[q]
      /\ status' = [status EXCEPT ![q] = "active"]
      /\ UNCHANGED <<waiting, timeRem, current, cpu, pc, hlt, idle, lost, fault>>
  BY <1>3 DEF WakeFirst, Awake
<1>5. next \in Links /\ active \in Procs /\ active # Null /\ Linked(next, active)
      /\ q \notin Nodes(next, active)
  BY <1>2, ListsHold DEF SchedInv, Active
<1>6. /\ l.next \in Links /\ l.head = active
      /\ Nodes(l.next, l.head) = Active \cup {q} /\ Linked(l.next, l.head)
      /\ \A p \in Asleep : p # q => l.next[p] = next[p]
  <2>1. /\ l.next \in Links /\ l.head = active
        /\ Nodes(l.next, l.head) = Nodes(next, active) \cup {q} /\ Linked(l.next, l.head)
        /\ \A p \in Procs : p # q /\ (p \in Nodes(next, active) => next[p] # Null) => l.next[p] = next[p]
    BY <1>3, <1>5, AppendedNodes
  <2>2. \A p \in Asleep : p \in Procs /\ p \notin Nodes(next, active)
    BY ListsHold DEF Active
  <2> QED
    BY <2>1, <2>2 DEF Active
<1>7. Nodes(next, next[q]) = Asleep \ {q} /\ Linked(next, next[q])
  BY <1>2, <1>5, TailNodes DEF SchedInv, Asleep
<1>8. Nodes(l.next, next[q]) = Asleep \ {q} /\ Linked(l.next, next[q])
  <2>1. next[q] \in Procs \cup {Null}
    BY <1>7 DEF Linked
  <2>2. PICK h \in Procs \cup {Null} : h = next[q]
    BY <2>1
  <2>3. \A p \in Nodes(next, h) : l.next[p] = next[p]
    BY <1>6, <1>7, <2>2
  <2> QED
    BY <1>5, <1>6, <1>7, <2>2, <2>3, SameNodes
<1>9. /\ Active' = Active \cup {q} /\ Linked(next, active)'
      /\ Asleep' = Asleep \ {q} /\ Linked(next, asleep)'
  BY <1>4, <1>6, <1>8 DEF Active, Asleep
<1>10. TypeOK'
  <2>1. asleep' \in Procs \cup {Null}
    BY <1>9 DEF Linked
  <2> QED
    BY <1>4, <1>5, <1>6, <2>1 DEF SchedInv, TypeOK, Links
<1>11. status'[q] = "active" /\ \A p \in Procs : p # q => status'[p] = status[p]
  BY <1>4 DEF SchedInv, TypeOK
<1>12. \A p \in Procs : Place(p)'
  BY <1>2, <1>4, <1>9, <1>11, WaitingSame DEF SchedInv, Place
<1>13. Current'
  BY <1>1, <1>2, <1>4, <1>9, <1>11, WaitingSame DEF SchedInv, Current
<1>14. Active' \cap Asleep' = {}
  BY <1>9 DEF SchedInv
<1> QED
  BY <1>4, <1>9, <1>10, <1>12, <1>13, <1>14, WaitingSame DEF SchedInv

LEMMA WakeLaterKeeps ==
    ASSUME SchedInv, NEW q \in Procs, next[q] = Null, WakeLater(q)
    PROVE  SchedInv'
<1>1. /\ cpu \in Procs /\ cpu = current /\ pc[cpu] = "run" /\ status[cpu] = "active"
      /\ cpu \in Active /\ cpu \notin Delayed /\ cpu \notin Asleep
  BY Runner DEF WakeLater
<1>2. q # asleep /\ q \in Asleep /\ pc[q] = "run" /\ status[q] = "sleep" /\ q # cpu
      /\ q \notin Active /\ q \notin Delayed
  BY <1>1, Sleeper DEF WakeLater
<1>3. next \in Links /\ active \in Procs /\ active # Null /\ Linked(next, active)
  BY ListsHold DEF SchedInv
<1>4. asleep \in Procs /\ Linked(next, asleep)
  <2>1. asleep # Null
    BY <1>2, NullNodes DEF Asleep
  <2> QED
    BY <2>1, ListsHold DEF SchedInv
<1>5. PICK nx : nx = Unlinked(next, asleep, q)
  OBVIOUS
<1>6. /\ nx \in Links /\ nx[q] = Null
      /\ Nodes(nx, asleep) = Asleep \ {q} /\ Linked(nx, asleep)
      /\ \A p \in Active : nx[p] = next[p]
  <2>1. /\ nx \in Links /\ nx[q] = next[q]
        /\ Nodes(nx, asleep) = Nodes(next, asleep) \ {q} /\ Linked(nx, asleep)
        /\ \A p \in Procs : p \notin Nodes(next, asleep) => nx[p] = next[p]
    BY <1>2, <1>3, <1>4, <1>5, UnlinkedNodes DEF Asleep
  <2> QED
    BY <2>1, ListsHold DEF Asleep
<1>7. Nodes(nx, active) = Active /\ Linked(nx, active)
  BY <1>3, <1>6, SameNodes DEF Active
<1>8. PICK e : e = CHOOSE p \in Lasts(next, active) : TRUE
  OBVIOUS
<1>9. e \in Active /\ next[e] = Null
  BY <1>3, <1>8 DEF Linked, Lasts, Active
<1>10. e \in Procs /\ nx[e] = Null /\ e \notin Asleep
  BY <1>6, <1>9, ListsHold
<1>11. /\ next' = [nx EXCEPT ![e] = q]
       /\ status' = [status EXCEPT ![q] = "active"]
       /\ UNCHANGED <<active, asleep, waiting, timeRem, current, cpu, pc, hlt, idle, lost, fault>>
  BY <1>5, <1>8 DEF WakeLater, Awake
<1>12. PICK ny : ny = [nx EXCEPT ![e] = q]
  OBVIOUS
<1>13. ny \in Links /\ ny[e] = q /\ \A p \in Procs : p # e => ny[p] = nx[p]
  BY <1>6, <1>10, <1>12 DEF Links
<1>14. Nodes(ny, active) = Active \cup {q} /\ Linked(ny, active)
  <2>1. e \in Nodes(nx, active) /\ q \notin Nodes(nx, active)
    BY <1>2, <1>7, <1>9
  <2>2. Nodes(ny, active) = Nodes(nx, active) \cup {q} /\ Linked(ny, active)
    BY <1>3, <1>6, <1>7, <1>10, <1>13, <2>1, LinkedBehind
  <2> QED
    BY <1>7, <2>2
<1>15. Nodes(ny, asleep) = Asleep \ {q} /\ Linked(ny, asleep)
  <2>1. \A p \in Nodes(nx, asleep) : ny[p] = nx[p]
    BY <1>6, <1>10, <1>13, ListsHold
  <2> QED
    BY <1>4, <1>6, <1>13, <2>1, SameNodes
<1>16. /\ Active' = Active \cup {q} /\ Linked(next, active)'
       /\ Asleep' = Asleep \ {q} /\ Linked(next, asleep)'
  BY <1>11, <1>12, <1>14, <1>15 DEF Active, Asleep
<1>17. TypeOK'
  BY <1>11, <1>12, <1>13 DEF SchedInv, TypeOK, Links
<1>18. status'[q] = "active" /\ \A p \in Procs : p # q => status'[p] = status[p]
  BY <1>11 DEF SchedInv, TypeOK
<1>19. \A p \in Procs : Place(p)'
  BY <1>2, <1>11, <1>16, <1>18, WaitingSame DEF SchedInv, Place
<1>20. Current'
  BY <1>1, <1>2, <1>11, <1>16, <1>18, WaitingSame DEF SchedInv, Current
<1>21. Active' \cap Asleep' = {}
  BY <1>16 DEF SchedInv
<1> QED
  BY <1>11, <1>16, <1>17, <1>19, <1>20, <1>21, WaitingSame DEF SchedInv

LEMMA Modulo ==
    /\ \A x \in Int : x % Word \in 0 .. Word - 1
    /\ \A x \in Int : x < Word => x <= x % Word
    /\ \A x \in Nat : x % Word <= x
<1>1. Word \in Nat /\ Word > 0
  BY SchedulerConstants
<1>2. \A x \in Int : x % Word \in 0 .. Word - 1
  BY <1>1
<1>3. \A x \in Nat : x < Word => x % Word = x
  BY <1>1
<1>4. ASSUME NEW x \in Int, x < Word PROVE x <= x % Word
  <2>1. CASE x \in Nat
    BY <1>3, <1>4, <2>1
  <2>2. CASE x < 0
    <3>1. x % Word \in Nat
      BY <1>1, <1>2
    <3> QED
      BY <2>2, <3>1
  <2> QED
    BY <2>1, <2>2
<1>5. ASSUME NEW x \in Nat PROVE x % Word <= x
  <2>1. CASE x < Word
    BY <1>3, <2>1
  <2>2. CASE x >= Word
    <3>1. x % Word \in 0 .. Word - 1
      BY <1>2
    <3> QED
      BY <1>1, <2>2, <3>1
  <2> QED
    BY <1>1, <2>1, <2>2
<1> QED
  BY <1>2, <1>4, <1>5

(* The deltas up to the new entry are its delay or more, and those up to   *)
(* the entries behind it become no less.                                   *)
LEMMA InsertedInTime ==
    ASSUME TypeOK, InTime, NEW ms \in 0 .. Word - 1,
           waiting' = Inserted(ms)
    PROVE  InTime'
<1>1. PICK n \in Nat : n = Len(waiting)
  BY Entries
<1>2. PICK s \in 0 .. n, d \in 0 .. Word - 1 :
         /\ InsertedAt(Inserted(ms), ms, s, d)
         /\ s = 0 => n = 0 /\ d = ms
         /\ s > 0 => d = (ms - Ahead(s - 1)) % Word
  BY <1>1, InsertedIs
<1>3. PICK w : w = waiting'
  OBVIOUS
<1> s \in Nat /\ s <= n /\ d \in Nat /\ ms \in Nat /\ ms < Word /\ Word \in Nat
  BY SchedulerConstants
<1>4. /\ w \in Seq(WaitEntry) /\ Len(w) = n + 1
      /\ w[s + 1].delta = d /\ w[s + 1].due = ms
      /\ \A i \in 1 .. s : w[i] = waiting[i]
      /\ \A i \in s + 1 .. n :
            /\ w[i + 1].due = waiting[i].due
            /\ w[i + 1].delta = IF i = s + 1 THEN (waiting[i].delta - d) % Word ELSE waiting[i].delta
  BY <1>1, <1>2, <1>3 DEF InsertedAt
<1>5. PICK at \in [0 .. n -> Nat] : Sums(at) /\ \A i \in 1 .. n : waiting[i].due <= at[i]
  BY <1>1, SumsExist, Entries
<1>6. at[0] = 0 /\ \A i \in 1 .. n : at[i] = at[i - 1] + waiting[i].delta
  BY <1>1, <1>5, Entries DEF Sums
<1>7. ms <= at[s] + d
  <2>1. CASE s = 0
    BY <1>2, <1>6, <2>1
  <2>2. CASE s > 0
    <3>1. PICK x \in Nat : x = at[s - 1]
      BY <1>5, <2>2
    <3>2. PICK a : a = Ahead(s - 1)
      OBVIOUS
    <3>3. a = x % Word
      <4>1. s - 1 \in 0 .. Len(waiting) /\ at \in [0 .. Len(waiting) -> Nat]
        BY <1>1, <2>2
      <4> QED
        BY <1>5, <3>1, <3>2, <4>1, AheadIs
    <3>4. a \in Nat /\ a <= x
      <4>1. x % Word <= x
        BY Modulo
      <4>2. x % Word \in 0 .. Word - 1
        <5>1. x \in Int
          OBVIOUS
        <5> QED
          BY <5>1, Modulo
      <4>3. x % Word \in Nat
        BY <4>2
      <4> QED
        BY <3>3, <4>1, <4>3
    <3>5. ms - a \in Int /\ ms - a < Word
      BY <3>4
    <3>6. ms - a <= d
      BY <1>2, <2>2, <3>2, <3>5, Modulo
    <3>7. s \in 1 .. n
      BY <2>2
    <3>8. at[s] = x + waiting[s].delta /\ waiting[s].delta \in Nat
      BY <1>1, <1>6, <3>1, <3>7, Entries
    <3>9. PICK e \in Nat : at[s] = x + e
      BY <3>8
    <3>10. ms <= x + d
      BY <3>4, <3>6
    <3>11. ms <= (x + e) + d
      BY <3>10
    <3> QED
      BY <3>9, <3>11
  <2> QED
    BY <2>1, <2>2
<1>8. PICK c \in Nat : s < n => c = ((waiting[s + 1].delta - d) % Word) - (waiting[s + 1].delta - d)
  <2>1. CASE s < n
    <3>1. s + 1 \in 1 .. n
      BY <2>1
    <3>2. PICK e \in Nat : e = waiting[s + 1].delta /\ e < Word
      BY <1>1, <3>1, Entries
    <3>3. e - d \in Int /\ e - d < Word
      BY <3>2
    <3>4. PICK r \in Nat : r = (e - d) % Word /\ e - d <= r
      <4>1. PICK y \in Int : y = e - d
        BY <3>3
      <4>2. y <= y % Word /\ y % Word \in 0 .. Word - 1
        BY <3>3, <4>1, Modulo
      <4>3. y % Word \in Nat
        BY <4>2
      <4> QED
        BY <4>1, <4>2, <4>3
    <3>5. r - (e - d) \in Nat
      BY <3>4
    <3> QED
      BY <3>2, <3>4, <3>5
  <2>2. CASE s = n
    BY <2>2
  <2> QED
    BY <2>1, <2>2
<1>9. PICK bt : bt = [j \in 0 .. n + 1 |-> IF j <= s THEN at[j]
                                           ELSE IF j = s + 1 THEN at[s] + d ELSE at[j - 1] + c]
  OBVIOUS
<1>10. bt \in [0 .. n + 1 -> Nat]
  <2>1. ASSUME NEW j \in 0 .. n + 1 PROVE bt[j] \in Nat
    <3>1. CASE j <= s
      <4>1. j \in 0 .. n
        BY <3>1
      <4> QED
        BY <1>5, <1>9, <3>1, <4>1
    <3>2. CASE j = s + 1
      <4>1. at[s] \in Nat /\ bt[j] = at[s] + d
        BY <1>5, <1>9, <3>2
      <4> QED
        BY <4>1
    <3>3. CASE j > s + 1
      <4>1. j - 1 \in 0 .. n /\ bt[j] = at[j - 1] + c
        BY <1>9, <3>3
      <4> QED
        BY <1>5, <4>1
    <3> QED
      BY <3>1, <3>2, <3>3
  <2> QED
    BY <1>9, <2>1
<1>11. bt[0] = 0
  BY <1>6, <1>9
<1>12. ASSUME NEW i \in 1 .. n + 1
       PROVE  bt[i] = bt[i - 1] + w[i].delta /\ w[i].due <= bt[i]
  <2>1. CASE i <= s
    <3>1. i \in 1 .. n /\ i \in 1 .. s /\ i - 1 <= s /\ i - 1 \in 0 .. n + 1
      BY <2>1
    <3>2. bt[i] = at[i] /\ bt[i - 1] = at[i - 1] /\ w[i] = waiting[i]
      BY <1>4, <1>9, <2>1, <3>1
    <3> QED
      BY <1>5, <1>6, <3>1, <3>2
  <2>2. CASE i = s + 1
    <3>1. ~ (i <= s) /\ i - 1 = s /\ s \in 0 .. n + 1
      BY <2>2
    <3>2. bt[i] = at[s] + d /\ bt[s] = at[s]
      BY <1>9, <2>2, <3>1
    <3>3. w[i].delta = d /\ w[i].due = ms
      BY <1>4, <2>2
    <3> QED
      BY <1>7, <3>1, <3>2, <3>3
  <2>3. CASE i > s + 1
    <3>1. PICK j \in s + 1 .. n : j = i - 1
      BY <2>3
    <3>2. j \in 1 .. n /\ i = j + 1 /\ ~ (i <= s) /\ i # s + 1 /\ ~ (j <= s) /\ j \in 0 .. n + 1
      BY <3>1
    <3>3. bt[i] = at[j] + c
      BY <1>9, <3>1, <3>2
    <3>4. /\ waiting[j].due <= at[j] /\ at[j] \in Nat /\ waiting[j].due \in Int
          /\ waiting[j].delta \in Nat
      <4>1. j \in 1 .. Len(waiting)
        BY <1>1, <3>2
      <4>2. waiting[j].due \in Nat \cup {-1} /\ waiting[j].delta \in Nat
        BY <4>1, Entries
      <4> QED
        BY <1>5, <3>2, <4>2
    <3>5. w[i].due = waiting[j].due
      BY <1>4, <3>1, <3>2
    <3>6. w[i].due <= bt[i]
      BY <3>3, <3>4, <3>5
    <3>7. at[j] = at[j - 1] + waiting[j].delta
      BY <1>6, <3>2
    <3>8. CASE j = s + 1
      <4>1. PICK r : r = (waiting[j].delta - d) % Word
        OBVIOUS
      <4>2. r \in Nat
        <5>1. waiting[j].delta - d \in Int
          BY <3>4
        <5>2. r \in 0 .. Word - 1
          BY <4>1, <5>1, Modulo
        <5> QED
          BY <5>2
      <4>3. c = r - (waiting[j].delta - d)
        BY <1>8, <3>8, <4>1
      <4>4. w[i].delta = r
        BY <1>4, <3>1, <3>2, <3>8, <4>1
      <4>5. bt[i - 1] = at[s] + d /\ j - 1 = s /\ at[s] \in Nat
        <5>1. j - 1 = s /\ bt[j] = at[s] + d
          BY <1>9, <3>2, <3>8
        <5> QED
          BY <1>5, <3>1, <5>1
      <4>6. at[j] = at[s] + waiting[j].delta
        <5>1. at[j - 1] = at[s]
          BY <4>5
        <5> QED
          BY <3>7, <5>1
      <4>7. bt[i] = bt[i - 1] + w[i].delta
        <5>1. PICK x \in Nat, e \in Nat : x = at[s] /\ e = waiting[j].delta
          BY <3>4, <4>5
        <5>2. bt[i] = (x + e) + c
          BY <3>3, <4>6, <5>1
        <5>3. c = r - (e - d)
          BY <4>3, <5>1
        <5>4. bt[i - 1] = x + d
          BY <4>5, <5>1
        <5>5. PICK q \in Nat, f \in Nat : q = r /\ f = d
          BY <4>2
        <5>6. (x + e) + (q - (e - f)) = (x + f) + q
          OBVIOUS
        <5> QED
          BY <4>4, <5>2, <5>3, <5>4, <5>5, <5>6
      <4> QED
        BY <3>6, <4>7
    <3>9. CASE j # s + 1
      <4>1. bt[j] = at[j - 1] + c
        BY <1>9, <3>2, <3>9
      <4>2. w[i].delta = waiting[j].delta
        BY <1>4, <3>1, <3>2, <3>9
      <4>3. at[j - 1] \in Nat
        BY <1>5, <3>2
      <4>4. bt[i] = bt[i - 1] + w[i].delta
        <5>1. PICK x \in Nat, e \in Nat : x = at[j - 1] /\ e = waiting[j].delta
          BY <3>4, <4>3
        <5>2. bt[i] = (x + e) + c
          BY <3>3, <3>7, <5>1
        <5>3. bt[i - 1] = x + c /\ w[i].delta = e
          BY <3>1, <4>1, <4>2, <5>1
        <5>4. (x + e) + c = (x + c) + e
          OBVIOUS
        <5> QED
          BY <5>2, <5>3, <5>4
      <4> QED
        BY <3>6, <4>4
    <3> QED
      BY <3>8, <3>9
  <2> QED
    BY <2>1, <2>2, <2>3
<1>13. Len(w) = n + 1 /\ DOMAIN w = 1 .. n + 1
  BY <1>4
<1>14. \E f \in [0 .. Len(w) -> Nat] :
          /\ f[0] = 0 /\ \A i \in DOMAIN w : f[i] = f[i - 1] + w[i].delta
          /\ \A i \in DOMAIN w : w[i].due <= f[i]
  BY <1>10, <1>11, <1>12, <1>13
<1> QED
  BY <1>3, <1>14 DEF InTime, Sums

(* The entry of the current process joins the others.                      *)
LEMMA InsertedEntries ==
    ASSUME SchedInv, cpu \notin Delayed, NEW ms \in 0 .. Word - 1, waiting' = Inserted(ms)
    PROVE  waiting' \in Seq(WaitEntry) /\ Delayed' = Delayed \cup {cpu} /\ Once'
<1>1. cpu \notin Delayed
  OBVIOUS
<1>2. waiting' = Inserted(ms)
  OBVIOUS
<1>3. TypeOK /\ InTime
  BY DEF SchedInv
<1>5. PICK n \in Nat : n = Len(waiting) /\ DOMAIN waiting = 1 .. n
  BY <1>3, Entries
<1>6. PICK s \in 0 .. n, d \in 0 .. Word - 1 : InsertedAt(Inserted(ms), ms, s, d)
  BY <1>3, <1>5, InsertedIs
<1>7. PICK w : w = waiting'
  OBVIOUS
<1>8. /\ w \in Seq(WaitEntry) /\ DOMAIN w = 1 .. n + 1
      /\ w[s + 1].proc = cpu
      /\ \A i \in 1 .. s : w[i].proc = waiting[i].proc
      /\ \A i \in s + 1 .. n : w[i + 1].proc = waiting[i].proc
  <2>1. w \in Seq(WaitEntry) /\ Len(w) = n + 1
    BY <1>2, <1>5, <1>6, <1>7 DEF InsertedAt
  <2>2. w[s + 1] = [proc |-> cpu, delta |-> d, due |-> ms]
    BY <1>2, <1>6, <1>7 DEF InsertedAt
  <2>3. w[s + 1].proc = cpu
    BY <2>2
  <2>4. /\ \A i \in 1 .. s : w[i].proc = waiting[i].proc
        /\ \A i \in s + 1 .. n : w[i + 1].proc = waiting[i].proc
    BY <1>2, <1>5, <1>6, <1>7 DEF InsertedAt
  <2> QED
    BY <2>1, <2>3, <2>4
<1>9. ASSUME NEW i \in 1 .. n + 1, i # s + 1
      PROVE  \E k \in 1 .. n : w[i].proc = waiting[k].proc /\ ((k = i /\ i <= s) \/ (k = i - 1 /\ i > s + 1))
  <2>1. CASE i <= s
    <3>1. i \in 1 .. s /\ i \in 1 .. n
      BY <2>1
    <3> QED
      BY <1>8, <2>1, <3>1
  <2>2. CASE i > s + 1
    <3>1. PICK k \in s + 1 .. n : k = i - 1 /\ k + 1 = i
      BY <2>2
    <3>2. k \in 1 .. n
      BY <3>1
    <3> QED
      BY <1>8, <2>2, <3>1, <3>2
  <2> QED
    BY <1>9, <2>1, <2>2
<1>10. Delayed = {waiting[k].proc : k \in 1 .. n}
  BY <1>5 DEF Delayed
<1>11. {w[i].proc : i \in 1 .. n + 1} = Delayed \cup {cpu}
  <2>1. \A i \in 1 .. n + 1 : w[i].proc \in Delayed \cup {cpu}
    BY <1>8, <1>9, <1>10
  <2>2. ASSUME NEW k \in 1 .. n PROVE \E i \in 1 .. n + 1 : w[i].proc = waiting[k].proc
    <3>1. CASE k <= s
      BY <1>8, <3>1
    <3>2. CASE k > s
      <4>1. k \in s + 1 .. n /\ k + 1 \in 1 .. n + 1
        BY <3>2
      <4> QED
        BY <1>8, <4>1
    <3> QED
      BY <3>1, <3>2
  <2>3. s + 1 \in 1 .. n + 1
    OBVIOUS
  <2>4. {w[i].proc : i \in 1 .. n + 1} \subseteq Delayed \cup {cpu}
    BY <2>1
  <2>5. Delayed \subseteq {w[i].proc : i \in 1 .. n + 1}
    BY <1>10, <2>2
  <2>6. cpu \in {w[i].proc : i \in 1 .. n + 1}
    BY <1>8, <2>3
  <2> QED
    BY <2>4, <2>5, <2>6
<1>12. Delayed' = Delayed \cup {cpu}
  <2>1. Delayed' = {w[i].proc : i \in 1 .. n + 1}
    BY <1>7, <1>8 DEF Delayed
  <2> QED
    BY <1>11, <2>1
<1>13. Once'
  <2>1. \A i, j \in 1 .. n : waiting[i].proc = waiting[j].proc => i = j
    BY <1>5 DEF SchedInv, Once
  <2>2. \A i \in 1 .. n : waiting[i].proc # cpu
    BY <1>1, <1>10
  <2>3. ASSUME NEW i \in 1 .. n + 1, NEW j \in 1 .. n + 1, w[i].proc = w[j].proc PROVE i = j
    <3>1. CASE i = s + 1 \/ j = s + 1
      <4>1. \A k \in 1 .. n + 1 : k # s + 1 => w[k].proc # cpu
        BY <1>9, <2>2
      <4> QED
        BY <1>8, <2>3, <3>1, <4>1
    <3>2. CASE i # s + 1 /\ j # s + 1
      <4>1. PICK k \in 1 .. n : w[i].proc = waiting[k].proc /\ ((k = i /\ i <= s) \/ (k = i - 1 /\ i > s + 1))
        BY <1>9, <3>2
      <4>2. PICK l \in 1 .. n : w[j].proc = waiting[l].proc /\ ((l = j /\ j <= s) \/ (l = j - 1 /\ j > s + 1))
        BY <1>9, <3>2
      <4>3. k = l
        BY <2>1, <2>3, <4>1, <4>2
      <4> QED
        BY <4>1, <4>2, <4>3
    <3> QED
      BY <3>1, <3>2
  <2> QED
    BY <1>7, <1>8, <2>3 DEF Once
<1> QED
  BY <1>7, <1>8, <1>12, <1>13

LEMMA DelayInsertKeeps ==
    ASSUME SchedInv, OthersActive, NEW ms \in Delays, DelayInsert(ms)
    PROVE  SchedInv'
<1>1. /\ cpu \in Procs /\ cpu = current /\ pc[cpu] = "run" /\ status[cpu] = "active"
      /\ cpu \in Active /\ cpu \notin Delayed /\ cpu \notin Asleep
  BY Runner DEF DelayInsert
<1>2. /\ waiting' = Inserted(ms)
      /\ pc' = [pc EXCEPT ![cpu] = "remove"]
      /\ UNCHANGED <<next, active, asleep, status, timeRem, current, cpu, hlt, idle, lost, fault>>
  BY DEF DelayInsert, lists
<1>3. ms \in 0 .. Word - 1 /\ TypeOK /\ InTime
  BY SchedulerConstants DEF SchedInv
<1>4. InTime'
  BY <1>2, <1>3, InsertedInTime
<1>5. waiting' \in Seq(WaitEntry) /\ Delayed' = Delayed \cup {cpu} /\ Once'
  BY <1>1, <1>2, <1>3, InsertedEntries
<1>6. TypeOK'
  BY <1>2, <1>5 DEF SchedInv, TypeOK
<1>7. Active' = Active /\ Asleep' = Asleep /\ Linked(next, active)' /\ Linked(next, asleep)'
  BY <1>2 DEF SchedInv, Active, Asleep
<1>8. pc'[cpu] = "remove" /\ \A p \in Procs : p # cpu => pc'[p] = pc[p]
  BY <1>1, <1>2 DEF SchedInv, TypeOK
<1>9. \A p \in Procs : Place(p)'
  BY <1>1, <1>2, <1>5, <1>7, <1>8 DEF SchedInv, Place
<1>10. Current'
  BY <1>1, <1>2, <1>5, <1>7, <1>8 DEF SchedInv, Current, OthersActive
<1> QED
  BY <1>4, <1>5, <1>6, <1>7, <1>9, <1>10 DEF SchedInv

-----------------------------------------------------------------------------
(* The timer interrupt                                                     *)

Over == {waiting[i].proc : i \in 1 .. Expired}

(* Nobody is in the middle of a system call when it comes.                 *)
Quiet == pc[cpu] \in {"run", "gone"}

LEMMA AllQuiet ==
    ASSUME SchedInv, Quiet
    PROVE  /\ \A p \in Procs : pc[p] \in {"run", "gone"}
           /\ \A p \in Delayed : p \in Procs /\ p \notin Active /\ p \notin Asleep
                                 /\ pc[p] = "run" /\ status[p] = "active"
           /\ \A p \in Active : p \in Procs /\ pc[p] = "run" /\ status[p] = "active"
<1>1. \A p \in Procs : Place(p)
  BY DEF SchedInv
<1>2. ASSUME NEW p \in Procs PROVE pc[p] \in {"run", "gone"}
  BY <1>1 DEF Place, Quiet
<1>3. ASSUME NEW p \in Delayed
      PROVE  p \in Procs /\ p \notin Active /\ p \notin Asleep /\ pc[p] = "run" /\ status[p] = "active"
  <2>1. p \in Procs
    BY Entries DEF Delayed, SchedInv
  <2> QED
    BY <1>1, <1>2, <2>1 DEF Place
<1>4. ASSUME NEW p \in Active
      PROVE  p \in Procs /\ pc[p] = "run" /\ status[p] = "active"
  <2>1. p \in Procs
    BY ListsHold
  <2> QED
    BY <1>1, <1>2, <2>1 DEF Place
<1> QED
  BY <1>2, <1>3, <1>4

LEMMA OverIs ==
    ASSUME SchedInv
    PROVE  /\ Over \subseteq Delayed
           /\ Expired \in Nat /\ Expired <= Len(waiting)
           /\ \A i \in 1 .. Expired : waiting[i].proc \in Over
<1>1. TypeOK
  BY DEF SchedInv
<1>2. PICK m \in Nat : m = Len(waiting) /\ DOMAIN waiting = 1 .. m
  BY <1>1, Entries
<1>3. PICK n \in 0 .. m : n = Expired
  BY <1>1, <1>2, ExpiredIs
<1>4. Over \subseteq Delayed
  BY <1>2, <1>3 DEF Over, Delayed
<1>5. n \in Nat /\ n <= m
  OBVIOUS
<1> QED
  BY <1>2, <1>3, <1>4, <1>5 DEF Over

(* Waking them moves those whose delay is over to the active list.         *)
LEMMA WokenIs ==
    ASSUME SchedInv, Quiet,
           NEW nx, nx = Woken.next, NEW top, top = Woken.head
    PROVE  /\ nx \in Links /\ top \in Procs
           /\ \A p \in Procs : p \notin Over => nx[p] = next[p]
           /\ Nodes(nx, top) = Active \cup Over /\ Linked(nx, top)
           /\ Nodes(nx, asleep) = Asleep /\ Linked(nx, asleep)
<1>1. TypeOK /\ next \in Links /\ active \in Procs /\ Linked(next, active) /\ Linked(next, asleep)
  BY ListsHold DEF SchedInv
<1>2. PICK n \in Nat : n = Expired /\ n <= Len(waiting)
  BY OverIs
<1>3. PICK w : w = [i \in 1 .. n |-> waiting[i].proc]
  OBVIOUS
<1>4. \A i \in 1 .. n : i \in DOMAIN waiting /\ w[i] = waiting[i].proc /\ w[i] \in Procs
  <2>1. Len(waiting) \in Nat /\ DOMAIN waiting = 1 .. Len(waiting)
    BY <1>1, Entries
  <2>2. \A i \in 1 .. n : i \in 1 .. Len(waiting)
    BY <1>2, <2>1
  <2> QED
    BY <1>1, <1>3, <2>1, <2>2, Entries
<1>5. w \in [1 .. n -> Procs]
  BY <1>3, <1>4
<1>6. \A i, j \in 1 .. n : w[i] = w[j] => i = j
  BY <1>4 DEF SchedInv, Once
<1>7. \A p : p \in Over <=> \E i \in 1 .. n : w[i] = p
  BY <1>2, <1>4 DEF Over
<1>8. /\ nx = [p \in Procs |-> IF Waken(p)
                               THEN IF WokenAs(p) - 1 = 0 THEN active ELSE waiting[WokenAs(p) - 1].proc
                               ELSE next[p]]
      /\ top = IF n = 0 THEN active ELSE waiting[n].proc
  BY <1>2 DEF Woken
<1>9. \A p : Waken(p) <=> p \in Over
  BY <1>2, <1>4, <1>7 DEF Waken
<1>10. ASSUME NEW i \in 1 .. n PROVE WokenAs(w[i]) = i
  <2>1. waiting[i].proc = w[i] /\ \A j \in i + 1 .. n : waiting[j].proc # w[i]
    <3>1. ASSUME NEW j \in i + 1 .. n PROVE waiting[j].proc # w[i]
      <4>1. j \in 1 .. n /\ i # j
        OBVIOUS
      <4> QED
        BY <1>4, <1>6, <4>1
    <3> QED
      BY <1>4, <3>1
  <2>2. \A k \in 1 .. n : waiting[k].proc = w[i] => k = i
    BY <1>4, <1>6
  <2> QED
    BY <1>2, <2>1, <2>2 DEF WokenAs
<1>11. ASSUME NEW i \in 1 .. n
       PROVE  nx[w[i]] = IF i = 1 THEN active ELSE w[i - 1]
  <2>1. w[i] \in Procs /\ Waken(w[i]) /\ WokenAs(w[i]) = i
    BY <1>4, <1>7, <1>9, <1>10
  <2>2. nx[w[i]] = IF i - 1 = 0 THEN active ELSE waiting[i - 1].proc
    BY <1>8, <2>1
  <2>3. CASE i = 1
    BY <2>2, <2>3
  <2>4. CASE i # 1
    <3>1. i - 1 \in 1 .. n /\ i - 1 # 0
      BY <2>4
    <3> QED
      BY <1>4, <2>2, <2>4, <3>1
  <2> QED
    BY <2>3, <2>4
<1>12. \A p \in Procs : p \notin Over => nx[p] = next[p]
  BY <1>8, <1>9
<1>13. nx \in Links
  <2>1. ASSUME NEW p \in Procs PROVE nx[p] \in Procs \cup {Null}
    <3>1. CASE p \in Over
      <4>1. PICK i \in 1 .. n : w[i] = p
        BY <1>7, <3>1
      <4>2. i # 1 => i - 1 \in 1 .. n
        OBVIOUS
      <4> QED
        BY <1>1, <1>4, <1>11, <4>1, <4>2
    <3>2. CASE p \notin Over
      BY <1>1, <1>12, <3>2 DEF Links
    <3> QED
      BY <3>1, <3>2
  <2> QED
    BY <1>8, <2>1 DEF Links
<1>14. top = IF n = 0 THEN active ELSE w[n]
  <2>1. n # 0 => n \in 1 .. n
    OBVIOUS
  <2> QED
    BY <1>4, <1>8, <2>1
<1>15. top \in Procs
  <2>1. n # 0 => n \in 1 .. n
    OBVIOUS
  <2> QED
    BY <1>1, <1>4, <1>14, <2>1
<1>16. \A p \in Over : p \notin Active /\ p \notin Asleep
  BY OverIs, AllQuiet
<1>17. Nodes(nx, top) = Active \cup Over /\ Linked(nx, top)
  <2>1. \A i \in 1 .. n : w[i] \notin Nodes(next, active)
    BY <1>7, <1>16 DEF Active
  <2>2. \A p \in Procs : (\A i \in 1 .. n : w[i] # p) => nx[p] = next[p]
    BY <1>7, <1>12
  <2>3. active \in Procs \cup {Null}
    BY <1>1
  <2>4. Nodes(nx, top) = Nodes(next, active) \cup {w[i] : i \in 1 .. n} /\ Linked(nx, top)
    <3>1. \A i \in 1 .. n : nx[w[i]] = IF i = 1 THEN active ELSE w[i - 1]
      BY <1>11
    <3>2. Pushed(next, active, n, w, nx, top)
      BY <1>1, <1>5, <1>6, <1>13, <1>14, <2>1, <2>2, <2>3, <3>1 DEF Pushed
    <3> QED
      BY <3>2, PushedNodes
  <2>5. Over = {w[i] : i \in 1 .. n}
    BY <1>7
  <2> QED
    BY <2>4, <2>5 DEF Active
<1>18. Nodes(nx, asleep) = Asleep /\ Linked(nx, asleep)
  <2>1. \A p \in Nodes(next, asleep) : nx[p] = next[p]
    BY <1>12, <1>16, ListsHold DEF Asleep
  <2> QED
    BY <1>1, <1>13, <2>1, ListsHold, SameNodes DEF Asleep
<1> QED
  BY <1>12, <1>13, <1>15, <1>17, <1>18

(* The first entries have no tick left, the others one or more.            *)
LEMMA OverAt ==
    ASSUME TypeOK, NEW at \in [0 .. Len(waiting) -> Nat], Sums(at)
    PROVE  /\ \A i \in 0 .. Expired : at[i] = 0
           /\ \A i \in Expired + 1 .. Len(waiting) : at[i] >= 1
<1>1. PICK m \in Nat : m = Len(waiting) /\ DOMAIN waiting = 1 .. m
  BY Entries
<1>2. PICK n \in 0 .. m : n = Expired
  BY <1>1, ExpiredIs
<1> n \in Nat /\ n <= m
  OBVIOUS
<1>3. /\ \A i \in 1 .. n : waiting[i].delta = 0
      /\ n < m => waiting[n + 1].delta # 0
      /\ \A i \in 1 .. m : waiting[i].delta \in Nat
  BY <1>1, <1>2, ExpiredIs, Entries
<1>4. at[0] = 0 /\ (\A i \in 1 .. m : at[i] = at[i - 1] + waiting[i].delta) /\ \A i \in 0 .. m : at[i] \in Nat
  BY <1>1 DEF Sums
<1>5. \A i \in 0 .. n : at[i] = 0
  <2> SUFFICES ASSUME NEW k \in 0 .. n, at[k] # 0 PROVE FALSE
    OBVIOUS
  <2>1. PICK S : S = {j \in 0 .. n : at[j] # 0}
    OBVIOUS
  <2> S \in SUBSET Nat /\ S # {}
    BY <2>1
  <2>2. PICK j \in S : \A l \in S : j <= l
    BY LeastExists
  <2>3. j \in 0 .. n /\ at[j] # 0 /\ j # 0
    BY <1>4, <2>1, <2>2
  <2>4. j - 1 \in 0 .. n /\ j - 1 \notin S
    BY <2>2, <2>3
  <2>5. at[j - 1] = 0
    BY <2>1, <2>4
  <2>6. j \in 1 .. m /\ j \in 1 .. n
    BY <2>3
  <2> QED
    BY <1>3, <1>4, <2>3, <2>5, <2>6
<1>6. \A i \in n + 1 .. m : at[i] >= 1
  <2> SUFFICES ASSUME NEW k \in n + 1 .. m, ~ (at[k] >= 1) PROVE FALSE
    OBVIOUS
  <2>1. PICK S : S = {j \in n + 1 .. m : ~ (at[j] >= 1)}
    OBVIOUS
  <2> S \in SUBSET Nat /\ S # {}
    BY <2>1
  <2>2. PICK j \in S : \A l \in S : j <= l
    BY LeastExists
  <2>3. j \in n + 1 .. m /\ ~ (at[j] >= 1) /\ j \in 1 .. m /\ j - 1 \in 0 .. m
    BY <2>1, <2>2
  <2>4. PICK x \in Nat, d \in Nat : x = at[j - 1] /\ d = waiting[j].delta /\ at[j] = x + d
    <3>1. at[j - 1] \in Nat /\ waiting[j].delta \in Nat
      BY <1>3, <1>4, <2>3
    <3>2. at[j] = at[j - 1] + waiting[j].delta
      BY <1>4, <2>3
    <3> QED
      BY <3>1, <3>2
  <2>5. CASE j = n + 1
    BY <1>3, <2>3, <2>4, <2>5
  <2>6. CASE j # n + 1
    <3>1. j - 1 \in n + 1 .. m /\ j - 1 \notin S
      BY <2>2, <2>3, <2>6
    <3>2. x >= 1
      BY <2>1, <2>4, <3>1
    <3>3. x + d >= 1
      BY <3>2
    <3> QED
      BY <2>3, <2>4, <3>3
  <2> QED
    BY <2>5, <2>6
<1> QED
  BY <1>1, <1>2, <1>5, <1>6

LEMMA TickInTime ==
    ASSUME TypeOK, InTime, waiting' = StillWaiting
    PROVE  InTime'
<1>1. PICK m \in Nat : m = Len(waiting) /\ DOMAIN waiting = 1 .. m
  BY Entries
<1>2. PICK n \in 0 .. m : n = Expired
  BY <1>1, ExpiredIs
<1> n \in Nat /\ n <= m /\ m - n \in Nat
  OBVIOUS
<1>3. PICK v : v = waiting'
  OBVIOUS
<1>4. /\ v \in Seq(WaitEntry) /\ Len(v) = m - n /\ DOMAIN v = 1 .. m - n
      /\ \A i \in 1 .. m - n :
            /\ v[i].delta = IF i = 1 THEN waiting[n + i].delta - 1 ELSE waiting[n + i].delta
            /\ v[i].due = IF waiting[n + i].due < 0 THEN waiting[n + i].due ELSE waiting[n + i].due - 1
  <2>1. /\ v \in Seq(WaitEntry) /\ Len(v) = Len(waiting) - n
        /\ \A i \in 1 .. Len(waiting) - n :
            /\ v[i].delta = IF i = 1 THEN waiting[n + i].delta - 1 ELSE waiting[n + i].delta
            /\ v[i].due = IF waiting[n + i].due < 0 THEN waiting[n + i].due ELSE waiting[n + i].due - 1
    BY <1>2, <1>3, StillWaitingIs
  <2> QED
    BY <1>1, <2>1
<1>5. PICK at \in [0 .. m -> Nat] :
         /\ \A i \in 1 .. m : at[i] = at[i - 1] + waiting[i].delta
         /\ \A i \in 1 .. m : waiting[i].due <= at[i]
         /\ at[n] = 0 /\ \A i \in n + 1 .. m : at[i] >= 1
  <2>1. PICK at \in [0 .. Len(waiting) -> Nat] :
           Sums(at) /\ \A i \in DOMAIN waiting : waiting[i].due <= at[i]
    BY SumsExist
  <2>2. /\ \A i \in 0 .. Expired : at[i] = 0
        /\ \A i \in Expired + 1 .. Len(waiting) : at[i] >= 1
    BY <2>1, OverAt
  <2>3. n \in 0 .. n
    OBVIOUS
  <2> QED
    BY <1>1, <1>2, <2>1, <2>2, <2>3 DEF Sums
<1>6. \A i \in 1 .. m : waiting[i].delta \in Nat /\ waiting[i].due \in Nat \cup {-1}
  BY <1>1, Entries
<1>7. PICK bt : bt = [i \in 0 .. m - n |-> IF i = 0 THEN 0 ELSE at[n + i] - 1]
  OBVIOUS
<1>8. ASSUME NEW i \in 1 .. m - n
      PROVE  bt[i] \in Nat /\ bt[i] = bt[i - 1] + v[i].delta /\ v[i].due <= bt[i]
  <2>1. PICK k \in n + 1 .. m : k = n + i /\ k \in 1 .. m
    OBVIOUS
  <2>2. PICK x \in Nat : x = at[k] /\ x >= 1
    BY <1>5, <2>1
  <2>3. bt[i] = x - 1 /\ x - 1 \in Nat
    BY <1>7, <2>1, <2>2
  <2>4. PICK d \in Nat, e \in Nat \cup {-1} : d = waiting[k].delta /\ e = waiting[k].due
    BY <1>6, <2>1
  <2>5. e <= x
    BY <1>5, <2>1, <2>2, <2>4
  <2>6. v[i].due = IF e < 0 THEN e ELSE e - 1
    BY <1>4, <2>1, <2>4
  <2>7. v[i].due <= bt[i]
    BY <2>2, <2>3, <2>5, <2>6
  <2>8. v[i].delta = IF i = 1 THEN d - 1 ELSE d
    BY <1>4, <2>1, <2>4
  <2>9. x = at[k - 1] + d
    BY <1>5, <2>1, <2>2, <2>4
  <2>10. CASE i = 1
    <3>1. k - 1 = n /\ bt[i - 1] = 0
      BY <1>7, <2>1, <2>10
    <3>2. x = d
      BY <1>5, <2>9, <3>1
    <3> QED
      BY <2>3, <2>7, <2>8, <2>10, <3>1, <3>2
  <2>11. CASE i # 1
    <3>1. i - 1 \in 0 .. m - n /\ i - 1 # 0 /\ n + (i - 1) = k - 1 /\ k - 1 \in 0 .. m
      BY <2>1, <2>11
    <3>2. PICK y \in Nat : y = at[k - 1]
      BY <1>5, <3>1
    <3>3. bt[i - 1] = y - 1
      BY <1>7, <3>1, <3>2
    <3>4. x - 1 = (y - 1) + d
      BY <2>9, <3>2
    <3> QED
      BY <2>3, <2>7, <2>8, <2>11, <3>3, <3>4
  <2> QED
    BY <2>10, <2>11
<1>9. bt \in [0 .. m - n -> Nat] /\ bt[0] = 0
  <2>1. \A i \in 0 .. m - n : bt[i] \in Nat
    <3>1. \A i \in 0 .. m - n : i = 0 \/ i \in 1 .. m - n
      OBVIOUS
    <3>2. bt[0] = 0
      BY <1>7
    <3> QED
      BY <1>8, <3>1, <3>2
  <2>2. bt = [i \in 0 .. m - n |-> bt[i]]
    BY <1>7
  <2>3. 0 \in 0 .. m - n
    OBVIOUS
  <2>4. bt[0] = 0
    BY <1>7, <2>3
  <2> QED
    BY <2>1, <2>2, <2>4
<1>10. \E f \in [0 .. Len(v) -> Nat] :
          /\ f[0] = 0 /\ \A i \in DOMAIN v : f[i] = f[i - 1] + v[i].delta
          /\ \A i \in DOMAIN v : v[i].due <= f[i]
  BY <1>4, <1>8, <1>9
<1> QED
  BY <1>3, <1>10 DEF InTime, Sums

LEMMA TickWaiting ==
    ASSUME SchedInv, waiting' = StillWaiting
    PROVE  /\ waiting' \in Seq(WaitEntry)
           /\ Delayed' = Delayed \ Over
           /\ Once'
<1>1. TypeOK /\ Once
  BY DEF SchedInv
<1>2. PICK m \in Nat : m = Len(waiting) /\ DOMAIN waiting = 1 .. m
  BY <1>1, Entries
<1>3. PICK n \in Nat : n = Expired /\ n <= m
  BY <1>2, OverIs
<1>4. PICK v : v = waiting'
  OBVIOUS
<1>5. /\ v \in Seq(WaitEntry) /\ DOMAIN v = 1 .. m - n
      /\ \A i \in 1 .. m - n : v[i].proc = waiting[n + i].proc
  <2>1. /\ v \in Seq(WaitEntry) /\ Len(v) = Len(waiting) - n
        /\ \A i \in 1 .. Len(waiting) - n : v[i].proc = waiting[n + i].proc
    <3>1. n = Expired /\ v = StillWaiting
      BY <1>3, <1>4
    <3> QED
      BY <1>1, <3>1, StillWaitingIs
  <2> QED
    BY <1>2, <2>1
<1>6. \A i, j \in 1 .. m : waiting[i].proc = waiting[j].proc => i = j
  BY <1>1, <1>2 DEF Once
<1>7. \A i \in 1 .. m - n : n + i \in 1 .. m
  BY <1>3
<1>8. \A p : p \in Delayed <=> \E i \in 1 .. m : waiting[i].proc = p
  BY <1>2 DEF Delayed
<1>9. \A p : p \in Over <=> \E i \in 1 .. n : waiting[i].proc = p
  BY <1>3 DEF Over
<1>10. \A p : p \in Delayed' <=> \E i \in 1 .. m - n : v[i].proc = p
  BY <1>4, <1>5 DEF Delayed
<1>11. ASSUME NEW p \in Delayed' PROVE p \in Delayed \ Over
  <2>1. PICK i \in 1 .. m - n : v[i].proc = p
    BY <1>10
  <2>2. PICK k \in 1 .. m : k = n + i /\ k > n
    BY <1>7
  <2>3. waiting[k].proc = p
    BY <1>5, <2>1, <2>2
  <2>4. ASSUME NEW j \in 1 .. n PROVE waiting[j].proc # p
    <3>1. j \in 1 .. m /\ j # k
      BY <1>3, <2>2
    <3> QED
      BY <1>6, <2>3, <3>1
  <2> QED
    BY <1>8, <1>9, <2>3, <2>4
<1>12. ASSUME NEW p \in Delayed \ Over PROVE p \in Delayed'
  <2>1. PICK k \in 1 .. m : waiting[k].proc = p
    BY <1>8
  <2>2. ~ (k \in 1 .. n)
    BY <1>9, <2>1
  <2>3. PICK i \in 1 .. m - n : n + i = k
    <3>1. k - n \in 1 .. m - n /\ n + (k - n) = k
      BY <1>3, <2>2
    <3> QED
      BY <3>1
  <2> QED
    BY <1>5, <1>10, <2>1, <2>3
<1>13. Once'
  <2>1. ASSUME NEW i \in 1 .. m - n, NEW j \in 1 .. m - n, v[i].proc = v[j].proc PROVE i = j
    <3>1. waiting[n + i].proc = waiting[n + j].proc
      BY <1>5, <2>1
    <3>2. PICK k \in 1 .. m, l \in 1 .. m : k = n + i /\ l = n + j
      BY <1>7
    <3>3. k = l
      BY <1>6, <3>1, <3>2
    <3> QED
      BY <3>2, <3>3
  <2> QED
    BY <1>4, <1>5, <2>1 DEF Once
<1> QED
  BY <1>4, <1>5, <1>11, <1>12, <1>13

(* Where the scheduler goes on is on the list it has made.                 *)
LEMMA SuccessorRuns ==
    ASSUME SchedInv, Quiet, NEW nx, nx = Woken.next, NEW top, top = Woken.head,
           NEW s, s = Successor(nx, top)
    PROVE  s \in Active \cup Over
<1>1. /\ nx \in Links /\ top \in Procs
      /\ \A p \in Procs : p \notin Over => nx[p] = next[p]
      /\ Nodes(nx, top) = Active \cup Over
  BY WokenIs
<1>2. top \in Active \cup Over /\ \A p \in Active \cup Over : nx[p] # Null => nx[p] \in Active \cup Over
  BY <1>1, NodesHold
<1>3. cpu \in Procs /\ cpu = current /\ cpu # Null
  BY ListsHold DEF SchedInv, Current
<1>4. CASE Dying \/ nx[cpu] = Null
  BY <1>2, <1>3, <1>4 DEF Successor
<1>5. CASE ~ Dying /\ nx[cpu] # Null
  <2>1. s = nx[cpu]
    BY <1>3, <1>5 DEF Successor
  <2>2. CASE cpu \in Active \cup Over
    BY <1>2, <1>5, <2>1, <2>2
  <2>3. CASE cpu \notin Active /\ cpu \notin Over
    <3>1. nx[cpu] = next[cpu]
      BY <1>1, <1>3, <2>3
    <3>2. status[cpu] # "null"
      BY <1>3, <1>5 DEF Dying
    <3>3. pc[cpu] = "run" /\ Place(cpu)
      BY <1>3, <3>2 DEF Quiet, SchedInv, Place
    <3>4. status[cpu] \in {"unused", "active", "sleep", "null"}
      BY <1>3 DEF SchedInv, TypeOK
    <3>5. status[cpu] = "sleep" \/ cpu \in Delayed
      BY <2>3, <3>2, <3>3, <3>4 DEF Place, SchedInv, Current
    <3>6. next[cpu] \in Active \cup {Null}
      BY <1>5, <3>1, <3>3, <3>5 DEF SchedInv, Current
    <3> QED
      BY <1>5, <2>1, <3>1, <3>6
  <2> QED
    BY <2>2, <2>3
<1> QED
  BY <1>4, <1>5

(* Either the current process goes on, or one that is active takes over.   *)
TickGoesOn ==
    /\ timeRem[cpu] > 0
    /\ timeRem' = [timeRem EXCEPT ![cpu] = @ - 1]
    /\ hlt' = FALSE
    /\ UNCHANGED <<current, cpu>>
TickSwitches ==
    /\ cpu' \in Active \cup Over /\ current' = cpu'
    /\ timeRem' = [timeRem EXCEPT ![cpu'] = Slots]
    /\ hlt' = FALSE

LEMMA TickIs ==
    ASSUME SchedInv, QuietTick
    PROVE  /\ Quiet
           /\ waiting' = StillWaiting /\ active' = Woken.head /\ next' = Woken.next
           /\ UNCHANGED <<asleep, status, pc, idle, lost, fault>>
           /\ TickGoesOn \/ TickSwitches
<1>1. Quiet /\ Tick
  BY DEF QuietTick, Quiet
<1>2. cpu \in Procs /\ cpu = current /\ cpu # Null /\ idle = "no" /\ Place(cpu)
  BY ListsHold DEF SchedInv, Current
<1>3. PICK nx, top : nx = Woken.next /\ top = Woken.head
  OBVIOUS
<1>4. /\ nx \in Links /\ top \in Procs
      /\ Nodes(nx, top) = Active \cup Over
  BY <1>1, <1>3, WokenIs
<1>5. waiting' = StillWaiting /\ active' = top /\ UNCHANGED <<asleep, pc, lost, fault>>
  BY <1>1, <1>2, <1>3 DEF Tick
<1>6. CASE timeRem[cpu] > 0
  <2>1. /\ timeRem' = [timeRem EXCEPT ![cpu] = @ - 1]
        /\ next' = nx /\ hlt' = FALSE
        /\ UNCHANGED <<status, current, cpu, idle>>
    BY <1>1, <1>2, <1>3, <1>6 DEF Tick
  <2> QED
    BY <1>1, <1>3, <1>5, <1>6, <2>1 DEF TickGoesOn
<1>7. CASE ~ (timeRem[cpu] > 0)
  <2>1. Reap(nx, top) /\ SwitchTo(Successor(nx, top))
    BY <1>1, <1>2, <1>3, <1>7 DEF Tick
  <2>2. Dying => Befores(nx, top, cpu) = {}
    <3> SUFFICES ASSUME Dying PROVE Befores(nx, top, cpu) = {}
      OBVIOUS
    <3>1. status[cpu] = "null"
      BY <1>2 DEF Dying
    <3>2. cpu \notin Active
      BY <1>1, <3>1, AllQuiet
    <3>3. cpu \notin Over
      BY <1>1, <3>1, AllQuiet, OverIs
    <3>4. \A q \in Nodes(nx, top) : nx[q] # Null => nx[q] \in Nodes(nx, top)
      BY <1>4, NodesHold
    <3> QED
      BY <1>2, <1>4, <3>2, <3>3, <3>4 DEF Befores
  <2>3. next' = nx /\ status' = status
    BY <1>2, <2>1, <2>2 DEF Reap, Unlinked
  <2>4. PICK s : s = Successor(nx, top)
    OBVIOUS
  <2>5. s \in Active \cup Over
    BY <1>1, <1>3, <2>4, SuccessorRuns
  <2>6. s \in Procs /\ s # Null /\ status[s] = "active"
    BY <1>1, <2>5, AllQuiet, OverIs, SchedulerConstants
  <2>7. /\ current' = s /\ cpu' = s
        /\ timeRem' = [timeRem EXCEPT ![s] = Slots]
        /\ hlt' = FALSE /\ idle' = "no"
    BY <2>1, <2>4, <2>6 DEF SwitchTo
  <2> QED
    BY <1>1, <1>2, <1>3, <1>5, <2>3, <2>5, <2>7 DEF TickSwitches
<1> QED
  BY <1>6, <1>7

LEMMA TickKeeps ==
    ASSUME SchedInv, QuietTick
    PROVE  SchedInv'
<1>1. /\ Quiet
      /\ waiting' = StillWaiting /\ active' = Woken.head /\ next' = Woken.next
      /\ UNCHANGED <<asleep, status, pc, idle, lost, fault>>
      /\ TickGoesOn \/ TickSwitches
  BY TickIs
<1>2. TypeOK /\ InTime /\ cpu \in Procs /\ Slots \in Nat
  BY SchedulerConstants DEF SchedInv, TypeOK
<1>3. /\ next' \in Links /\ active' \in Procs
      /\ Active' = Active \cup Over /\ Linked(next, active)'
      /\ Asleep' = Asleep /\ Linked(next, asleep)'
  <2>1. PICK nx, top : nx = Woken.next /\ top = Woken.head
    OBVIOUS
  <2>2. /\ nx \in Links /\ top \in Procs
        /\ Nodes(nx, top) = Active \cup Over /\ Linked(nx, top)
        /\ Nodes(nx, asleep) = Asleep /\ Linked(nx, asleep)
    BY <1>1, <2>1, WokenIs
  <2> QED
    BY <1>1, <2>1, <2>2 DEF Active, Asleep
<1>4. waiting' \in Seq(WaitEntry) /\ Delayed' = Delayed \ Over /\ Once' /\ InTime'
  BY <1>1, <1>2, TickWaiting, TickInTime
<1>5. \A p \in Over : p \in Procs /\ p \notin Active /\ p \notin Asleep
                      /\ pc[p] = "run" /\ status[p] = "active"
  BY <1>1, AllQuiet, OverIs
<1>6. \A p \in Active : p \in Procs /\ pc[p] = "run" /\ status[p] = "active"
  BY <1>1, AllQuiet
<1>7. TypeOK'
  <2>1. timeRem' \in [Procs -> 0 .. Slots] /\ cpu' \in Procs /\ current' \in Procs \cup {Null} /\ hlt' \in BOOLEAN
    <3>1. CASE TickGoesOn
      <4>1. timeRem[cpu] \in 0 .. Slots
        BY <1>2 DEF TypeOK
      <4>2. timeRem[cpu] - 1 \in 0 .. Slots
        BY <1>2, <3>1, <4>1 DEF TickGoesOn
      <4>3. timeRem' \in [Procs -> 0 .. Slots]
        BY <1>2, <3>1, <4>2 DEF TickGoesOn, TypeOK
      <4> QED
        BY <1>2, <3>1, <4>3 DEF TickGoesOn, TypeOK
    <3>2. CASE TickSwitches
      <4>1. cpu' \in Procs
        BY <1>5, <1>6, <3>2 DEF TickSwitches
      <4>2. Slots \in 0 .. Slots
        BY <1>2
      <4>3. timeRem' \in [Procs -> 0 .. Slots]
        BY <1>2, <3>2, <4>1, <4>2 DEF TickSwitches, TypeOK
      <4> QED
        BY <3>2, <4>1, <4>3 DEF TickSwitches
    <3> QED
      BY <1>1, <3>1, <3>2
  <2>2. active' \in Procs \cup {Null} /\ next' \in [Procs -> Procs \cup {Null}]
    BY <1>3 DEF Links
  <2> QED
    BY <1>1, <1>2, <1>4, <2>1, <2>2 DEF TypeOK
<1>8. Active' \cap Asleep' = {}
  BY <1>3, <1>5 DEF SchedInv
<1>9. \A p \in Procs : pc[p] \in {"run", "gone"}
  BY <1>1, AllQuiet
<1>10. \A p \in Procs : Place(p)'
  <2> SUFFICES ASSUME NEW p \in Procs PROVE Place(p)'
    OBVIOUS
  <2>1. Place(p) /\ pc'[p] = pc[p] /\ status'[p] = status[p] /\ pc[p] \in {"run", "gone"}
    BY <1>1, <1>9 DEF SchedInv
  <2>2. p \in Over => p \in Delayed
    BY OverIs
  <2> QED
    BY <1>3, <1>4, <1>5, <2>1, <2>2 DEF Place
<1>11. Current'
  <2>1. ~ fault' /\ idle' = "no"
    BY <1>1 DEF SchedInv, Current
  <2>2. CASE TickGoesOn
    <3>1. cpu' = cpu /\ current' = current /\ timeRem[cpu] # 0
      BY <1>2, <2>2 DEF TickGoesOn
    <3>2. ~ (pc[cpu] = "run" /\ (status[cpu] = "sleep" \/ cpu \in Delayed))
      BY <3>1 DEF SchedInv, Current
    <3>3. \E q \in Active : TRUE
      BY DEF SchedInv, Current
    <3> QED
      BY <1>1, <1>3, <1>4, <1>9, <2>1, <3>1, <3>2, <3>3 DEF SchedInv, Current
  <2>3. CASE TickSwitches
    <3>1. cpu' \in Active' /\ cpu' = current' /\ cpu' \in Procs
      BY <1>3, <1>5, <1>6, <2>3 DEF TickSwitches
    <3>2. status'[cpu'] = "active" /\ pc'[cpu'] = "run"
      BY <1>1, <1>5, <1>6, <2>3 DEF TickSwitches
    <3>3. cpu' \notin Delayed'
      <4>1. cpu' \in Over \/ (cpu' \in Active /\ cpu' \notin Delayed)
        BY <1>1, <2>3, AllQuiet DEF TickSwitches
      <4> QED
        BY <1>4, <4>1
    <3> QED
      BY <2>1, <3>1, <3>2, <3>3 DEF Current
  <2> QED
    BY <1>1, <2>2, <2>3
<1> QED
  BY <1>3, <1>4, <1>7, <1>8, <1>10, <1>11 DEF SchedInv

-----------------------------------------------------------------------------
(* The theorems                                                            *)

LEMMA InitHolds == Init => SchedInv
<1> SUFFICES ASSUME Init PROVE SchedInv
  OBVIOUS
<1>1. Kernel \in Procs /\ Null \notin Procs /\ Kernel # Null /\ Slots \in 0 .. Slots
  BY SchedulerConstants
<1>2. TypeOK
  <2>1. waiting \in Seq(WaitEntry)
    BY DEF Init
  <2>2. /\ next \in [Procs -> Procs \cup {Null}]
        /\ timeRem \in [Procs -> 0 .. Slots]
        /\ pc \in [Procs -> {"run", "gone", "unlink", "append", "remove"}]
    BY <1>1 DEF Init
  <2>3. status \in [Procs -> {"unused", "active", "sleep", "null"}]
    BY DEF Init
  <2> QED
    BY <1>1, <2>1, <2>2, <2>3 DEF Init, TypeOK
<1>3. Asleep = {} /\ Linked(next, asleep)
  BY NullNodes DEF Init, Asleep
<1>4. Active = {Kernel}
  <2>1. next \in Links /\ active = Kernel /\ {Kernel} \in SUBSET Procs
    BY <1>1 DEF Init, Links
  <2>2. Closed(next, {Kernel})
    BY <1>1 DEF Init, Closed
  <2>3. Nodes(next, Kernel) \subseteq {Kernel}
    BY <1>1, <2>1, <2>2, NodesLeast
  <2> QED
    BY <1>1, <2>1, <2>3, NodesHold DEF Active
<1>5. Linked(next, active)
  BY <1>1, <1>4 DEF Init, Linked, Active
<1>6. Once /\ Delayed = {} /\ InTime
  <2>1. waiting = <<>> /\ Len(waiting) = 0 /\ DOMAIN waiting = {}
    BY DEF Init
  <2>2. InTime
    <3>1. PICK f : f = [i \in 0 .. 0 |-> 0]
      OBVIOUS
    <3>2. f \in [0 .. Len(waiting) -> Nat] /\ f[0] = 0
      BY <2>1, <3>1
    <3> QED
      BY <2>1, <3>2 DEF InTime, Sums
  <2> QED
    BY <2>1, <2>2 DEF Once, Delayed
<1>7. \A p \in Procs : Place(p)
  BY <1>1, <1>3, <1>4, <1>6 DEF Init, Place
<1>8. Current
  BY <1>1, <1>4, <1>6 DEF Init, Current
<1> QED
  BY <1>2, <1>3, <1>4, <1>5, <1>6, <1>7, <1>8 DEF SchedInv

LEMMA StutterKeeps ==
    ASSUME SchedInv, UNCHANGED vars
    PROVE  SchedInv'
<1>1. UNCHANGED <<next, active, asleep, waiting, status, timeRem, current, cpu, pc, hlt, idle, lost, fault>>
  BY DEF vars
<1>2. TypeOK'
  BY <1>1 DEF SchedInv, TypeOK
<1>3. Active' = Active /\ Asleep' = Asleep /\ Linked(next, active)' /\ Linked(next, asleep)'
  BY <1>1 DEF SchedInv, Active, Asleep
<1>4. \A p \in Procs : Place(p)'
  BY <1>1, <1>3, WaitingSame DEF SchedInv, Place
<1>5. Current'
  BY <1>1, <1>3, WaitingSame DEF SchedInv, Current
<1> QED
  BY <1>1, <1>2, <1>3, <1>4, <1>5, WaitingSame DEF SchedInv

LEMMA StepKeeps == SchedInv /\ [QuietNext]_vars => SchedInv'
<1> SUFFICES ASSUME SchedInv, [QuietNext]_vars PROVE SchedInv'
  OBVIOUS
<1>1. CASE QuietTick
  BY <1>1, TickKeeps
<1>2. CASE Yield
  BY <1>2, YieldKeeps
<1>3. CASE SleepUnlink
  BY <1>3, SleepUnlinkKeeps
<1>4. CASE SleepAppend
  BY <1>4, SleepAppendKeeps
<1>5. CASE DelayRemove
  BY <1>5, DelayRemoveKeeps
<1>6. CASE OthersActive /\ SleepMark
  BY <1>6, SleepMarkKeeps
<1>7. CASE OthersActive /\ QuietExit
  BY <1>7, ExitKeeps
<1>8. CASE OthersActive /\ \E ms \in Delays : DelayInsert(ms)
  BY <1>8, DelayInsertKeeps
<1>9. CASE \E q \in Procs : Fork(q)
  BY <1>9, ForkKeeps
<1>10. CASE \E q \in Procs : WakeFirst(q)
  BY <1>10, WakeFirstKeeps
<1>11. CASE \E q \in Procs : next[q] = Null /\ WakeLater(q)
  BY <1>11, WakeLaterKeeps
<1>12. CASE UNCHANGED vars
  BY <1>12, StutterKeeps
<1> QED
  BY <1>1, <1>2, <1>3, <1>4, <1>5, <1>6, <1>7, <1>8, <1>9, <1>10, <1>11, <1>12
  DEF QuietNext, Operations, QuietWake

(* The invariant of the process lists, the current process and the delays  *)
(* (proc.c) when no timer interrupt comes in the middle of a system call   *)
(* and somebody is left to run.                                            *)
THEOREM SchedulerInvariant == QuietSpec => []SchedInv
<1>1. QuietSpec => Init /\ [][QuietNext]_vars
  BY PTL DEF QuietSpec
<1> QED
  BY <1>1, InitHolds, StepKeeps, PTL

(* Every variable keeps its type: in particular no delta wraps, no process *)
(* has less than no time left, and every pointer is a process or NULL.     *)
THEOREM SchedulerTyped == QuietSpec => []TypeOK
<1>1. SchedInv => TypeOK
  BY DEF SchedInv
<1> QED
  BY <1>1, SchedulerInvariant, PTL

LEMMA OneLast ==
    ASSUME NEW nx, NEW head, head # Null, Linked(nx, head)
    PROVE  Cardinality(Lasts(nx, head)) = 1
<1>1. PICK e \in Nodes(nx, head) : nx[e] = Null
  BY DEF Linked
<1>2. Lasts(nx, head) = {e}
  BY <1>1 DEF Linked, Lasts
<1> QED
  BY <1>2, FS_Singleton

LEMMA OneEntry ==
    ASSUME Once, NEW p
    PROVE  Cardinality({i \in DOMAIN waiting : waiting[i].proc = p}) <= 1
<1>1. PICK S : S = {i \in DOMAIN waiting : waiting[i].proc = p}
  OBVIOUS
<1>2. CASE S = {}
  <2>1. Cardinality(S) = 0
    BY <1>2, FS_EmptySet
  <2> QED
    BY <1>1, <2>1
<1>3. CASE S # {}
  <2>1. PICK i \in S : TRUE
    BY <1>3
  <2>2. S = {i}
    BY <1>1, <2>1 DEF Once
  <2>3. Cardinality(S) = 1
    BY <2>2, FS_Singleton
  <2> QED
    BY <1>1, <2>3
<1> QED
  BY <1>2, <1>3

(* Each process is on the one list where it belongs, once, both lists come *)
(* to an end, and every walk of proc.c finds the process it looks for.     *)
THEOREM ListsAlwaysRight == QuietSpec => []ListsRight
<1>1. SchedInv => ListsRight
  <2> SUFFICES ASSUME SchedInv PROVE ListsRight
    OBVIOUS
  <2>1. ListsApart
    BY OneLast DEF SchedInv, ListsApart
  <2>2. OnePlace
    BY OneEntry DEF SchedInv, Place, OnePlace
  <2>3. RunsCurrent /\ NoFault
    BY DEF SchedInv, Current, RunsCurrent, NoFault
  <2> QED
    BY <2>1, <2>2, <2>3 DEF ListsRight
<1> QED
  BY <1>1, SchedulerInvariant, PTL

(* Who leaves the delay list with a tick had none left.                    *)
LEMMA TickEarly ==
    ASSUME SchedInv, waiting' = StillWaiting, NEW i \in DOMAIN waiting,
           \A j \in DOMAIN waiting' : waiting'[j].proc # waiting[i].proc
    PROVE  waiting[i].due <= 0
<1>1. TypeOK /\ InTime
  BY DEF SchedInv
<1>2. PICK m \in Nat : m = Len(waiting) /\ DOMAIN waiting = 1 .. m
  BY <1>1, Entries
<1>3. PICK n \in Nat : n = Expired /\ n <= m
  BY <1>2, OverIs
<1>4. waiting[i].proc \notin Delayed'
  BY DEF Delayed
<1>5. waiting[i].proc \in Delayed
  BY DEF Delayed
<1>6. waiting[i].proc \in Over
  BY <1>4, <1>5, TickWaiting
<1>7. i \in 1 .. n
  <2>1. PICK k \in 1 .. n : waiting[k].proc = waiting[i].proc
    BY <1>3, <1>6 DEF Over
  <2>2. k \in DOMAIN waiting
    BY <1>2, <1>3
  <2> QED
    BY <2>1, <2>2 DEF SchedInv, Once
<1>8. PICK at \in [0 .. Len(waiting) -> Nat] :
         Sums(at) /\ \A j \in DOMAIN waiting : waiting[j].due <= at[j]
  BY <1>1, SumsExist
<1>9. at[i] = 0
  <2>1. i \in 0 .. n
    BY <1>7
  <2> QED
    BY <1>1, <1>3, <1>8, <2>1, OverAt
<1> QED
  BY <1>8, <1>9

(* Nobody runs on who sleeps or waits, the processor idles only when       *)
(* nobody can run, and Proc_Delay() never returns too early.               *)
THEOREM AlwaysInTime == QuietSpec => RunsInTime
<1>1. SchedInv => SleepersSleep /\ IdleOnlyWhenNobodyRuns
  <2> SUFFICES ASSUME SchedInv PROVE SleepersSleep /\ IdleOnlyWhenNobodyRuns
    OBVIOUS
  <2>1. cpu \in Procs /\ status[cpu] \in {"unused", "active", "sleep", "null"} /\ Place(cpu) /\ Current
    BY DEF SchedInv, TypeOK
  <2> QED
    BY <2>1 DEF Place, Current, SleepersSleep, IdleOnlyWhenNobodyRuns
<1>2. SchedInv /\ [QuietNext]_vars =>
         [\A i \in DOMAIN waiting :
            (\A j \in DOMAIN waiting' : waiting'[j].proc # waiting[i].proc) => waiting[i].due <= 0]_vars
  <2> SUFFICES ASSUME SchedInv, QuietNext, NEW i \in DOMAIN waiting,
                      \A j \in DOMAIN waiting' : waiting'[j].proc # waiting[i].proc
               PROVE  waiting[i].due <= 0
    OBVIOUS
  <2>1. CASE QuietTick
    BY <2>1, TickIs, TickEarly
  <2>2. CASE OthersActive /\ \E ms \in Delays : DelayInsert(ms)
    <3>1. PICK ms \in 0 .. Word - 1 : DelayInsert(ms)
      BY <2>2, SchedulerConstants
    <3>2. waiting' = Inserted(ms) /\ cpu \notin Delayed
      BY <3>1, Runner DEF DelayInsert
    <3>3. Delayed' = Delayed \cup {cpu}
      BY <3>2, InsertedEntries
    <3>4. waiting[i].proc \in Delayed'
      BY <3>3 DEF Delayed
    <3> QED
      BY <3>4 DEF Delayed
  <2>3. CASE UNCHANGED waiting
    BY <2>3
  <2> QED
    BY <2>1, <2>2, <2>3
    DEF QuietNext, Operations, QuietWake, Yield, SleepUnlink, SleepAppend, DelayRemove, SleepMark,
        QuietExit, Exit, Fork, WakeFirst, WakeLater, Fails
<1>3. QuietSpec => Init /\ [][QuietNext]_vars
  BY PTL DEF QuietSpec
<1> QED
  BY <1>1, <1>2, <1>3, SchedulerInvariant, PTL DEF RunsInTime, NeverEarly
=============================================================================
