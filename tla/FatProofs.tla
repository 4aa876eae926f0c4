----------------------------- MODULE FatProofs -----------------------------
(***************************************************************************)
(* Proofs about the FAT driver and the IDE disks below it: with one process*)
(* in the driver and on a channel, what a process has read is what the disk*)
(* holds where it asked, and what it has written is there, for any disks,  *)
(* partitions, volumes, tables and directories; and what FAT_Read() returns*)
(* is the sectors of the file, for any volume whose table is sound; and of *)
(* those whose directories are sound too, handles, caches and channels are *)
(* in order.                                                               *)
(***************************************************************************)
EXTENDS Fat, FiniteSetTheorems, SequenceTheorems, WellFoundedInduction, TLAPS

InfoTypeOK == info = [i \in Slots |-> info[i]] /\ \A i \in Slots : info[i] = None \/ info[i] \in Info

(* A process in the driver knows the volume it works on, and where it is.  *)
JobRight(j) ==
    /\ DOMAIN j = DOMAIN NoJob
    /\ j.op = "idle" => j.at = "" /\ j.vol = None
    /\ j.op # "idle" =>
          /\ j.vol \in DOMAIN Volumes /\ j.i \in Slots
          /\ j.dp \in Nat /\ j.cl \in Nat /\ j.dir \in Nat /\ j.off \in Nat
          /\ j.at # "boot" => info[j.i] \in Info /\ info[j.i].vol = j.vol

(* What a process holds is what the disk holds.                            *)
GotRight(r) == \A j \in 1 .. Len(r.got) : r.got[j] = Holds(r.disk, r.lba + j - 1)

(* A transfer asks for sectors there are, and what the channel is about to *)
(* deliver or waits for is what is still missing of it.                    *)
IoRight(r) ==
    /\ r = [pc |-> r.pc, write |-> r.write, disk |-> r.disk, lba |-> r.lba, n |-> r.n, got |-> r.got]
    /\ r.lba \in Int /\ r.n \in Nat /\ (r.pc # "idle" => r.disk \in Disks)
    /\ r.pc = "ask" => ~ r.write /\ r.n > 0
    /\ r.pc = "setup" =>
          /\ r.n > 0 /\ r.lba + r.n <= Size[r.disk] /\ r.got = <<>> /\ r.write \in BOOLEAN
          /\ r.write => r.n = 1 /\ Channel(r.disk) = 0 /\ r.lba \in Nat
    /\ r.pc # "issue"
    /\ r.pc = "take" =>
          /\ r.got \in Seq({Holds(r.disk, r.lba + j - 1) : j \in 1 .. r.n}) /\ Len(r.got) < r.n /\ GotRight(r)
          /\ stream[Channel(r.disk)] =
                 [j \in 1 .. r.n - Len(r.got) |-> Holds(r.disk, r.lba + Len(r.got) + j - 1)]
    /\ r.pc = "put" =>
          /\ Channel(r.disk) = 0 /\ r.n = 1 /\ r.lba \in 0 .. Size[r.disk] - 1
          /\ asks[0] = <<<<r.disk, r.lba>>>>
    /\ r.pc = "done" => GotRight(r)
    /\ r.pc = "put_done" => disk[r.disk][r.lba - 1] = 1

StateTypeOK ==
    /\ disk = [d \in Disks |-> disk[d]] /\ \A d \in Disks : disk[d] \in [0 .. Size[d] - 1 -> Data]
    /\ regs = [c \in Channels |-> regs[c]]
    /\ stream = [c \in Channels |-> stream[c]]
    /\ asks = [c \in Channels |-> asks[c]]
    /\ io = [p \in Procs |-> io[p]]
    /\ pos \in [Slots -> Int]
    /\ job = [p \in Procs |-> job[p]]
    /\ InfoTypeOK

(* The disk a transfer in the driver is about is that of the volume.       *)
OnVolume(p) ==
    /\ io[p].pc = "ask" => job[p].op # "idle"
    /\ job[p].op # "idle" /\ io[p].pc # "idle" => io[p].disk = Volumes[job[p].vol].disk

(* One process at a time is in the FAT driver, and one on a channel.       *)
Exclusive ==
    \A p, q \in Procs : p # q =>
        /\ job[p].op = "idle" \/ job[q].op = "idle"
        /\ Idle(p) \/ Idle(q) \/ Channel(DiskOf(p)) # Channel(DiskOf(q))

(* The inductive invariant of the FAT driver on its disks.                 *)
QInv ==
    /\ StateTypeOK
    /\ \A p \in Procs : JobRight(job[p]) /\ IoRight(io[p]) /\ OnVolume(p)
    /\ Exclusive
-----------------------------------------------------------------------------
(* What a step of one process leaves to the others.                        *)

LEMMA DisksAre ==
    ASSUME NEW d \in Disks
    PROVE  d \in Nat /\ Channel(d) \in Channels /\ Size[d] \in Nat /\ 0 \in Channels
<1>1. d \in 0 .. 3
    BY IdeConstants
<1>2. d \div 2 \in 0 .. 1
    BY <1>1
<1> QED
    BY <1>1, <1>2, IdeConstants DEF Channel, Channels

LEMMA VolumesAre ==
    ASSUME NEW v \in DOMAIN Volumes
    PROVE  /\ Volumes[v].disk \in Disks /\ Volumes[v].spc \in Nat /\ Volumes[v].spc > 0
           /\ Volumes[v].resv \in Nat /\ Volumes[v].fats \in Nat /\ Volumes[v].fatSz \in Nat
           /\ Volumes[v].rootSects \in Nat /\ Volumes[v].rootClust \in Nat /\ Volumes[v].total \in Nat
           /\ v # None
    BY FatConstants DEF Volume

LEMMA DiskOfTransfer ==
    ASSUME NEW p \in Procs, JobRight(job[p]), OnVolume(p), io[p].pc # "idle"
    PROVE  DiskOf(p) = io[p].disk
<1>1. CASE job[p].op = "idle"
    BY <1>1 DEF JobRight, DiskOf
<1>2. CASE job[p].op # "idle"
    BY <1>2, VolumesAre DEF JobRight, DiskOf, OnVolume
<1> QED
    BY <1>1, <1>2

LEMMA JobKept ==
    ASSUME NEW x, JobRight(x), x.op # "idle" => info'[x.i] = info[x.i]
    PROVE  JobRight(x)'
BY DEF JobRight

LEMMA IoKept ==
    ASSUME NEW x, IoRight(x),
           x.pc # "idle" => /\ stream'[Channel(x.disk)] = stream[Channel(x.disk)]
                            /\ asks'[Channel(x.disk)] = asks[Channel(x.disk)]
                            /\ disk'[x.disk] = disk[x.disk]
    PROVE  IoRight(x)'
<1>1. x.pc # "idle" => \A l : Holds(x.disk, l)' = Holds(x.disk, l)
    BY DEF Holds
<1>2. x.pc # "idle" => GotRight(x)' = GotRight(x)
  <2> SUFFICES ASSUME x.pc # "idle" PROVE GotRight(x)' = GotRight(x)
      OBVIOUS
  <2>1. \A j : Holds(x.disk, x.lba + j - 1)' = Holds(x.disk, x.lba + j - 1)
      BY <1>1
  <2> QED
      BY <2>1 DEF GotRight
<1>3. x.pc = "take" =>
          /\ {Holds(x.disk, x.lba + j - 1)' : j \in 1 .. x.n} = {Holds(x.disk, x.lba + j - 1) : j \in 1 .. x.n}
          /\ [j \in 1 .. x.n - Len(x.got) |-> Holds(x.disk, x.lba + Len(x.got) + j - 1)']
                 = [j \in 1 .. x.n - Len(x.got) |-> Holds(x.disk, x.lba + Len(x.got) + j - 1)]
  <2> SUFFICES ASSUME x.pc # "idle"
               PROVE  /\ {Holds(x.disk, x.lba + j - 1)' : j \in 1 .. x.n} = {Holds(x.disk, x.lba + j - 1) : j \in 1 .. x.n}
                      /\ [j \in 1 .. x.n - Len(x.got) |-> Holds(x.disk, x.lba + Len(x.got) + j - 1)']
                             = [j \in 1 .. x.n - Len(x.got) |-> Holds(x.disk, x.lba + Len(x.got) + j - 1)]
      OBVIOUS
  <2>1. \A j : Holds(x.disk, x.lba + j - 1)' = Holds(x.disk, x.lba + j - 1)
      BY <1>1
  <2>2. \A j : Holds(x.disk, x.lba + Len(x.got) + j - 1)' = Holds(x.disk, x.lba + Len(x.got) + j - 1)
      BY <1>1
  <2> QED
      BY <2>1, <2>2
<1>4. x.pc = "put" => asks'[0] = asks[0]
    BY DEF IoRight
<1>5. x.pc = "put_done" => disk'[x.disk] = disk[x.disk]
    OBVIOUS
<1>6. x.pc = "take" => stream'[Channel(x.disk)] = stream[Channel(x.disk)]
    OBVIOUS
<1> QED
    BY <1>2, <1>3, <1>4, <1>5, <1>6 DEF IoRight

(* A step of process p keeps the invariant if it does for p, and touches   *)
(* nothing of the transfers and the jobs of others.                        *)
LEMMA StepInv ==
    ASSUME QInv, NEW p \in Procs, NEW j, NEW r,
           job' = [job EXCEPT ![p] = j], io' = [io EXCEPT ![p] = r],
           StateTypeOK', Exclusive', JobRight(j)', IoRight(r)',
           r.pc = "ask" => j.op # "idle",
           j.op # "idle" /\ r.pc # "idle" => r.disk = Volumes[j.vol].disk,
           \A q \in Procs : q # p /\ job[q].op # "idle" => info'[job[q].i] = info[job[q].i],
           \A q \in Procs : q # p /\ io[q].pc # "idle" =>
               /\ stream'[Channel(io[q].disk)] = stream[Channel(io[q].disk)]
               /\ asks'[Channel(io[q].disk)] = asks[Channel(io[q].disk)]
               /\ disk'[io[q].disk] = disk[io[q].disk]
    PROVE  QInv'
<1>1. job = [q \in Procs |-> job[q]] /\ io = [q \in Procs |-> io[q]]
    BY DEF QInv, StateTypeOK
<1>2. job'[p] = j /\ io'[p] = r
    BY <1>1
<1>3. ASSUME NEW q \in Procs, q # p PROVE job'[q] = job[q] /\ io'[q] = io[q]
    BY <1>1, <1>3
<1>4. ASSUME NEW q \in Procs
      PROVE  JobRight(job[q])' /\ IoRight(io[q])' /\ OnVolume(q)'
  <2>1. CASE q = p
    <3>1. OnVolume(q)'
        BY <1>2, <2>1 DEF OnVolume
    <3>2. job'[q] = j /\ io'[q] = r
        BY <1>2, <2>1
    <3> QED
        BY <3>1, <3>2
  <2>2. CASE q # p
    <3>1. PICK x : x = job[q]
        OBVIOUS
    <3>2. PICK y : y = io[q]
        OBVIOUS
    <3>3. JobRight(x) /\ IoRight(y) /\ OnVolume(q)
        BY <3>1, <3>2 DEF QInv
    <3>4. JobRight(x)'
        BY <2>2, <3>1, <3>3, JobKept
    <3>5. IoRight(y)'
        BY <2>2, <3>2, <3>3, IoKept
    <3>6. OnVolume(q)'
        BY <1>3, <2>2, <3>3 DEF OnVolume
    <3>7. job'[q] = x /\ io'[q] = y
        BY <1>3, <2>2, <3>1, <3>2
    <3> QED
        BY <3>4, <3>5, <3>6, <3>7
  <2> QED
      BY <2>1, <2>2
<1> QED
    BY <1>4 DEF QInv

(* A step of a process that is busy leaves it on its channel.              *)
LEMMA StaysExclusive ==
    ASSUME QInv, NEW p \in Procs, NEW j, NEW r, ~ Idle(p),
           job' = [job EXCEPT ![p] = j], io' = [io EXCEPT ![p] = r],
           job[p].op = "idle" => j.op = "idle",
           \/ j.op = "idle" /\ r.pc = "idle"
           \/ j.vol = job[p].vol /\ (j.vol = None => r.disk = io[p].disk)
    PROVE  Exclusive'
<1>1. job = [q \in Procs |-> job[q]] /\ io = [q \in Procs |-> io[q]]
    BY DEF QInv, StateTypeOK
<1>2. job'[p] = j /\ io'[p] = r
    BY <1>1
<1>3. ASSUME NEW q \in Procs, q # p PROVE job'[q] = job[q] /\ io'[q] = io[q]
    BY <1>1, <1>3
<1>4. Idle(p)' \/ DiskOf(p)' = DiskOf(p)
    BY <1>2 DEF Idle, DiskOf
<1>5. \A q \in Procs : q # p => Idle(q)' = Idle(q) /\ DiskOf(q)' = DiskOf(q)
    BY <1>3 DEF Idle, DiskOf
<1>6. \A q \in Procs : job[q].op = "idle" => job'[q].op = "idle"
    BY <1>2, <1>3
<1>7. \A q \in Procs : Idle(q)' \/ (~ Idle(q) /\ DiskOf(q)' = DiskOf(q))
    BY <1>4, <1>5
<1>8. ASSUME NEW q \in Procs, NEW s \in Procs, q # s
      PROVE  /\ job'[q].op = "idle" \/ job'[s].op = "idle"
             /\ Idle(q)' \/ Idle(s)' \/ Channel(DiskOf(q)') # Channel(DiskOf(s)')
  <2>1. /\ job[q].op = "idle" \/ job[s].op = "idle"
        /\ Idle(q) \/ Idle(s) \/ Channel(DiskOf(q)) # Channel(DiskOf(s))
      BY <1>8 DEF QInv, Exclusive
  <2> QED
      BY <1>6, <1>7, <2>1
<1> QED
    BY <1>8 DEF Exclusive, Channel

(* So does the start of a job while nobody is busy on the channel.         *)
LEMMA StartsExclusive ==
    ASSUME QInv, NEW p \in Procs, NEW j, NEW r, NEW d, Alone(p, d),
           job' = [job EXCEPT ![p] = j], io' = [io EXCEPT ![p] = r],
           j.op = "idle" \/ Quiet,
           d = IF j.vol = None THEN r.disk ELSE Volumes[j.vol].disk
    PROVE  Exclusive'
<1>1. job = [q \in Procs |-> job[q]] /\ io = [q \in Procs |-> io[q]]
    BY DEF QInv, StateTypeOK
<1>2. job'[p] = j /\ io'[p] = r
    BY <1>1
<1>3. ASSUME NEW q \in Procs, q # p PROVE job'[q] = job[q] /\ io'[q] = io[q]
    BY <1>1, <1>3
<1>4. DiskOf(p)' = d
    BY <1>2 DEF DiskOf
<1>5. \A q \in Procs : q # p => Idle(q)' = Idle(q) /\ DiskOf(q)' = DiskOf(q)
    BY <1>3 DEF Idle, DiskOf
<1>6. \A q \in Procs : q # p => Idle(q)' \/ Channel(DiskOf(q)') # Channel(DiskOf(p)')
  <2>1. \A q \in Procs \ {p} : Idle(q) \/ Channel(DiskOf(q)) # Channel(d)
      BY DEF Alone
  <2> QED
      BY <1>4, <1>5, <2>1
<1>7. ASSUME NEW q \in Procs, NEW s \in Procs, q # s
      PROVE  job'[q].op = "idle" \/ job'[s].op = "idle"
  <2>1. job[q].op = "idle" \/ job[s].op = "idle"
      BY <1>7 DEF QInv, Exclusive
  <2>2. CASE j.op = "idle"
      BY <1>2, <1>3, <1>7, <2>1, <2>2
  <2>3. CASE Quiet
      BY <1>3, <1>7, <2>3 DEF Quiet
  <2> QED
      BY <2>2, <2>3
<1>8. ASSUME NEW q \in Procs, NEW s \in Procs, q # s
      PROVE  Idle(q)' \/ Idle(s)' \/ Channel(DiskOf(q)') # Channel(DiskOf(s)')
  <2>1. CASE q = p \/ s = p
      BY <1>6, <1>8, <2>1
  <2>2. CASE q # p /\ s # p
    <3>1. Idle(q) \/ Idle(s) \/ Channel(DiskOf(q)) # Channel(DiskOf(s))
        BY <1>8 DEF QInv, Exclusive
    <3> QED
        BY <1>5, <2>2, <3>1
  <2> QED
      BY <2>1, <2>2
<1> QED
    BY <1>7, <1>8 DEF Exclusive, Channel
-----------------------------------------------------------------------------
(* The steps of a transfer                                                 *)

LEMMA TransferInv ==
    ASSUME QInv, NEW p \in Procs, io[p].pc # "idle", UNCHANGED fatVars,
           NEW r, io' = [io EXCEPT ![p] = r], r.disk = io[p].disk, r.pc # "ask", IoRight(r)',
           StateTypeOK',
           \A c \in Channels : c # Channel(io[p].disk) => stream'[c] = stream[c] /\ asks'[c] = asks[c],
           \A d \in Disks : Channel(d) # Channel(io[p].disk) => disk'[d] = disk[d]
    PROVE  QInv'
<1>1. job = [q \in Procs |-> job[q]]
    BY DEF QInv, StateTypeOK
<1>2. PICK j : j = job[p]
    OBVIOUS
<1>3. job' = [job EXCEPT ![p] = j] /\ info' = info
    BY <1>1, <1>2 DEF fatVars
<1>4. JobRight(j)'
  <2>1. JobRight(j)
      BY <1>2 DEF QInv
  <2> QED
      BY <1>3, <2>1, JobKept
<1>5. j.op # "idle" => r.disk = Volumes[j.vol].disk
    BY <1>2 DEF QInv, OnVolume
<1>6. Exclusive'
    BY <1>2, <1>3, StaysExclusive DEF Idle
<1>7. ASSUME NEW q \in Procs, q # p, io[q].pc # "idle"
      PROVE  /\ stream'[Channel(io[q].disk)] = stream[Channel(io[q].disk)]
             /\ asks'[Channel(io[q].disk)] = asks[Channel(io[q].disk)]
             /\ disk'[io[q].disk] = disk[io[q].disk]
  <2>1. DiskOf(p) = io[p].disk /\ DiskOf(q) = io[q].disk
      BY <1>7, DiskOfTransfer DEF QInv
  <2>2. Channel(DiskOf(p)) # Channel(DiskOf(q))
      BY <1>7 DEF QInv, Exclusive, Idle
  <2>3. Channel(io[p].disk) # Channel(io[q].disk)
      BY <2>1, <2>2
  <2>4. io[q].disk \in Disks
      BY <1>7 DEF QInv, IoRight
  <2>5. Channel(io[q].disk) \in Channels
      BY <2>4, DisksAre
  <2> QED
      BY <2>3, <2>4, <2>5
<1> QED
    BY <1>3, <1>4, <1>5, <1>6, <1>7, StepInv

LEMMA CommandInv ==
    ASSUME QInv, NEW p \in Procs, Command(p), UNCHANGED fatVars
    PROVE  QInv'
<1>1. PICK x : x = io[p]
    OBVIOUS
<1> DEFINE c == Channel(x.disk)
           d == x.disk
           l == x.lba
           n == x.n
<1>2. /\ IoRight(x) /\ x.pc = "setup"
      /\ io = [q \in Procs |-> io[q]] /\ regs = [b \in Channels |-> regs[b]]
      /\ stream = [b \in Channels |-> stream[b]] /\ asks = [b \in Channels |-> asks[b]]
    BY <1>1 DEF QInv, StateTypeOK, Command
<1>3. /\ x = [pc |-> "setup", write |-> x.write, disk |-> d, lba |-> l, n |-> n, got |-> <<>>]
      /\ l \in Int /\ n \in Nat /\ n > 0 /\ d \in Disks /\ l + n <= Size[d] /\ x.write \in BOOLEAN
      /\ x.write => n = 1 /\ c = 0 /\ l \in Nat
    BY <1>1, <1>2 DEF IoRight
<1>4. c \in Channels /\ Size[d] \in Nat
    BY <1>3, DisksAre
<1> DEFINE a == [disk |-> d, lba |-> l, n |-> n]
<1>5. regs' = [regs EXCEPT ![c] = a] /\ Starts(p, regs'[c]) /\ disk' = disk
    BY <1>1 DEF Command, Addressed
<1>6. regs'[c] = a
    BY <1>2, <1>4, <1>5
<1>7. Starts(p, a)
    BY <1>5, <1>6
<1> HIDE DEF a
<1>8. /\ stream' = [stream EXCEPT ![c] = IF x.write THEN <<>> ELSE Sectors(a)]
      /\ asks' = [asks EXCEPT ![c] = IF x.write THEN [j \in 1 .. a.n |-> <<a.disk, a.lba + j - 1>>] ELSE <<>>]
      /\ io' = [io EXCEPT ![p].pc = IF x.write THEN "put" ELSE "take"]
    BY <1>1, <1>7 DEF Starts
<1>9. a.disk = d /\ a.lba = l /\ a.n = n
    BY DEF a
<1>10. PICK w \in BOOLEAN : w = x.write
    BY <1>3
<1> DEFINE r == [pc |-> IF w THEN "put" ELSE "take", write |-> w, disk |-> d, lba |-> l, n |-> n, got |-> <<>>]
<1>11. io' = [io EXCEPT ![p] = r]
  <2>1. io' = [io EXCEPT ![p] = [x EXCEPT !.pc = IF w THEN "put" ELSE "take"]]
      BY <1>1, <1>8, <1>10
  <2>2. [x EXCEPT !.pc = IF w THEN "put" ELSE "take"] = r
      BY <1>3, <1>10
  <2> QED
      BY <2>1, <2>2
<1>12. IoRight(r)'
  <2>1. CASE w
    <3>1. n = 1 /\ c = 0 /\ l \in Nat /\ l \in 0 .. Size[d] - 1
        BY <1>3, <1>4, <1>10, <2>1
    <3>2. asks'[c] = [j \in 1 .. n |-> <<d, l + j - 1>>]
        BY <1>2, <1>4, <1>8, <1>9, <1>10, <2>1
    <3>3. asks'[0] = <<<<d, l>>>>
      <4>1. \A j \in 1 .. 1 : <<d, l + j - 1>> = <<d, l>>
          BY <3>1
      <4>2. asks'[0] = [j \in 1 .. 1 |-> <<d, l>>]
          BY <3>1, <3>2, <4>1
      <4> QED
          BY <4>2
    <3>4. r = [pc |-> "put", write |-> TRUE, disk |-> d, lba |-> l, n |-> 1, got |-> <<>>]
        BY <2>1, <3>1
    <3> HIDE DEF r
    <3> QED
        BY <1>3, <3>1, <3>3, <3>4 DEF IoRight
  <2>2. CASE ~ w
    <3>1. stream'[c] = Sectors(a)
        BY <1>2, <1>4, <1>8, <1>10, <2>2
    <3>2. Sectors(a) = [j \in 1 .. n |-> Holds(d, l + j - 1)]
      <4>1. \A j \in 1 .. n : l + j - 1 < Size[d]
          BY <1>3, <1>4
      <4> QED
          BY <1>9, <4>1 DEF Sectors
    <3>3. \A k : Holds(d, k)' = Holds(d, k)
        BY <1>5 DEF Holds
    <3>4. [j \in 1 .. n - 0 |-> Holds(d, l + 0 + j - 1)'] = [j \in 1 .. n |-> Holds(d, l + j - 1)]
      <4>1. \A j \in 1 .. n : Holds(d, l + 0 + j - 1)' = Holds(d, l + j - 1)
        <5>1. \A j \in 1 .. n : l + 0 + j - 1 = l + j - 1
            BY <1>3
        <5> QED
            BY <3>3, <5>1
      <4>2. n - 0 = n
          BY <1>3
      <4> QED
          BY <4>1, <4>2
    <3>5. r = [pc |-> "take", write |-> FALSE, disk |-> d, lba |-> l, n |-> n, got |-> <<>>]
        BY <2>2
    <3> HIDE DEF r
    <3>6. /\ r.pc = "take" /\ r.write = FALSE /\ r.disk = d /\ r.lba = l /\ r.n = n /\ r.got = <<>>
          /\ Len(r.got) = 0
        BY <3>5
    <3>7. GotRight(r)'
        BY <3>6 DEF GotRight
    <3>8. stream'[c] = [j \in 1 .. n - 0 |-> Holds(d, l + 0 + j - 1)']
        BY <3>1, <3>2, <3>4
    <3>9. r.got \in Seq({Holds(d, l + j - 1)' : j \in 1 .. n})
        BY <3>6
    <3> QED
        BY <1>3, <3>5, <3>6, <3>7, <3>8, <3>9 DEF IoRight
  <2> QED
      BY <2>1, <2>2
<1>13. StateTypeOK'
  <2>1. io' = [q \in Procs |-> io'[q]]
      BY <1>2, <1>8
  <2>2. /\ stream' = [b \in Channels |-> stream'[b]] /\ asks' = [b \in Channels |-> asks'[b]]
        /\ regs' = [b \in Channels |-> regs'[b]]
      BY <1>2, <1>5, <1>8
  <2>3. /\ pos' \in [Slots -> Int] /\ job' = [q \in Procs |-> job'[q]] /\ InfoTypeOK'
      BY DEF fatVars, QInv, StateTypeOK, InfoTypeOK
  <2>4. disk' = [b \in Disks |-> disk'[b]] /\ \A b \in Disks : disk'[b] \in [0 .. Size[b] - 1 -> Data]
      BY <1>5 DEF QInv, StateTypeOK
  <2> QED
      BY <2>1, <2>2, <2>3, <2>4 DEF StateTypeOK
<1>14. /\ \A b \in Channels : b # Channel(io[p].disk) => stream'[b] = stream[b] /\ asks'[b] = asks[b]
       /\ \A b \in Disks : disk'[b] = disk[b]
    BY <1>1, <1>2, <1>5, <1>8
<1>15. io[p].pc # "idle" /\ r.disk = io[p].disk /\ r.pc # "ask"
    BY <1>1, <1>2
<1> HIDE DEF r
<1> QED
    BY <1>11, <1>12, <1>13, <1>14, <1>15, TransferInv

(* What a transfer is after it has received, or sent, a sector.            *)
IsIo(x) == x = [pc |-> x.pc, write |-> x.write, disk |-> x.disk, lba |-> x.lba, n |-> x.n, got |-> x.got]

LEMMA ReceiveLemma ==
    ASSUME NEW x, IsIo(x), NEW g, NEW c
    PROVE  [x EXCEPT !.got = g, !.pc = c]
               = [pc |-> c, write |-> x.write, disk |-> x.disk, lba |-> x.lba, n |-> x.n, got |-> g]
<1>1. PICK u, w, d, l, n, h : x = [pc |-> u, write |-> w, disk |-> d, lba |-> l, n |-> n, got |-> h]
    BY DEF IsIo
<1>2. x.write = w /\ x.disk = d /\ x.lba = l /\ x.n = n
    BY <1>1
<1>3. PICK y : y = [x EXCEPT !.got = g]
    OBVIOUS
<1>4. y = [pc |-> u, write |-> w, disk |-> d, lba |-> l, n |-> n, got |-> g]
    BY <1>1, <1>3
<1>5. [y EXCEPT !.pc = c] = [pc |-> c, write |-> w, disk |-> d, lba |-> l, n |-> n, got |-> g]
    BY <1>4
<1>6. [x EXCEPT !.got = g, !.pc = c] = [y EXCEPT !.pc = c]
    BY <1>3
<1> QED
    BY <1>2, <1>5, <1>6

LEMMA SendLemma ==
    ASSUME NEW x, IsIo(x), NEW a, NEW b, NEW c
    PROVE  [x EXCEPT !.n = a, !.lba = b, !.pc = c]
               = [pc |-> c, write |-> x.write, disk |-> x.disk, lba |-> b, n |-> a, got |-> x.got]
<1>1. PICK u, w, d, l, n, h : x = [pc |-> u, write |-> w, disk |-> d, lba |-> l, n |-> n, got |-> h]
    BY DEF IsIo
<1>2. x.write = w /\ x.disk = d /\ x.got = h
    BY <1>1
<1>3. PICK y : y = [x EXCEPT !.n = a]
    OBVIOUS
<1>4. y = [pc |-> u, write |-> w, disk |-> d, lba |-> l, n |-> a, got |-> h]
    BY <1>1, <1>3
<1>5. PICK z : z = [y EXCEPT !.lba = b]
    OBVIOUS
<1>6. z = [pc |-> u, write |-> w, disk |-> d, lba |-> b, n |-> a, got |-> h]
    BY <1>4, <1>5
<1>7. [z EXCEPT !.pc = c] = [pc |-> c, write |-> w, disk |-> d, lba |-> b, n |-> a, got |-> h]
    BY <1>6
<1>8. [x EXCEPT !.n = a, !.lba = b, !.pc = c] = [z EXCEPT !.pc = c]
    BY <1>3, <1>5
<1> QED
    BY <1>2, <1>7, <1>8

LEMMA TakeInv ==
    ASSUME QInv, NEW p \in Procs, Take(p), UNCHANGED fatVars
    PROVE  QInv'
<1>1. PICK x : x = io[p]
    OBVIOUS
<1> DEFINE c == Channel(x.disk)
           d == x.disk
           l == x.lba
           n == x.n
<1>2. /\ IoRight(x) /\ x.pc = "take"
      /\ io = [q \in Procs |-> io[q]] /\ regs = [b \in Channels |-> regs[b]]
      /\ stream = [b \in Channels |-> stream[b]] /\ asks = [b \in Channels |-> asks[b]]
    BY <1>1 DEF QInv, StateTypeOK, Take
<1>3. /\ x = [pc |-> "take", write |-> x.write, disk |-> d, lba |-> l, n |-> n, got |-> x.got]
      /\ l \in Int /\ n \in Nat /\ d \in Disks
      /\ x.got \in Seq({Holds(d, l + j - 1) : j \in 1 .. n}) /\ Len(x.got) < n /\ GotRight(x)
      /\ stream[c] = [j \in 1 .. n - Len(x.got) |-> Holds(d, l + Len(x.got) + j - 1)]
    BY <1>2 DEF IoRight
<1>4. c \in Channels
    BY <1>3, DisksAre
<1> DEFINE S == {Holds(d, l + j - 1) : j \in 1 .. n}
<1>5. PICK m \in Nat : m = Len(x.got)
  <2>1. x.got \in Seq(S)
      BY <1>3
  <2> HIDE DEF S
  <2> QED
      BY <2>1
<1> DEFINE e == Holds(d, l + m)
           got == Append(x.got, e)
           pc == IF m + 1 = n THEN "done" ELSE "take"
<1>6. /\ n - m \in Nat /\ n - m > 0
      /\ stream[c] = [j \in 1 .. n - m |-> Holds(d, l + m + j - 1)]
    BY <1>3, <1>5
<1>7. /\ stream[c] # <<>> /\ Head(stream[c]) = e
      /\ Tail(stream[c]) = [j \in 1 .. n - m - 1 |-> Holds(d, l + m + j)]
  <2> DEFINE T == {Holds(d, k) : k \in Int}
  <2>1. \A j \in 1 .. n - m : Holds(d, l + m + j - 1) \in T
      BY <1>3, <1>5
  <2>2. PICK s : s = stream[c]
      OBVIOUS
  <2>3. s \in Seq(T) /\ Len(s) = n - m
    <3> HIDE DEF T
    <3> QED
        BY <1>6, <2>1, <2>2
  <2>4. s[1] = e
    <3>1. l + m + 1 - 1 = l + m
        BY <1>3, <1>5
    <3>2. s[1] = Holds(d, l + m + 1 - 1)
        BY <1>6, <2>2
    <3> QED
        BY <3>1, <3>2
  <2>5. s # <<>> /\ Head(s) = s[1]
    <3> HIDE DEF T
    <3> QED
        BY <1>6, <2>3
  <2>6. /\ Tail(s) \in Seq(T) /\ Len(Tail(s)) = n - m - 1
        /\ \A j \in 1 .. n - m - 1 : Tail(s)[j] = s[j + 1]
    <3> HIDE DEF T
    <3> QED
        BY <1>6, <2>3, <2>5
  <2>7. ASSUME NEW j \in 1 .. n - m - 1 PROVE Tail(s)[j] = Holds(d, l + m + j)
    <3>1. j + 1 \in 1 .. n - m /\ l + m + (j + 1) - 1 = l + m + j
        BY <1>3, <1>5, <1>6
    <3>2. s[j + 1] = Holds(d, l + m + (j + 1) - 1)
        BY <1>6, <2>2, <3>1
    <3> QED
        BY <2>6, <3>1, <3>2
  <2>8. Tail(s) = [j \in 1 .. n - m - 1 |-> Tail(s)[j]]
    <3> HIDE DEF T
    <3>1. \A t \in Seq(T) : t = [j \in 1 .. Len(t) |-> t[j]]
        OBVIOUS
    <3>2. Tail(s) = [j \in 1 .. Len(Tail(s)) |-> Tail(s)[j]]
        BY <2>6, <3>1
    <3> QED
        BY <2>6, <3>2
  <2>9. Tail(s) = [j \in 1 .. n - m - 1 |-> Holds(d, l + m + j)]
    <3> HIDE DEF T
    <3> QED
        BY <2>7, <2>8
  <2> QED
      BY <2>2, <2>4, <2>5, <2>9
<1>8. /\ x.got \in Seq(S) /\ e \in S
      /\ got \in Seq(S) /\ Len(got) = m + 1
      /\ \A j \in 1 .. m : got[j] = x.got[j]
      /\ got[m + 1] = e
  <2>1. x.got \in Seq(S)
      BY <1>3
  <2>2. e \in S
    <3>1. m + 1 \in 1 .. n /\ l + (m + 1) - 1 = l + m
        BY <1>3, <1>5
    <3> QED
        BY <3>1
  <2> HIDE DEF S, e
  <2> QED
      BY <1>5, <2>1, <2>2
<1>9. /\ stream' = [stream EXCEPT ![c] = Tail(stream[c])]
      /\ io' = [io EXCEPT ![p].got = got, ![p].pc = pc]
      /\ \E t : regs' = [regs EXCEPT ![c] = t]
      /\ disk' = disk /\ asks' = asks
  <2>1. c = Channel(io[p].disk) /\ Append(io[p].got, Head(stream[c])) = got
      BY <1>1, <1>7
  <2>2. stream' = [stream EXCEPT ![c] = Tail(stream[c])]
      BY <1>2, <1>4, <1>7, <2>1 DEF Take
  <2>3. io' = [io EXCEPT ![p].got = got, ![p].pc = IF Len(got) = io[p].n THEN "done" ELSE "take"]
    <3> HIDE DEF got, e, c, pc, S
    <3> QED
        BY <1>7, <2>1 DEF Take
  <2>4. (Len(got) = io[p].n) <=> m + 1 = n
      BY <1>1, <1>8
  <2>5. \E t : regs' = [regs EXCEPT ![c] = t]
      BY <2>1 DEF Take
  <2>6. io' = [io EXCEPT ![p].got = got, ![p].pc = pc]
    <3>1. pc = IF Len(got) = io[p].n THEN "done" ELSE "take"
        BY <2>4
    <3> HIDE DEF pc, got
    <3> QED
        BY <2>3, <3>1
  <2> HIDE DEF got, pc
  <2> QED
      BY <2>2, <2>5, <2>6 DEF Take
<1>10. PICK g : g = got
    OBVIOUS
<1> DEFINE r == [pc |-> pc, write |-> x.write, disk |-> d, lba |-> l, n |-> n, got |-> g]
<1>11. io' = [io EXCEPT ![p] = r]
  <2>1. io' = [io EXCEPT ![p] = [x EXCEPT !.got = g, !.pc = pc]]
    <3> HIDE DEF got, pc
    <3> QED
        BY <1>1, <1>2, <1>9, <1>10
  <2>2. [x EXCEPT !.got = g, !.pc = pc] = r
    <3> HIDE DEF got, pc
    <3>1. IsIo(x)
        BY <1>2 DEF IoRight, IsIo
    <3> QED
        BY <3>1, ReceiveLemma
  <2> HIDE DEF r
  <2> QED
      BY <2>1, <2>2
<1>12. \A k : Holds(d, k)' = Holds(d, k)
    BY <1>9 DEF Holds
<1>13. IoRight(r)'
  <2>1. \A j \in 1 .. m + 1 : g[j] = Holds(d, l + j - 1)
    <3>1. \A j \in 1 .. m : g[j] = Holds(d, l + j - 1)
        BY <1>3, <1>5, <1>8, <1>10 DEF GotRight
    <3>2. g[m + 1] = Holds(d, l + (m + 1) - 1)
      <4>1. l + (m + 1) - 1 = l + m
          BY <1>3, <1>5
      <4> QED
          BY <1>8, <1>10, <4>1
    <3>3. \A j \in 1 .. m + 1 : j \in 1 .. m \/ j = m + 1
        BY <1>5
    <3> QED
        BY <3>1, <3>2, <3>3
  <2>2. Len(g) = m + 1
      BY <1>8, <1>10
  <2>3. r = [pc |-> pc, write |-> x.write, disk |-> d, lba |-> l, n |-> n, got |-> g]
      OBVIOUS
  <2> HIDE DEF r
  <2>4. GotRight(r)'
    <3>1. \A j \in 1 .. Len(g) : g[j] = Holds(d, l + j - 1)'
        BY <1>12, <2>1, <2>2
    <3>2. r' = r
        OBVIOUS
    <3>3. r.got = g /\ r.disk = d /\ r.lba = l
        BY <2>3
    <3> QED
        BY <3>1, <3>2, <3>3 DEF GotRight
  <2>5. CASE m + 1 = n
    <3>1. r = [pc |-> "done", write |-> x.write, disk |-> d, lba |-> l, n |-> n, got |-> g]
        BY <2>3, <2>5
    <3> QED
        BY <1>3, <2>4, <3>1 DEF IoRight
  <2>6. CASE m + 1 # n
    <3>1. r = [pc |-> "take", write |-> x.write, disk |-> d, lba |-> l, n |-> n, got |-> g]
        BY <2>3, <2>6
    <3>2. {Holds(d, l + j - 1)' : j \in 1 .. n} = S
        BY <1>12
    <3>3. g \in Seq({Holds(d, l + j - 1)' : j \in 1 .. n})
        BY <1>8, <1>10, <3>2
    <3>4. stream'[c] = [j \in 1 .. n - Len(g) |-> Holds(d, l + Len(g) + j - 1)']
      <4>1. stream'[c] = [j \in 1 .. n - m - 1 |-> Holds(d, l + m + j)]
          BY <1>2, <1>4, <1>7, <1>9
      <4>2. n - Len(g) = n - m - 1
          BY <1>3, <1>5, <2>2
      <4>3. \A j \in 1 .. n - m - 1 : Holds(d, l + Len(g) + j - 1)' = Holds(d, l + m + j)
        <5>1. \A j \in 1 .. n - m - 1 : l + Len(g) + j - 1 = l + m + j
            BY <1>3, <1>5, <2>2
        <5> QED
            BY <1>12, <5>1
      <4> QED
          BY <4>1, <4>2, <4>3
    <3>5. Len(g) < n
        BY <1>3, <1>5, <2>2, <2>6
    <3> QED
        BY <1>3, <2>4, <3>1, <3>3, <3>4, <3>5 DEF IoRight
  <2> QED
      BY <2>5, <2>6
<1>14. StateTypeOK'
  <2>1. io' = [q \in Procs |-> io'[q]]
    <3> HIDE DEF r
    <3> QED
        BY <1>2, <1>11
  <2>2. /\ stream' = [b \in Channels |-> stream'[b]] /\ asks' = [b \in Channels |-> asks'[b]]
        /\ regs' = [b \in Channels |-> regs'[b]]
      BY <1>2, <1>9
  <2>3. /\ pos' \in [Slots -> Int] /\ job' = [q \in Procs |-> job'[q]] /\ InfoTypeOK'
      BY DEF fatVars, QInv, StateTypeOK, InfoTypeOK
  <2>4. disk' = [b \in Disks |-> disk'[b]] /\ \A b \in Disks : disk'[b] \in [0 .. Size[b] - 1 -> Data]
      BY <1>9 DEF QInv, StateTypeOK
  <2> QED
      BY <2>1, <2>2, <2>3, <2>4 DEF StateTypeOK
<1>15. /\ \A b \in Channels : b # Channel(io[p].disk) => stream'[b] = stream[b] /\ asks'[b] = asks[b]
       /\ \A b \in Disks : disk'[b] = disk[b]
    BY <1>1, <1>2, <1>9
<1>16. io[p].pc # "idle" /\ r.disk = io[p].disk /\ r.pc # "ask"
    BY <1>1, <1>2
<1> HIDE DEF r
<1> QED
    BY <1>11, <1>13, <1>14, <1>15, <1>16, TransferInv

LEMMA PutInv ==
    ASSUME QInv, NEW p \in Procs, Put(p), UNCHANGED fatVars
    PROVE  QInv'
<1>1. PICK x : x = io[p]
    OBVIOUS
<1> DEFINE d == x.disk
           l == x.lba
<1>2. /\ IoRight(x) /\ x.pc = "put"
      /\ io = [q \in Procs |-> io[q]] /\ regs = [b \in Channels |-> regs[b]]
      /\ disk = [b \in Disks |-> disk[b]]
      /\ stream = [b \in Channels |-> stream[b]] /\ asks = [b \in Channels |-> asks[b]]
    BY <1>1 DEF QInv, StateTypeOK, Put
<1>3. /\ x = [pc |-> "put", write |-> x.write, disk |-> d, lba |-> l, n |-> 1, got |-> x.got]
      /\ d \in Disks /\ Channel(d) = 0 /\ l \in 0 .. Size[d] - 1 /\ l \in Int
      /\ asks[0] = <<<<d, l>>>>
    BY <1>2 DEF IoRight
<1>4. /\ 0 \in Channels /\ Size[d] \in Nat /\ l < Size[d]
      /\ disk[d] \in [0 .. Size[d] - 1 -> Data]
    BY <1>3, DisksAre DEF QInv, StateTypeOK
<1> DEFINE next == <<d, l>>
<1>5. /\ asks[0] # <<>> /\ Head(asks[0]) = next
      /\ next # Junk /\ next[1] = d /\ next[2] = l
    BY <1>3 DEF Junk
<1>6. /\ disk' = [disk EXCEPT ![d][l] = 1]
      /\ asks' = [asks EXCEPT ![0] = Tail(asks[0])]
      /\ \E t : regs' = [regs EXCEPT ![0] = t]
      /\ stream' = stream
  <2> HIDE DEF next
  <2>1. disk' = IF next = Junk \/ next[1] \notin Disks \/ next[2] >= Size[next[1]] THEN disk
                ELSE [disk EXCEPT ![next[1]][next[2]] = 1]
      BY <1>5 DEF Put, Port
  <2>2. ~ (l >= Size[d])
      BY <1>3, <1>4
  <2>3. disk' = [disk EXCEPT ![d][l] = 1]
      BY <1>3, <1>5, <2>1, <2>2
  <2>4. asks' = [asks EXCEPT ![0] = Tail(asks[0])]
      BY <1>2, <1>4, <1>5 DEF Put, Port
  <2> QED
      BY <2>3, <2>4 DEF Put, Port
<1> DEFINE r == [pc |-> "put_done", write |-> x.write, disk |-> d, lba |-> l + 1, n |-> 0, got |-> x.got]
<1>7. io' = [io EXCEPT ![p] = r]
  <2>1. io' = [io EXCEPT ![p].n = io[p].n - 1, ![p].lba = io[p].lba + 1,
                         ![p].pc = IF io[p].n = 1 THEN "put_done" ELSE "put"]
      BY DEF Put
  <2>2. io[p].n - 1 = 0 /\ io[p].lba + 1 = l + 1 /\ io[p].n = 1
      BY <1>1, <1>3
  <2>3. io' = [io EXCEPT ![p].n = 0, ![p].lba = l + 1, ![p].pc = "put_done"]
      BY <2>1, <2>2
  <2>4. io' = [io EXCEPT ![p] = [x EXCEPT !.n = 0, !.lba = l + 1, !.pc = "put_done"]]
      BY <1>1, <1>2, <2>3
  <2>5. [x EXCEPT !.n = 0, !.lba = l + 1, !.pc = "put_done"] = r
    <3>1. IsIo(x)
        BY <1>2 DEF IoRight, IsIo
    <3>2. \A a, b, c : [x EXCEPT !.n = a, !.lba = b, !.pc = c]
              = [pc |-> c, write |-> x.write, disk |-> x.disk, lba |-> b, n |-> a, got |-> x.got]
        BY <3>1, SendLemma
    <3>3. [x EXCEPT !.n = 0, !.lba = l + 1, !.pc = "put_done"]
              = [pc |-> "put_done", write |-> x.write, disk |-> x.disk, lba |-> l + 1, n |-> 0, got |-> x.got]
        BY <3>2
    <3> QED
        BY <3>3
  <2> HIDE DEF r
  <2> QED
      BY <2>4, <2>5
<1>8. disk'[d][l] = 1
    BY <1>2, <1>3, <1>4, <1>6
<1>9. IoRight(r)'
  <2>1. l + 1 \in Int /\ l + 1 - 1 = l
      BY <1>3
  <2>2. r' = r /\ r.disk = d /\ r.lba = l + 1 /\ r.pc = "put_done" /\ r.n = 0
      OBVIOUS
  <2>3. disk'[r.disk][r.lba - 1] = 1
    <3>1. r.lba = l + 1 /\ r.disk = d
        OBVIOUS
    <3>2. PICK k : k = r.lba - 1
        OBVIOUS
    <3>3. k = l
        BY <1>3, <3>1, <3>2
    <3>4. disk'[d][k] = 1
        BY <1>8, <3>3
    <3> HIDE DEF r
    <3> QED
        BY <3>1, <3>2, <3>4
  <2>4. r = [pc |-> r.pc, write |-> r.write, disk |-> r.disk, lba |-> r.lba, n |-> r.n, got |-> r.got]
      OBVIOUS
  <2> HIDE DEF r
  <2> QED
      BY <1>3, <2>1, <2>2, <2>3, <2>4 DEF IoRight
<1>10. StateTypeOK'
  <2>1. io' = [q \in Procs |-> io'[q]]
    <3> HIDE DEF r
    <3> QED
        BY <1>2, <1>7
  <2>2. /\ stream' = [b \in Channels |-> stream'[b]] /\ asks' = [b \in Channels |-> asks'[b]]
        /\ regs' = [b \in Channels |-> regs'[b]]
      BY <1>2, <1>6
  <2>3. /\ pos' \in [Slots -> Int] /\ job' = [q \in Procs |-> job'[q]] /\ InfoTypeOK'
      BY DEF fatVars, QInv, StateTypeOK, InfoTypeOK
  <2>4. disk' = [b \in Disks |-> disk'[b]] /\ \A b \in Disks : disk'[b] \in [0 .. Size[b] - 1 -> Data]
    <3>1. disk' = [disk EXCEPT ![d] = [disk[d] EXCEPT ![l] = 1]]
        BY <1>2, <1>3, <1>6
    <3>2. [disk[d] EXCEPT ![l] = 1] \in [0 .. Size[d] - 1 -> Data]
        BY <1>3, <1>4 DEF Data
    <3>3. \A b \in Disks : disk[b] \in [0 .. Size[b] - 1 -> Data]
        BY DEF QInv, StateTypeOK
    <3>4. ASSUME NEW b \in Disks PROVE disk'[b] \in [0 .. Size[b] - 1 -> Data]
        BY <1>2, <3>1, <3>2, <3>3
    <3> QED
        BY <1>2, <3>1, <3>4
  <2> QED
      BY <2>1, <2>2, <2>3, <2>4 DEF StateTypeOK
<1>11. /\ \A b \in Channels : b # Channel(io[p].disk) => stream'[b] = stream[b] /\ asks'[b] = asks[b]
       /\ \A b \in Disks : Channel(b) # Channel(io[p].disk) => disk'[b] = disk[b]
  <2>1. \A b \in Disks : b # d => disk'[b] = disk[b]
      BY <1>2, <1>6
  <2>2. Channel(io[p].disk) = 0
      BY <1>1, <1>3
  <2> QED
      BY <1>1, <1>2, <1>6, <2>1, <2>2
<1>12. io[p].pc # "idle" /\ r.disk = io[p].disk /\ r.pc # "ask"
    BY <1>1, <1>2
<1> HIDE DEF r
<1> QED
    BY <1>7, <1>9, <1>10, <1>11, <1>12, TransferInv
-----------------------------------------------------------------------------
(* The steps of the FAT driver                                             *)

LEMMA Fields ==
    DOMAIN NoJob = {"op", "at", "vol", "i", "dir", "name", "dp", "off", "len", "cl", "left", "tail", "id", "out"}
BY DEF NoJob

LEMMA RequestFields ==
    ASSUME NEW w, NEW d, NEW l, NEW n, NEW pc
    PROVE  Request(w, d, l, n, pc) = [pc |-> pc, write |-> w, disk |-> d, lba |-> l, n |-> n, got |-> <<>>]
<1>1. PICK a : a = [NoIo EXCEPT !.pc = pc]
    OBVIOUS
<1>2. a = [pc |-> pc, write |-> FALSE, disk |-> 0, lba |-> 0, n |-> 0, got |-> <<>>]
    BY <1>1 DEF NoIo
<1>3. PICK b : b = [a EXCEPT !.write = w]
    OBVIOUS
<1>4. b = [pc |-> pc, write |-> w, disk |-> 0, lba |-> 0, n |-> 0, got |-> <<>>]
    BY <1>2, <1>3
<1>5. PICK e : e = [b EXCEPT !.disk = d]
    OBVIOUS
<1>6. e = [pc |-> pc, write |-> w, disk |-> d, lba |-> 0, n |-> 0, got |-> <<>>]
    BY <1>4, <1>5
<1>7. PICK f : f = [e EXCEPT !.lba = l]
    OBVIOUS
<1>8. f = [pc |-> pc, write |-> w, disk |-> d, lba |-> l, n |-> 0, got |-> <<>>]
    BY <1>6, <1>7
<1>9. [f EXCEPT !.n = n] = [pc |-> pc, write |-> w, disk |-> d, lba |-> l, n |-> n, got |-> <<>>]
    BY <1>8
<1>10. Request(w, d, l, n, pc) = [f EXCEPT !.n = n]
    BY <1>1, <1>3, <1>5, <1>7 DEF Request
<1> QED
    BY <1>9, <1>10

LEMMA RequestRight ==
    /\ IoRight(NoIo)'
    /\ \A d \in Disks : \A n \in Nat : n > 0 => IoRight(Request(FALSE, d, 0, n, "ask"))'
    /\ \A d \in Disks : IoRight(Request(FALSE, d, 0, 0, "done"))'
    /\ \A d \in Disks, w \in BOOLEAN : \A l \in Int, n \in Nat :
           /\ n > 0 /\ l + n <= Size[d]
           /\ w => n = 1 /\ Channel(d) = 0 /\ l \in Nat
           => IoRight(Request(w, d, l, n, "setup"))'
<1>1. IoRight(NoIo)'
    BY DEF IoRight, NoIo
<1>2. ASSUME NEW d, NEW w, NEW l, NEW n, NEW pc
      PROVE  Request(w, d, l, n, pc) = [pc |-> pc, write |-> w, disk |-> d, lba |-> l, n |-> n, got |-> <<>>]
    BY RequestFields
<1>3. ASSUME NEW d \in Disks, NEW n \in Nat, n > 0 PROVE IoRight(Request(FALSE, d, 0, n, "ask"))'
  <2>1. PICK r : r = Request(FALSE, d, 0, n, "ask")
      OBVIOUS
  <2>2. r = [pc |-> "ask", write |-> FALSE, disk |-> d, lba |-> 0, n |-> n, got |-> <<>>]
      BY <1>2, <2>1
  <2>3. IoRight(r)'
      BY <1>3, <2>2 DEF IoRight
  <2>4. Request(FALSE, d, 0, n, "ask")' = r
      BY <2>1 DEF Request, NoIo
  <2> QED
      BY <2>1, <2>3
<1>4. ASSUME NEW d \in Disks PROVE IoRight(Request(FALSE, d, 0, 0, "done"))'
  <2>1. PICK r : r = Request(FALSE, d, 0, 0, "done")
      OBVIOUS
  <2>2. r = [pc |-> "done", write |-> FALSE, disk |-> d, lba |-> 0, n |-> 0, got |-> <<>>]
      BY <1>2, <2>1
  <2>3. GotRight(r)'
      BY <2>2 DEF GotRight
  <2>4. IoRight(r)'
      BY <2>2, <2>3 DEF IoRight
  <2> QED
      BY <2>1, <2>4
<1>5. ASSUME NEW d \in Disks, NEW w \in BOOLEAN, NEW l \in Int, NEW n \in Nat,
             n > 0, l + n <= Size[d], w => n = 1 /\ Channel(d) = 0 /\ l \in Nat
      PROVE  IoRight(Request(w, d, l, n, "setup"))'
  <2>1. PICK r : r = Request(w, d, l, n, "setup")
      OBVIOUS
  <2>2. r = [pc |-> "setup", write |-> w, disk |-> d, lba |-> l, n |-> n, got |-> <<>>]
      BY <1>2, <2>1
  <2>3. IoRight(r)'
      BY <1>5, <2>2 DEF IoRight
  <2> QED
      BY <2>1, <2>3
<1> QED
    BY <1>1, <1>3, <1>4, <1>5

LEMMA IsRequest ==
    ASSUME NEW w, NEW d, NEW l, NEW n, NEW pc
    PROVE  /\ Request(w, d, l, n, pc).pc = pc /\ Request(w, d, l, n, pc).disk = d
           /\ NoIo.pc = "idle"
    BY DEF Request, NoIo

LEMMA NoJobRight == JobRight(NoJob)' /\ NoJob.op = "idle"
    BY DEF JobRight, NoJob

(* The transfer a job has asked for, or the one it has waited for, or none.*)
Next3(p, v, r) ==
    \/ r = NoIo
    \/ r = io[p] /\ io[p].pc # "idle"
    \/ \E n \in Nat : n > 0 /\ r = Request(FALSE, Volumes[v].disk, 0, n, "ask")

LEMMA Next3Right ==
    ASSUME QInv, NEW p \in Procs, NEW v \in DOMAIN Volumes, NEW r, UNCHANGED ideRest, Next3(p, v, r),
           io[p].pc # "idle" => io[p].disk = Volumes[v].disk
    PROVE  IoRight(r)' /\ (r.pc # "idle" => r.disk = Volumes[v].disk)
<1>1. CASE r = NoIo
    BY <1>1, RequestRight, IsRequest
<1>2. CASE r = io[p] /\ io[p].pc # "idle"
  <2>1. IoRight(r)
      BY <1>2 DEF QInv
  <2>2. IoRight(r)'
      BY <2>1, IoKept DEF ideRest
  <2> QED
      BY <1>2, <2>2
<1>3. ASSUME NEW n \in Nat, n > 0, r = Request(FALSE, Volumes[v].disk, 0, n, "ask")
      PROVE  IoRight(r)' /\ (r.pc # "idle" => r.disk = Volumes[v].disk)
  <2>1. PICK d \in Disks : d = Volumes[v].disk
      BY VolumesAre
  <2>2. IoRight(Request(FALSE, d, 0, n, "ask"))'
      BY <1>3, RequestRight
  <2>3. r = Request(FALSE, d, 0, n, "ask")
      BY <1>3, <2>1
  <2>4. r.disk = d
      BY <2>3 DEF Request, NoIo
  <2> QED
      BY <2>1, <2>2, <2>3, <2>4
<1> QED
    BY <1>1, <1>2, <1>3 DEF Next3

LEMMA DriverStateOK ==
    ASSUME QInv, NEW p \in Procs, NEW j, NEW r, UNCHANGED ideRest,
           job' = [job EXCEPT ![p] = j], io' = [io EXCEPT ![p] = r],
           pos' \in [Slots -> Int], InfoTypeOK'
    PROVE  StateTypeOK'
BY DEF QInv, StateTypeOK, ideRest

(* A job that goes on, or is over.                                         *)
LEMMA WorkInv ==
    ASSUME QInv, NEW p \in Procs, job[p].op # "idle", NEW j, NEW r, UNCHANGED ideRest,
           job' = [job EXCEPT ![p] = j], io' = [io EXCEPT ![p] = r],
           pos' \in [Slots -> Int], InfoTypeOK', JobRight(j)',
           Next3(p, job[p].vol, r),
           j.op = "idle" => r = NoIo,
           j.op # "idle" => j.vol = job[p].vol
    PROVE  QInv'
<1>1. PICK v \in DOMAIN Volumes : v = job[p].vol
    BY DEF QInv, JobRight
<1>2. io[p].pc # "idle" => io[p].disk = Volumes[v].disk
    BY <1>1 DEF QInv, OnVolume
<1>3. IoRight(r)' /\ (r.pc # "idle" => r.disk = Volumes[v].disk)
    BY <1>1, <1>2, Next3Right
<1>4. StateTypeOK'
    BY DriverStateOK
<1>5. Exclusive'
  <2>1. ~ Idle(p)
      BY DEF Idle
  <2>2. \/ j.op = "idle" /\ r.pc = "idle"
        \/ j.vol = job[p].vol /\ (j.vol = None => r.disk = io[p].disk)
    <3>1. CASE j.op = "idle"
        BY <3>1, IsRequest
    <3>2. CASE j.op # "idle"
        BY <1>1, <3>2, VolumesAre
    <3> QED
        BY <3>1, <3>2
  <2> QED
      BY <2>1, <2>2, StaysExclusive
<1>6. \A q \in Procs : q # p => job[q].op = "idle"
    BY DEF QInv, Exclusive
<1>7. j.op # "idle" /\ r.pc # "idle" => r.disk = Volumes[j.vol].disk
    BY <1>1, <1>3
<1>8. \A q \in Procs : q # p /\ io[q].pc # "idle" =>
          /\ stream'[Channel(io[q].disk)] = stream[Channel(io[q].disk)]
          /\ asks'[Channel(io[q].disk)] = asks[Channel(io[q].disk)]
          /\ disk'[io[q].disk] = disk[io[q].disk]
    BY DEF ideRest
<1>9. r.pc = "ask" => j.op # "idle"
    BY IsRequest
<1> QED
    BY <1>3, <1>4, <1>5, <1>6, <1>7, <1>8, <1>9, StepInv

(* A job that starts.                                                      *)
LEMMA StartInv ==
    ASSUME QInv, NEW p \in Procs, NEW v \in DOMAIN Volumes, Idle(p), Quiet, Alone(p, Volumes[v].disk),
           NEW j, NEW r, UNCHANGED ideRest,
           job' = [job EXCEPT ![p] = j], io' = [io EXCEPT ![p] = r],
           pos' \in [Slots -> Int], InfoTypeOK', JobRight(j)', j.vol = v,
           Next3(p, v, r)
    PROVE  QInv'
<1>1. IoRight(r)' /\ (r.pc # "idle" => r.disk = Volumes[v].disk)
    BY Next3Right DEF Idle
<1>2. StateTypeOK'
    BY DriverStateOK
<1>3. Exclusive'
  <2>1. Volumes[v].disk = IF j.vol = None THEN r.disk ELSE Volumes[j.vol].disk
      BY VolumesAre
  <2>2. PICK d : d = Volumes[v].disk
      OBVIOUS
  <2> QED
      BY <2>1, <2>2, StartsExclusive
<1>4. \A q \in Procs : job[q].op = "idle"
    BY DEF Quiet
<1>5. j.op # "idle" /\ r.pc # "idle" => r.disk = Volumes[j.vol].disk
    BY <1>1
<1>6. \A q \in Procs : q # p /\ io[q].pc # "idle" =>
          /\ stream'[Channel(io[q].disk)] = stream[Channel(io[q].disk)]
          /\ asks'[Channel(io[q].disk)] = asks[Channel(io[q].disk)]
          /\ disk'[io[q].disk] = disk[io[q].disk]
    BY DEF ideRest
<1>7. j.op # "idle"
    BY VolumesAre DEF JobRight
<1> QED
    BY <1>1, <1>2, <1>3, <1>4, <1>5, <1>6, <1>7, StepInv
-----------------------------------------------------------------------------
(* Numbers                                                                 *)

LessNat == {ss \in Nat \X Nat : ss[1] < ss[2]}

(* A set of numbers that is not empty has a least one.                     *)
LEMMA LeastExists ==
    ASSUME NEW S \in SUBSET Nat, S # {}
    PROVE  \E x \in S : \A y \in S : x =< y
<1>1. IsWellFoundedOn(LessNat, Nat)
    BY NatLessThanWellFounded DEF OpToRel, LessNat
<1>2. \E x \in S : \A y \in S : ~ (<<y, x>> \in LessNat)
    BY <1>1, WFMin, Zenon
<1>3. PICK x \in S : \A y \in S : ~ (<<y, x>> \in LessNat)
    BY <1>2
<1>4. \A y \in S : x =< y
  <2>1. SUFFICES ASSUME NEW y \in S, y < x PROVE FALSE
      OBVIOUS
  <2>2. <<y, x>> \in Nat \X Nat /\ <<y, x>>[1] < <<y, x>>[2]
      BY <2>1
  <2> QED
      BY <1>3, <2>2 DEF LessNat
<1> QED
    BY <1>4

LEMMA FatValueIsNat ==
    ASSUME NEW i, info[i] \in Info, NEW c \in Nat
    PROVE  GetFatValue(i, c) \in Nat
<1>1. info[i].fat \in Seq(Nat)
    BY DEF Info
<1>2. PICK s \in Seq(Nat) : s = info[i].fat
    BY <1>1
<1>3. c < Len(s) => c + 1 \in 1 .. Len(s)
    BY <1>2
<1>4. c < Len(s) => s[c + 1] \in Nat
    BY <1>2, <1>3
<1>5. Eoc \in Nat
    BY FatConstants
<1> QED
    BY <1>2, <1>4, <1>5 DEF GetFatValue

(* The clusters Skip() goes through are well defined, and numbers.         *)
Walk(i, c, n, f) == f = [k \in 0 .. n |-> IF k = 0 THEN c ELSE GetFatValue(i, f[k - 1])]

LEMMA WalkExists ==
    ASSUME NEW i, NEW c, NEW n \in Nat
    PROVE  \E f : Walk(i, c, n, f)
<1> DEFINE S == {m \in Nat : ~ \E f : Walk(i, c, m, f)}
<1> SUFFICES ASSUME S # {} PROVE FALSE
    OBVIOUS
<1>1. PICK m \in S : \A y \in S : m =< y
    BY LeastExists
<1>2. m \in Nat /\ ~ \E f : Walk(i, c, m, f)
    BY <1>1
<1>3. CASE m = 0
  <2>1. PICK f : f = [k \in 0 .. 0 |-> c]
      OBVIOUS
  <2>2. f = [k \in 0 .. 0 |-> IF k = 0 THEN c ELSE GetFatValue(i, f[k - 1])]
      BY <2>1
  <2> QED
      BY <1>2, <1>3, <2>2 DEF Walk
<1>4. CASE m # 0
  <2>1. m - 1 \in Nat /\ m - 1 < m
      BY <1>2, <1>4
  <2>2. m - 1 \notin S
      BY <1>1, <1>2, <2>1
  <2>3. \E f : Walk(i, c, m - 1, f)
      BY <2>1, <2>2
  <2>4. PICK f : Walk(i, c, m - 1, f)
      BY <2>3
  <2>5. f = [k \in 0 .. m - 1 |-> IF k = 0 THEN c ELSE GetFatValue(i, f[k - 1])]
      BY <2>4 DEF Walk
  <2>6. PICK g : g = [k \in 0 .. m |-> IF k = m THEN GetFatValue(i, f[m - 1]) ELSE f[k]]
      OBVIOUS
  <2>7. ASSUME NEW k \in 0 .. m
        PROVE  g[k] = IF k = 0 THEN c ELSE GetFatValue(i, g[k - 1])
    <3>1. CASE k = m
      <4>1. m - 1 \in 0 .. m /\ m - 1 # m
          BY <2>1
      <4>2. g[m - 1] = f[m - 1]
          BY <2>6, <4>1
      <4>3. g[m] = GetFatValue(i, f[m - 1])
          BY <1>2, <2>6, <2>7, <3>1
      <4> QED
          BY <1>4, <3>1, <4>2, <4>3
    <3>2. CASE k # m
      <4>1. k \in 0 .. m - 1
          BY <1>2, <2>7, <3>2
      <4>2. g[k] = f[k]
          BY <2>6, <2>7, <3>2
      <4>3. f[k] = IF k = 0 THEN c ELSE GetFatValue(i, f[k - 1])
          BY <2>5, <4>1
      <4>4. k # 0 => k - 1 \in 0 .. m /\ k - 1 # m
          BY <1>2, <2>7, <3>2
      <4>5. k # 0 => g[k - 1] = f[k - 1]
          BY <2>6, <4>4
      <4> QED
          BY <4>2, <4>3, <4>5
    <3> QED
        BY <3>1, <3>2
  <2>8. g = [k \in 0 .. m |-> g[k]]
      BY <2>6
  <2>9. g = [k \in 0 .. m |-> IF k = 0 THEN c ELSE GetFatValue(i, g[k - 1])]
      BY <2>7, <2>8
  <2> QED
      BY <1>2, <2>9 DEF Walk
<1> QED
    BY <1>3, <1>4

LEMMA SkipIsNat ==
    ASSUME NEW i, info[i] \in Info, NEW c \in Nat, NEW n \in Nat
    PROVE  Skip(i, c, n) \in Nat
<1>1. \E g : g = [k \in 0 .. n |-> IF k = 0 THEN c ELSE GetFatValue(i, g[k - 1])]
  <2>1. PICK g : Walk(i, c, n, g)
      BY WalkExists
  <2>2. g = [k \in 0 .. n |-> IF k = 0 THEN c ELSE GetFatValue(i, g[k - 1])]
      BY <2>1 DEF Walk
  <2> QED
      BY <2>2
<1> DEFINE f[k \in 0 .. n] == IF k = 0 THEN c ELSE GetFatValue(i, f[k - 1])
<1>2. Skip(i, c, n) = f[n]
    BY DEF Skip, f
<1>3. f = [k \in 0 .. n |-> IF k = 0 THEN c ELSE GetFatValue(i, f[k - 1])]
    BY <1>1
<1> HIDE DEF f
<1> DEFINE S == {m \in Nat : m =< n /\ f[m] \notin Nat}
<1>4. SUFFICES ASSUME S # {} PROVE FALSE
  <2>1. n \notin S => f[n] \in Nat
      OBVIOUS
  <2> QED
      BY <1>2, <2>1
<1>5. PICK m \in S : \A y \in S : m =< y
    BY <1>4, LeastExists
<1>6. m \in 0 .. n /\ m \in Nat /\ f[m] \notin Nat
    BY <1>5
<1>7. f[m] = IF m = 0 THEN c ELSE GetFatValue(i, f[m - 1])
    BY <1>3, <1>6
<1>8. m # 0
    BY <1>6, <1>7
<1>9. m - 1 \in Nat /\ m - 1 < m /\ m - 1 =< n
    BY <1>6, <1>8
<1>10. m - 1 \notin S
    BY <1>5, <1>6, <1>9
<1>11. f[m - 1] \in Nat
    BY <1>9, <1>10
<1>12. GetFatValue(i, f[m - 1]) \in Nat
    BY <1>11, FatValueIsNat
<1> QED
    BY <1>6, <1>7, <1>8, <1>12

LEMMA VolumeNumbers ==
    ASSUME NEW v \in DOMAIN Volumes
    PROVE  /\ FirstData(Volumes[v]) \in Nat /\ RootOffset(Volumes[v]) \in Nat
           /\ Count(Volumes[v]) \in Int /\ Cached(Volumes[v]) \in Int
           /\ Chunk(Volumes[v]) \in Nat /\ Chunk(Volumes[v]) > 0
<1>1. PICK b : b = Volumes[v]
    OBVIOUS
<1>2. /\ b.spc \in Nat /\ b.spc > 0 /\ b.resv \in Nat /\ b.fats \in Nat /\ b.fatSz \in Nat
      /\ b.rootSects \in Nat /\ b.rootClust \in Nat /\ b.total \in Nat
    BY <1>1, VolumesAre
<1>3. b.fats * b.fatSz \in Nat /\ b.fatSz * b.fats \in Nat
    BY <1>2
<1>4. FirstData(b) \in Nat
    BY <1>2, <1>3 DEF FirstData
<1>5. Count(b) \in Int
    BY <1>2, <1>3 DEF Count
<1>6. (b.fatSz * b.fats) \div b.spc \in Nat
    BY <1>2, <1>3
<1>7. RootOffset(b) \in Nat
    BY <1>2, <1>6 DEF RootOffset
<1>8. Cached(b) \in Int
    BY <1>5 DEF Cached
<1>9. Chunk(b) \in Nat /\ Chunk(b) > 0
    BY DEF Chunk
<1> QED
    BY <1>1, <1>4, <1>5, <1>7, <1>8, <1>9

LEMMA SectorIsInt ==
    ASSUME NEW i, info[i] \in Info, NEW c \in Nat
    PROVE  SectorOf(i, c) \in Int
<1>1. info[i].data \in Nat /\ info[i].vol \in DOMAIN Volumes
    BY DEF Info
<1>2. B(i).spc \in Nat
    BY <1>1, VolumesAre DEF B
<1>3. PICK d \in Nat, s \in Nat : d = info[i].data /\ s = B(i).spc
    BY <1>1, <1>2
<1>4. d + (c - 2) * s \in Int
    BY <1>3
<1> QED
    BY <1>3, <1>4 DEF SectorOf

LEMMA NatArith ==
    /\ \A a, n \in Nat : a + n \in Nat
    /\ \A a, n \in Nat : n > 0 => a \div n \in Nat /\ a % n \in Nat
    OBVIOUS

(* Where a directory's entry is: in a sector, or behind the end.           *)
LEMMA DirSectorIsInt ==
    ASSUME NEW i, info[i] \in Info, NEW dir \in Nat, NEW dp \in Nat, DirSector(i, dir, dp) # None
    PROVE  DirSector(i, dir, dp) \in Int
<1>1. info[i].vol \in DOMAIN Volumes
    BY DEF Info
<1>2. PICK spc \in Nat, resv \in Nat : spc = B(i).spc /\ resv = B(i).resv /\ spc > 0
    BY <1>1, VolumesAre DEF B
<1>3. PICK sect \in Nat : sect = dp \div PerSector
  <2>1. PerSector \in Nat /\ PerSector > 0
      BY FatConstants
  <2> QED
      BY <2>1, NatArith
<1>4. sect \div spc \in Nat /\ sect % spc \in Nat
    BY <1>2, <1>3
<1>5. PICK c : c = IF IsRoot(i, dir) THEN dir ELSE Skip(i, dir, sect \div spc)
    OBVIOUS
<1>6. c \in Nat
    BY <1>4, <1>5, SkipIsNat
<1>7. PICK base : base = IF IsRoot(i, c) THEN resv + c * spc ELSE SectorOf(i, c)
    OBVIOUS
<1>8. base \in Int
  <2>1. resv + c * spc \in Int
      BY <1>2, <1>6
  <2> QED
      BY <1>6, <1>7, <2>1, SectorIsInt
<1>9. base + (IF spc = 1 THEN sect ELSE sect % spc) \in Int
    BY <1>2, <1>3, <1>4, <1>8
<1>10. DirSector(i, dir, dp) = IF IsEnd(i, c) \/ c > Count(B(i)) + 2 THEN None
                               ELSE base + (IF spc = 1 THEN sect ELSE sect % spc)
    BY <1>2, <1>3, <1>5, <1>7 DEF DirSector
<1> QED
    BY <1>9, <1>10
-----------------------------------------------------------------------------
(* What the driver has got is for a job that goes on.                      *)

LEMMA AtWork ==
    ASSUME QInv, NEW p \in Procs, job[p].at # ""
    PROVE  /\ DOMAIN job[p] = DOMAIN NoJob
           /\ job[p].op # "idle" /\ job[p].vol \in DOMAIN Volumes /\ job[p].i \in Slots
           /\ job[p].dp \in Nat /\ job[p].cl \in Nat /\ job[p].dir \in Nat /\ job[p].off \in Nat
           /\ io[p].n \in Nat
           /\ job[p].at # "boot" => info[job[p].i] \in Info /\ info[job[p].i].vol = job[p].vol
    BY DEF QInv, JobRight, IoRight

LEMMA StateFields ==
    ASSUME QInv
    PROVE  /\ job = [q \in Procs |-> job[q]] /\ io = [q \in Procs |-> io[q]]
           /\ pos \in [Slots -> Int] /\ info = [i \in Slots |-> info[i]] /\ InfoTypeOK
    BY DEF QInv, StateTypeOK, InfoTypeOK

LEMMA SumIsInt ==
    /\ \A a \in Int, n \in Nat : a + n \in Int
    /\ \A n \in Nat : n + 1 \in Nat
    OBVIOUS

LEMMA AfterIsInt ==
    ASSUME QInv, NEW p \in Procs, job[p].at # ""
    PROVE  After(p) \in Int
<1>1. PICK i \in Slots : i = job[p].i
    BY AtWork
<1>2. PICK a \in Int : a = pos[i]
    BY <1>1, StateFields
<1>3. PICK n \in Nat : n = io[p].n
    BY AtWork
<1>4. a + n \in Int
    BY SumIsInt
<1> QED
    BY <1>1, <1>2, <1>3, <1>4 DEF After

LEMMA SeekReadOK ==
    ASSUME QInv, NEW p \in Procs, NEW v \in DOMAIN Volumes, NEW i, NEW s \in Int, NEW n \in Nat, n > 0,
           SeekRead(p, v, i, s, n)
    PROVE  pos' \in [Slots -> Int] /\ \E r : io' = [io EXCEPT ![p] = r] /\ r.pc # "idle" /\ Next3(p, v, r)
<1>1. pos' \in [Slots -> Int]
    BY StateFields DEF SeekRead
<1>2. PICK r : r = Request(FALSE, Volumes[v].disk, 0, n, "ask")
    OBVIOUS
<1>3. io' = [io EXCEPT ![p] = r]
    BY <1>2 DEF SeekRead, Asks, Becomes
<1>4. Next3(p, v, r)
    BY <1>2 DEF Next3
<1>5. r.pc = "ask"
    BY <1>2 DEF Request, NoIo
<1> QED
    BY <1>1, <1>3, <1>4, <1>5

LEMMA ReadOnOK ==
    ASSUME QInv, NEW p \in Procs, job[p].at # "", NEW n \in Nat, n > 0, ReadOn(p, n)
    PROVE  pos' \in [Slots -> Int] /\ \E r : io' = [io EXCEPT ![p] = r] /\ Next3(p, job[p].vol, r)
<1>1. pos' \in [Slots -> Int]
  <2>1. After(p) \in Int
      BY AfterIsInt
  <2> QED
      BY <2>1, StateFields DEF ReadOn
<1>2. PICK r : r = Request(FALSE, Volumes[job[p].vol].disk, 0, n, "ask")
    OBVIOUS
<1>3. io' = [io EXCEPT ![p] = r]
    BY <1>2 DEF ReadOn, Asks, Becomes
<1>4. Next3(p, job[p].vol, r)
    BY <1>2 DEF Next3
<1> QED
    BY <1>1, <1>3, <1>4

LEMMA EndsOK ==
    ASSUME QInv, NEW p \in Procs, job[p].at # "", Ends(p)
    PROVE  pos' \in [Slots -> Int] /\ io' = [io EXCEPT ![p] = NoIo] /\ Next3(p, job[p].vol, NoIo)
<1>1. pos' \in [Slots -> Int]
  <2>1. After(p) \in Int
      BY AfterIsInt
  <2> QED
      BY <2>1, StateFields DEF Ends
<1> QED
    BY <1>1 DEF Ends, Becomes, Next3

(* A job that goes on in the same volume, directory or file.               *)
Same(j, k) == DOMAIN k = DOMAIN NoJob /\ k.op = j.op /\ k.vol = j.vol /\ k.i = j.i /\ k.dir = j.dir /\ k.off = j.off

LEMMA GoesOn ==
    ASSUME QInv, NEW p \in Procs, job[p].at # "", job[p].at # "boot", NEW j, NEW r, UNCHANGED <<ideRest, info>>,
           job' = [job EXCEPT ![p] = j], io' = [io EXCEPT ![p] = r],
           pos' \in [Slots -> Int], Same(job[p], j), j.dp \in Nat, j.cl \in Nat,
           Next3(p, job[p].vol, r)
    PROVE  QInv'
<1>1. job[p].op # "idle" /\ j.op # "idle" /\ j.vol = job[p].vol
    BY AtWork DEF Same
<1>2. InfoTypeOK'
    BY StateFields DEF InfoTypeOK
<1>3. JobRight(j)'
  <2>1. /\ j.vol \in DOMAIN Volumes /\ j.i \in Slots /\ j.dir \in Nat /\ j.off \in Nat
        /\ info[j.i] \in Info /\ info[j.i].vol = j.vol
      BY AtWork DEF Same
  <2> QED
      BY <1>1, <2>1 DEF JobRight, Same
<1>4. UNCHANGED ideRest
    OBVIOUS
<1> QED
    BY <1>1, <1>2, <1>3, <1>4, WorkInv

(* A job on a volume that is mounted starts.                               *)
LEMMA SetsOut ==
    ASSUME QInv, NEW p \in Procs, NEW i \in Slots, Known(i), Idle(p), Quiet, Alone(p, B(i).disk), NEW j, NEW r,
           UNCHANGED <<ideRest, info>>,
           job' = [job EXCEPT ![p] = j], io' = [io EXCEPT ![p] = r], pos' \in [Slots -> Int],
           DOMAIN j = DOMAIN NoJob, j.op # "idle", j.vol = info[i].vol, j.i = i,
           j.dp \in Nat, j.cl \in Nat, j.dir \in Nat, j.off \in Nat,
           Next3(p, info[i].vol, r)
    PROVE  QInv'
<1>1. info[i] \in Info /\ info[i].vol \in DOMAIN Volumes
    BY StateFields DEF InfoTypeOK, Info, Known
<1>2. InfoTypeOK'
    BY StateFields DEF InfoTypeOK
<1>3. JobRight(j)'
    BY <1>1 DEF JobRight
<1>4. PICK v \in DOMAIN Volumes : v = info[i].vol
    BY <1>1
<1>5. Alone(p, Volumes[v].disk)
    BY <1>4 DEF B
<1>6. UNCHANGED ideRest
    OBVIOUS
<1> QED
    BY <1>2, <1>3, <1>4, <1>5, <1>6, StartInv
-----------------------------------------------------------------------------
(* Mounting                                                                *)

LEMMA MountInv ==
    ASSUME QInv, NEW p \in Procs, NEW v \in DOMAIN Volumes, Quiet, Alone(p, Volumes[v].disk), Mount(p, v)
    PROVE  QInv'
<1>1. PICK j : j = [NoJob EXCEPT !.op = "mount", !.at = "boot", !.vol = v, !.i = count]
    OBVIOUS
<1>2. /\ DOMAIN j = DOMAIN NoJob /\ j.op = "mount" /\ j.at = "boot" /\ j.vol = v /\ j.i = count
      /\ j.dp = 0 /\ j.cl = 0 /\ j.dir = 0 /\ j.off = 0
    BY <1>1, Fields DEF NoJob
<1>3. PICK r : io' = [io EXCEPT ![p] = r] /\ Next3(p, v, r) /\ pos' \in [Slots -> Int]
  <2>1. PICK s \in Int, n \in Nat : s = 0 /\ n = 1 /\ n > 0
      OBVIOUS
  <2>2. SeekRead(p, v, count, s, n)
      BY <2>1 DEF Mount
  <2> QED
      BY <2>1, <2>2, SeekReadOK
<1>4. job' = [job EXCEPT ![p] = j] /\ UNCHANGED ideRest /\ UNCHANGED info /\ count \in Slots /\ Idle(p)
    BY <1>1 DEF Mount, Moved
<1>5. InfoTypeOK'
    BY <1>4, StateFields DEF InfoTypeOK
<1>6. JobRight(j)'
    BY <1>2, <1>4 DEF JobRight
<1> QED
    BY <1>2, <1>3, <1>4, <1>5, <1>6, StartInv

LEMMA InfoChanges ==
    ASSUME QInv, NEW i \in Slots, NEW e \in Info, info' = [info EXCEPT ![i] = e]
    PROVE  InfoTypeOK' /\ info'[i] = e
    BY StateFields DEF InfoTypeOK, Info

LEMMA MountBootInv ==
    ASSUME QInv, NEW p \in Procs, MountBoot(p)
    PROVE  QInv'
<1>1. job[p].at = "boot"
    BY DEF MountBoot, Got
<1>2. PICK v \in DOMAIN Volumes, i \in Slots : v = job[p].vol /\ i = job[p].i
    BY <1>1, AtWork
<1>3. PICK e : e = [vol |-> v, root |-> RootOffset(Volumes[v]), data |-> FirstData(Volumes[v]), fat |-> <<>>]
    OBVIOUS
<1>4. e \in Info /\ e.vol = v
    BY <1>3, VolumeNumbers DEF Info
<1>5. info' = [info EXCEPT ![i] = e]
    BY <1>2, <1>3 DEF MountBoot
<1>6. PICK r : io' = [io EXCEPT ![p] = r] /\ Next3(p, v, r) /\ pos' \in [Slots -> Int] /\ r.pc # "idle"
  <2>1. SeekRead(p, v, i, Volumes[v].resv, Chunk(Volumes[v]))
      BY <1>2 DEF MountBoot
  <2>2. PICK s \in Int, n \in Nat : s = Volumes[v].resv /\ n = Chunk(Volumes[v]) /\ n > 0
      BY VolumesAre, VolumeNumbers
  <2> QED
      BY <2>1, <2>2, SeekReadOK
<1>7. PICK j : j = [job[p] EXCEPT !.at = "fat"]
    OBVIOUS
<1>8. job' = [job EXCEPT ![p] = j]
    BY <1>7, StateFields DEF MountBoot
<1>9. Same(job[p], j) /\ j.at = "fat" /\ j.dp = job[p].dp /\ j.cl = job[p].cl
    BY <1>1, <1>7, AtWork, Fields DEF Same
<1>10. JobRight(j)'
  <2>1. info'[j.i] = e /\ j.i = i /\ j.vol = v
      BY <1>2, <1>4, <1>5, <1>9, InfoChanges DEF Same
  <2>2. /\ j.op # "idle" /\ j.vol \in DOMAIN Volumes /\ j.i \in Slots
        /\ j.dp \in Nat /\ j.cl \in Nat /\ j.dir \in Nat /\ j.off \in Nat
      BY <1>1, <1>9, AtWork DEF Same
  <2> QED
      BY <1>4, <1>9, <2>1, <2>2 DEF JobRight, Same, Info
<1>11. InfoTypeOK'
    BY <1>4, <1>5, InfoChanges
<1>12. UNCHANGED ideRest /\ job[p].op # "idle" /\ j.op # "idle" /\ j.vol = job[p].vol
    BY <1>1, <1>9, AtWork DEF MountBoot, Same
<1> QED
    BY <1>2, <1>6, <1>8, <1>10, <1>11, <1>12, WorkInv

LEMMA MinIsInt ==
    ASSUME NEW a \in Int, NEW b \in Int
    PROVE  /\ Min({a, b}) \in Int /\ Min({a, b}) =< a /\ Min({a, b}) =< b
           /\ Min({a, b}) = a \/ Min({a, b}) = b
<1>1. \E x \in {a, b} : \A y \in {a, b} : x =< y
  <2>1. CASE a =< b
      BY <2>1
  <2>2. CASE ~ (a =< b)
    <3>1. b =< a /\ b =< b
        BY <2>2
    <3> QED
        BY <3>1
  <2> QED
      BY <2>1, <2>2
<1>2. Min({a, b}) = CHOOSE x \in {a, b} : \A y \in {a, b} : x =< y
    BY DEF Min
<1>3. Min({a, b}) \in {a, b} /\ \A y \in {a, b} : Min({a, b}) =< y
    BY <1>1, <1>2
<1> QED
    BY <1>3

LEMMA SeqOfNat ==
    ASSUME NEW m \in Int, NEW f, f = [k \in 1 .. m |-> f[k]], \A k \in 1 .. m : f[k] \in Nat
    PROVE  f \in Seq(Nat)
<1>1. CASE m >= 0
    BY <1>1
<1>2. CASE m < 0
  <2>1. 1 .. m = 1 .. 0
      BY <1>2
  <2>2. f = [k \in 1 .. 0 |-> f[k]]
      BY <2>1
  <2> QED
      BY <2>2
<1> QED
    BY <1>1, <1>2

LEMMA ValueIsNat ==
    ASSUME NEW v \in DOMAIN Volumes, NEW s, NEW k \in Nat
    PROVE  Value(v, s, k) \in Nat
<1>1. PICK n : n = Rel(v, s) - Volumes[v].resv
    OBVIOUS
<1>2. PICK t \in Seq(Nat) : t = Table[v]
    BY FatConstants
<1>3. PICK w \in Nat : w = Values
    BY FatConstants
<1>4. CASE Here(v, s) /\ n \in 0 .. Volumes[v].fatSz - 1 /\ n * w + k < Len(t)
  <2>1. n \in Nat
      BY <1>4
  <2>2. n * w \in Nat
      BY <2>1
  <2>3. n * w + k + 1 \in 1 .. Len(t)
      BY <1>4, <2>2
  <2>4. t[n * w + k + 1] \in Nat
      BY <2>3
  <2>5. Value(v, s, k) = t[n * w + k + 1]
      BY <1>1, <1>2, <1>3, <1>4 DEF Value
  <2> QED
      BY <2>4, <2>5
<1>5. CASE ~ (Here(v, s) /\ n \in 0 .. Volumes[v].fatSz - 1 /\ n * w + k < Len(t))
  <2>1. Value(v, s, k) = 0
      BY <1>1, <1>2, <1>3, <1>5 DEF Value
  <2> QED
      BY <2>1
<1> QED
    BY <1>4, <1>5

LEMMA MountFatInv ==
    ASSUME QInv, NEW p \in Procs, MountFat(p)
    PROVE  QInv'
<1>1. job[p].at = "fat"
    BY DEF MountFat, Got
<1>2. PICK v \in DOMAIN Volumes, i \in Slots, dp \in Nat : v = job[p].vol /\ i = job[p].i /\ dp = job[p].dp
    BY <1>1, AtWork
<1>3. PICK x \in Info : x = info[i]
    BY <1>1, <1>2, AtWork
<1>4. x.vol = v
    BY <1>1, <1>2, <1>3, AtWork
<1>5. PICK ch \in Nat, cached \in Int, w \in Nat :
          ch = Chunk(Volumes[v]) /\ cached = Cached(Volumes[v]) /\ w = Values /\ ch > 0 /\ w > 0
    BY VolumeNumbers, FatConstants
<1>6. PICK more \in Nat : more = ch * w
    BY <1>5
<1>7. PICK m \in Int : m = Min({dp + more, cached}) - dp
  <2>1. dp + more \in Int
      OBVIOUS
  <2>2. Min({dp + more, cached}) \in Int
      BY <2>1, MinIsInt
  <2> QED
      BY <2>2
<1>8. PICK g : g = io[p].got
    OBVIOUS
<1>9. PICK f : f = [k \in 1 .. m |-> Value(v, g[(k - 1) \div w + 1], (k - 1) % w)]
    OBVIOUS
<1>10. f \in Seq(Nat)
  <2>1. f = [k \in 1 .. m |-> f[k]]
      BY <1>9
  <2>2. ASSUME NEW k \in 1 .. m PROVE f[k] \in Nat
    <3>1. PICK b \in Nat : b = (k - 1) % w
        BY <1>5, <1>7, <2>2
    <3>2. f[k] = Value(v, g[(k - 1) \div w + 1], b)
        BY <1>9, <2>2, <3>1
    <3>3. PICK s : s = g[(k - 1) \div w + 1]
        OBVIOUS
    <3>4. Value(v, s, b) \in Nat
        BY ValueIsNat
    <3> QED
        BY <3>2, <3>3, <3>4
  <2> QED
      BY <2>1, <2>2, SeqOfNat
<1>11. PICK e : e = [x EXCEPT !.fat = x.fat \o f]
    OBVIOUS
<1>12. e \in Info /\ e.vol = v
  <2>1. x.fat \o f \in Seq(Nat)
      BY <1>10 DEF Info
  <2> QED
      BY <1>4, <1>11, <2>1 DEF Info
<1>13. info' = [info EXCEPT ![i] = e]
  <2>1. info' = [info EXCEPT ![i].fat = @ \o f]
      BY <1>2, <1>5, <1>6, <1>7, <1>8, <1>9 DEF MountFat
  <2> QED
      BY <1>3, <1>11, <2>1, StateFields
<1>14. InfoTypeOK' /\ info'[i] = e
    BY <1>12, <1>13, InfoChanges
<1>15. UNCHANGED ideRest /\ job[p].op # "idle"
    BY <1>1, AtWork DEF MountFat
<1>16. CASE dp + more =< cached
  <2>1. ReadOn(p, ch) /\ job' = [job EXCEPT ![p].dp = @ + more]
      BY <1>2, <1>5, <1>6, <1>16 DEF MountFat
  <2>2. PICK r : io' = [io EXCEPT ![p] = r] /\ Next3(p, job[p].vol, r) /\ pos' \in [Slots -> Int]
      BY <1>1, <1>5, <2>1, ReadOnOK
  <2>3. PICK j : j = [job[p] EXCEPT !.dp = dp + more]
      OBVIOUS
  <2>4. job' = [job EXCEPT ![p] = j]
      BY <1>2, <2>1, <2>3, StateFields
  <2>5. Same(job[p], j) /\ j.dp = dp + more /\ j.cl = job[p].cl
      BY <1>1, <2>3, AtWork, Fields DEF Same
  <2>6. JobRight(j)'
    <3>1. /\ j.op # "idle" /\ j.vol = v /\ j.i = i
          /\ j.cl \in Nat /\ j.dir \in Nat /\ j.off \in Nat
        BY <1>1, <1>2, <2>5, AtWork DEF Same
    <3>2. j.dp \in Nat
        BY <2>5
    <3> QED
        BY <1>12, <1>14, <2>5, <3>1, <3>2 DEF JobRight, Same, Info
  <2>7. j.op # "idle" /\ j.vol = job[p].vol
      BY <1>15, <2>5 DEF Same
  <2> QED
      BY <1>14, <1>15, <2>2, <2>4, <2>6, <2>7, WorkInv
<1>17. CASE ~ (dp + more =< cached)
  <2>1. Ends(p) /\ job' = [job EXCEPT ![p] = NoJob]
      BY <1>2, <1>5, <1>6, <1>17 DEF MountFat, Moved
  <2>2. pos' \in [Slots -> Int] /\ io' = [io EXCEPT ![p] = NoIo] /\ Next3(p, job[p].vol, NoIo)
      BY <1>1, <2>1, EndsOK
  <2> QED
      BY <1>14, <1>15, <2>1, <2>2, NoJobRight, WorkInv
<1> QED
    BY <1>16, <1>17
-----------------------------------------------------------------------------
(* Reading                                                                 *)

(* A cluster of the volume is read.                                        *)
LEMMA ClusterRead ==
    ASSUME QInv, NEW p \in Procs, NEW i \in Slots, info[i] \in Info, NEW c \in Nat, ReadCluster(p, i, c)
    PROVE  pos' \in [Slots -> Int] /\ \E r : io' = [io EXCEPT ![p] = r] /\ Next3(p, info[i].vol, r)
<1>1. PICK v \in DOMAIN Volumes : v = info[i].vol
    BY DEF Info
<1>2. PICK s \in Int, n \in Nat : s = SectorOf(i, c) /\ n = B(i).spc /\ n > 0
    BY <1>1, VolumesAre, SectorIsInt DEF B
<1>3. SeekRead(p, v, i, s, n)
    BY <1>1, <1>2 DEF ReadCluster
<1> QED
    BY <1>1, <1>2, <1>3, SeekReadOK

LEMMA KnownInfo ==
    ASSUME QInv, NEW i \in Slots, Known(i)
    PROVE  info[i] \in Info /\ info[i].vol \in DOMAIN Volumes
    BY StateFields DEF InfoTypeOK, Info, Known

LEMMA ReadArg ==
    ASSUME NEW v \in DOMAIN Volumes, NEW a \in ReadArgs[v]
    PROVE  a[1] \in Nat /\ a[2] \in Nat
<1>1. PICK e \in All(v) : \E off \in 0 .. e.size : a[1] = e.cl /\ a[2] = off
    BY DEF ReadArgs
<1>2. e.cl \in Nat
    BY FatConstants DEF All
<1>3. \A off \in 0 .. e.size : off \in Nat
    OBVIOUS
<1> QED
    BY <1>1, <1>2, <1>3

LEMMA ReadInv ==
    ASSUME QInv, NEW p \in Procs, NEW i \in Slots, Quiet, Alone(p, B(i).disk), Known(i),
           NEW c \in Nat, NEW off \in Nat, NEW len, Read(p, i, c, off, len)
    PROVE  QInv'
<1>1. info[i] \in Info /\ info[i].vol \in DOMAIN Volumes
    BY KnownInfo
<1>2. PICK spc \in Nat : spc = B(i).spc /\ spc > 0
    BY <1>1, VolumesAre DEF B
<1>3. PICK n \in Nat : n = IF off + len < spc THEN 0 ELSE off \div spc
    BY <1>2
<1>4. PICK first \in Nat : first = Skip(i, c, n)
    BY <1>1, SkipIsNat
<1>5. ReadCluster(p, i, first)
    BY <1>2, <1>3, <1>4 DEF Read
<1>6. PICK r : io' = [io EXCEPT ![p] = r] /\ Next3(p, info[i].vol, r) /\ pos' \in [Slots -> Int]
    BY <1>1, <1>5, ClusterRead
<1>7. PICK left : left = Clusters(off, len, spc) - 1
    OBVIOUS
<1>8. PICK j : j = [NoJob EXCEPT !.op = "read", !.at = "first", !.vol = info[i].vol, !.i = i, !.dir = c, !.off = off,
                                 !.len = len, !.cl = first, !.left = left, !.out = <<>>]
    OBVIOUS
<1>9. job' = [job EXCEPT ![p] = j]
    BY <1>2, <1>3, <1>4, <1>7, <1>8 DEF Read, Moved
<1>10. /\ DOMAIN j = DOMAIN NoJob /\ j.op = "read" /\ j.vol = info[i].vol /\ j.i = i
       /\ j.dp = 0 /\ j.cl = first /\ j.dir = c /\ j.off = off
    BY <1>8, Fields DEF NoJob
<1>11. Idle(p) /\ UNCHANGED <<ideRest, info>>
    BY DEF Read
<1>12. j.op # "idle" /\ j.dp \in Nat /\ j.cl \in Nat /\ j.dir \in Nat /\ j.off \in Nat
    BY <1>10
<1> QED
    BY <1>6, <1>9, <1>10, <1>11, <1>12, SetsOut

LEMMA ReturnsInv ==
    ASSUME QInv, NEW p \in Procs, job[p].at # "", job[p].at # "boot", UNCHANGED <<ideRest, info>>,
           NEW out, Returns(p, out)
    PROVE  QInv'
<1>1. PICK j : j = [job[p] EXCEPT !.at = "ready", !.out = out]
    OBVIOUS
<1>2. job' = [job EXCEPT ![p] = j]
    BY <1>1, StateFields DEF Returns
<1>3. Same(job[p], j) /\ j.dp = job[p].dp /\ j.cl = job[p].cl
    BY <1>1, AtWork, Fields DEF Same
<1>4. j.dp \in Nat /\ j.cl \in Nat
    BY <1>3, AtWork
<1>5. pos' \in [Slots -> Int] /\ io' = [io EXCEPT ![p] = NoIo] /\ Next3(p, job[p].vol, NoIo)
    BY EndsOK DEF Returns
<1> QED
    BY <1>2, <1>3, <1>4, <1>5, GoesOn

LEMMA ReadFirstInv ==
    ASSUME QInv, NEW p \in Procs, ReadFirst(p)
    PROVE  QInv'
<1>1. job[p].at = "first" /\ UNCHANGED <<ideRest, info>>
    BY DEF ReadFirst, Got
<1>2. PICK i \in Slots : i = job[p].i
    BY <1>1, AtWork
<1>3. info[i] \in Info /\ info[i].vol = job[p].vol
    BY <1>1, <1>2, AtWork
<1>4. PICK skip : skip = job[p].off % B(i).spc
    OBVIOUS
<1>5. PICK out : out = Piece(io[p].got, skip, Min({B(i).spc - skip, job[p].len}))
    OBVIOUS
<1>6. PICK next \in Nat : next = GetFatValue(i, job[p].cl)
    BY <1>1, <1>3, AtWork, FatValueIsNat
<1>7. CASE job[p].left = 0
  <2>1. Returns(p, out)
      BY <1>2, <1>4, <1>5, <1>7 DEF ReadFirst
  <2> QED
      BY <1>1, <2>1, ReturnsInv
<1>8. CASE job[p].left # 0
  <2>1. OnTo(p, i, next, out)
      BY <1>2, <1>4, <1>5, <1>6, <1>8 DEF ReadFirst
  <2>2. PICK r : io' = [io EXCEPT ![p] = r] /\ Next3(p, job[p].vol, r) /\ pos' \in [Slots -> Int]
      BY <1>3, <2>1, ClusterRead DEF OnTo
  <2>3. PICK j : j = [job[p] EXCEPT !.at = "rest", !.cl = next, !.out = out]
      OBVIOUS
  <2>4. job' = [job EXCEPT ![p] = j]
      BY <2>1, <2>3, StateFields DEF OnTo
  <2>5. Same(job[p], j) /\ j.dp = job[p].dp /\ j.cl = next
      BY <1>1, <2>3, AtWork, Fields DEF Same
  <2>6. j.dp \in Nat /\ j.cl \in Nat
      BY <1>1, <2>5, AtWork
  <2> QED
      BY <1>1, <2>2, <2>4, <2>5, <2>6, GoesOn
<1> QED
    BY <1>7, <1>8

LEMMA ReadRestInv ==
    ASSUME QInv, NEW p \in Procs, ReadRest(p)
    PROVE  QInv'
<1>1. job[p].at = "rest" /\ UNCHANGED <<ideRest, info>>
    BY DEF ReadRest, Got
<1>2. PICK i \in Slots : i = job[p].i
    BY <1>1, AtWork
<1>3. info[i] \in Info /\ info[i].vol = job[p].vol
    BY <1>1, <1>2, AtWork
<1>4. PICK out : out = job[p].out \o Piece(io[p].got, 0, IF job[p].left = 1 THEN job[p].len - Len(job[p].out) ELSE B(i).spc)
    OBVIOUS
<1>5. PICK next \in Nat : next = GetFatValue(i, job[p].cl)
    BY <1>1, <1>3, AtWork, FatValueIsNat
<1>6. CASE job[p].left = 1 \/ IsEnd(i, next)
  <2>1. Returns(p, out)
      BY <1>2, <1>4, <1>5, <1>6 DEF ReadRest
  <2> QED
      BY <1>1, <2>1, ReturnsInv
<1>7. CASE ~ (job[p].left = 1 \/ IsEnd(i, next))
  <2>1. /\ ReadCluster(p, i, next)
        /\ job' = [job EXCEPT ![p].cl = next, ![p].left = @ - 1, ![p].out = out]
      BY <1>2, <1>4, <1>5, <1>7 DEF ReadRest
  <2>2. PICK r : io' = [io EXCEPT ![p] = r] /\ Next3(p, job[p].vol, r) /\ pos' \in [Slots -> Int]
      BY <1>3, <2>1, ClusterRead
  <2>3. PICK j : j = [job[p] EXCEPT !.cl = next, !.left = job[p].left - 1, !.out = out]
      OBVIOUS
  <2>4. job' = [job EXCEPT ![p] = j]
      BY <2>1, <2>3, StateFields
  <2>5. Same(job[p], j) /\ j.dp = job[p].dp /\ j.cl = next
      BY <1>1, <2>3, AtWork, Fields DEF Same
  <2>6. j.dp \in Nat /\ j.cl \in Nat
      BY <1>1, <2>5, AtWork
  <2> QED
      BY <1>1, <2>2, <2>4, <2>5, <2>6, GoesOn
<1> QED
    BY <1>6, <1>7
-----------------------------------------------------------------------------
(* Listing                                                                 *)

LEMMA DirsAre ==
    ASSUME NEW v \in DOMAIN Volumes, NEW dir \in Dirs(v)
    PROVE  dir \in Nat
<1>1. Root(v) \in Nat
    BY VolumeNumbers DEF Root
<1>2. \A e \in All(v) : e.cl \in Nat
    BY FatConstants DEF All
<1> QED
    BY <1>1, <1>2 DEF Dirs

LEMMA ListArg ==
    ASSUME NEW v \in DOMAIN Volumes, NEW a \in ListArgs[v]
    PROVE  a[1] \in Nat /\ a[2] \in Nat
<1>1. a[1] \in Dirs(v) /\ (a[2] = 0 \/ \E f \in Contents[v][a[1]] : a[2] = f.at)
    BY DEF ListArgs
<1>2. \A d \in Dirs(v) : \A f \in Contents[v][d] : f.at \in Nat
    BY DEF Contents, Files
<1> QED
    BY <1>1, <1>2, DirsAre

LEMMA FindArg ==
    ASSUME NEW v \in DOMAIN Volumes, NEW a \in FindArgs[v]
    PROVE  a[1] \in Nat
<1>1. a[1] \in Dirs(v)
    BY DEF FindArgs
<1> QED
    BY <1>1, DirsAre

(* What has been listed, and where the listing goes on.                    *)
LEMMA ListFromOK ==
    ASSUME QInv, NEW p \in Procs, NEW i \in Slots, info[i] \in Info, NEW dir \in Nat, NEW dp \in Nat,
           NEW j, DOMAIN j = DOMAIN NoJob, ListFrom(p, i, dir, dp, j)
    PROVE  \E k, r : /\ job' = [job EXCEPT ![p] = k] /\ io' = [io EXCEPT ![p] = r] /\ pos' \in [Slots -> Int]
                     /\ Next3(p, info[i].vol, r) /\ Same(j, k) /\ k.dp = dp /\ k.cl = j.cl
<1>1. PICK v \in DOMAIN Volumes : v = info[i].vol
    BY DEF Info
<1>2. PICK s : s = DirSector(i, dir, dp)
    OBVIOUS
<1>3. CASE s = None
  <2>1. PICK k : k = [j EXCEPT !.at = "listed", !.dp = dp, !.out = NoNode]
      OBVIOUS
  <2>2. job' = [job EXCEPT ![p] = k] /\ io' = [io EXCEPT ![p] = NoIo] /\ pos' = pos
      BY <1>2, <1>3, <2>1 DEF ListFrom, Moved, Becomes
  <2>3. Same(j, k) /\ k.dp = dp /\ k.cl = j.cl
      BY <2>1, Fields DEF Same
  <2>4. Next3(p, info[i].vol, NoIo) /\ pos' \in [Slots -> Int]
      BY <2>2, StateFields DEF Next3
  <2> QED
      BY <2>2, <2>3, <2>4
<1>4. CASE s # None
  <2>1. PICK k : k = [j EXCEPT !.at = "list", !.dp = dp]
      OBVIOUS
  <2>2. SeekRead(p, v, i, s, 1) /\ job' = [job EXCEPT ![p] = k]
      BY <1>1, <1>2, <1>4, <2>1 DEF ListFrom, Moved
  <2>3. PICK t \in Int, n \in Nat : t = s /\ n = 1 /\ n > 0
      BY <1>2, <1>4, DirSectorIsInt
  <2>4. SeekRead(p, v, i, t, n)
      BY <2>2, <2>3
  <2>5. PICK r : io' = [io EXCEPT ![p] = r] /\ Next3(p, v, r) /\ pos' \in [Slots -> Int]
      BY <2>3, <2>4, SeekReadOK
  <2>6. Same(j, k) /\ k.dp = dp /\ k.cl = j.cl
      BY <2>1, Fields DEF Same
  <2> QED
      BY <1>1, <2>2, <2>5, <2>6
<1> QED
    BY <1>3, <1>4

LEMMA ListInv ==
    ASSUME QInv, NEW p \in Procs, NEW i \in Slots, Quiet, Alone(p, B(i).disk), Known(i),
           NEW dir \in Nat, NEW dp \in Nat, List(p, i, dir, dp)
    PROVE  QInv'
<1>1. info[i] \in Info
    BY KnownInfo
<1>2. PICK j : j = [NoJob EXCEPT !.op = "list", !.vol = info[i].vol, !.i = i, !.dir = dir, !.off = dp]
    OBVIOUS
<1>3. /\ DOMAIN j = DOMAIN NoJob /\ j.op = "list" /\ j.vol = info[i].vol /\ j.i = i
      /\ j.dir = dir /\ j.off = dp /\ j.cl = 0
    BY <1>2, Fields DEF NoJob
<1>4. ListFrom(p, i, dir, dp, j) /\ Idle(p) /\ UNCHANGED <<ideRest, info>>
    BY <1>2 DEF List
<1>5. PICK k, r : /\ job' = [job EXCEPT ![p] = k] /\ io' = [io EXCEPT ![p] = r] /\ pos' \in [Slots -> Int]
                  /\ Next3(p, info[i].vol, r) /\ Same(j, k) /\ k.dp = dp /\ k.cl = j.cl
    BY <1>1, <1>3, <1>4, ListFromOK
<1>6. /\ DOMAIN k = DOMAIN NoJob /\ k.op # "idle" /\ k.vol = info[i].vol /\ k.i = i
      /\ k.dp \in Nat /\ k.cl \in Nat /\ k.dir \in Nat /\ k.off \in Nat
    BY <1>3, <1>5 DEF Same
<1> QED
    BY <1>4, <1>5, <1>6, SetsOut

LEMMA ListSkipInv ==
    ASSUME QInv, NEW p \in Procs, ListSkip(p)
    PROVE  QInv'
<1>1. job[p].at = "list" /\ UNCHANGED <<ideRest, info>>
    BY DEF ListSkip, Got
<1>2. PICK i \in Slots, dir \in Nat, dp \in Nat : i = job[p].i /\ dir = job[p].dir /\ dp = job[p].dp + 1
    BY <1>1, AtWork, SumIsInt
<1>3. info[i] \in Info /\ info[i].vol = job[p].vol
    BY <1>1, <1>2, AtWork
<1>4. PICK j : j = job[p]
    OBVIOUS
<1>5. DOMAIN j = DOMAIN NoJob /\ ListFrom(p, i, dir, dp, j)
    BY <1>1, <1>2, <1>4, AtWork DEF ListSkip
<1>6. PICK k, r : /\ job' = [job EXCEPT ![p] = k] /\ io' = [io EXCEPT ![p] = r] /\ pos' \in [Slots -> Int]
                  /\ Next3(p, info[i].vol, r) /\ Same(j, k) /\ k.dp = dp /\ k.cl = j.cl
    BY <1>3, <1>5, ListFromOK
<1>7. k.dp \in Nat /\ k.cl \in Nat /\ Same(job[p], k) /\ Next3(p, job[p].vol, r)
    BY <1>1, <1>3, <1>4, <1>6, AtWork
<1> QED
    BY <1>1, <1>6, <1>7, GoesOn

(* A job that has its answer.                                              *)
LEMMA AnswerInv ==
    ASSUME QInv, NEW p \in Procs, job[p].at # "", job[p].at # "boot", UNCHANGED <<ideRest, info>>,
           Ends(p), NEW j, job' = [job EXCEPT ![p] = j], Same(job[p], j), j.dp \in Nat, j.cl \in Nat
    PROVE  QInv'
<1>1. pos' \in [Slots -> Int] /\ io' = [io EXCEPT ![p] = NoIo] /\ Next3(p, job[p].vol, NoIo)
    BY EndsOK
<1> QED
    BY <1>1, GoesOn

LEMMA ListEndInv ==
    ASSUME QInv, NEW p \in Procs, ListEnd(p)
    PROVE  QInv'
<1>1. job[p].at = "list" /\ Ends(p) /\ UNCHANGED <<ideRest, info>>
    BY DEF ListEnd, Got
<1>2. PICK j : j = [job[p] EXCEPT !.at = "listed", !.out = NoNode]
    OBVIOUS
<1>3. job' = [job EXCEPT ![p] = j]
    BY <1>2, StateFields DEF ListEnd
<1>4. Same(job[p], j) /\ j.dp = job[p].dp /\ j.cl = job[p].cl
    BY <1>1, <1>2, AtWork, Fields DEF Same
<1>5. j.dp \in Nat /\ j.cl \in Nat
    BY <1>1, <1>4, AtWork
<1> QED
    BY <1>1, <1>3, <1>4, <1>5, AnswerInv

LEMMA ListFileInv ==
    ASSUME QInv, NEW p \in Procs, ListFile(p)
    PROVE  QInv'
<1>1. job[p].at = "list" /\ Ends(p) /\ UNCHANGED <<ideRest, info>>
    BY DEF ListFile, Got
<1>2. PICK out : job' = [job EXCEPT ![p].at = "listed", ![p].dp = @ + 1, ![p].out = out]
    BY DEF ListFile
<1>3. PICK j : j = [job[p] EXCEPT !.at = "listed", !.dp = job[p].dp + 1, !.out = out]
    OBVIOUS
<1>4. job' = [job EXCEPT ![p] = j]
    BY <1>2, <1>3, StateFields
<1>5. Same(job[p], j) /\ j.dp = job[p].dp + 1 /\ j.cl = job[p].cl
    BY <1>1, <1>3, AtWork, Fields DEF Same
<1>6. j.dp \in Nat /\ j.cl \in Nat
    BY <1>1, <1>5, AtWork, SumIsInt
<1> QED
    BY <1>1, <1>4, <1>5, <1>6, AnswerInv
-----------------------------------------------------------------------------
(* Finding                                                                 *)

LEMMA FindInv ==
    ASSUME QInv, NEW p \in Procs, NEW i \in Slots, Quiet, Alone(p, B(i).disk), Known(i),
           NEW dir \in Nat, NEW name, Find(p, i, dir, name)
    PROVE  QInv'
<1>1. info[i] \in Info
    BY KnownInfo
<1>2. PICK v \in DOMAIN Volumes : v = info[i].vol
    BY KnownInfo
<1>3. PICK s \in Int : s = IF IsRoot(i, dir) THEN B(i).resv + dir * B(i).spc ELSE SectorOf(i, dir)
  <2>1. PICK a \in Nat, b \in Nat : a = B(i).resv /\ b = B(i).spc
      BY <1>2, VolumesAre DEF B
  <2>2. dir * b \in Nat
      BY <2>1
  <2>3. a + dir * b \in Int
      BY <2>1, <2>2
  <2>4. SectorOf(i, dir) \in Int
      BY <1>1, SectorIsInt
  <2> QED
      BY <2>1, <2>3, <2>4
<1>4. PICK j : j = [NoJob EXCEPT !.op = "find", !.at = "find", !.vol = info[i].vol, !.i = i, !.dir = dir, !.name = name,
                                 !.cl = dir, !.id = -1]
    OBVIOUS
<1>5. /\ DOMAIN j = DOMAIN NoJob /\ j.op = "find" /\ j.vol = info[i].vol /\ j.i = i
      /\ j.dir = dir /\ j.off = 0 /\ j.cl = dir /\ j.dp = 0
    BY <1>4, Fields DEF NoJob
<1>6. PICK r : io' = [io EXCEPT ![p] = r] /\ Next3(p, v, r) /\ pos' \in [Slots -> Int]
  <2>1. PICK n \in Nat : n = 1 /\ n > 0
      OBVIOUS
  <2>2. SeekRead(p, v, i, s, n)
      BY <1>2, <1>3, <2>1 DEF Find
  <2> QED
      BY <2>1, <2>2, SeekReadOK
<1>7. job' = [job EXCEPT ![p] = j] /\ Idle(p) /\ UNCHANGED <<ideRest, info>>
    BY <1>4 DEF Find, Moved
<1>8. j.op # "idle" /\ j.dp \in Nat /\ j.cl \in Nat /\ j.dir \in Nat /\ j.off \in Nat
    BY <1>5
<1> QED
    BY <1>2, <1>5, <1>6, <1>7, <1>8, SetsOut

LEMMA FindOnInv ==
    ASSUME QInv, NEW p \in Procs, Got(p, "find"), UNCHANGED <<ideRest, info>>,
           NEW j, Same(job[p], j), j.dp = job[p].dp, j.cl = job[p].cl, FindOn(p, j)
    PROVE  QInv'
<1>1. job[p].at = "find" /\ io[p].pc = "done"
    BY DEF Got
<1>2. PICK i \in Slots, dp \in Nat, c \in Nat, v \in DOMAIN Volumes :
          i = job[p].i /\ dp = job[p].dp + 1 /\ c = job[p].cl /\ v = job[p].vol
    BY <1>1, AtWork, SumIsInt
<1>3. info[i] \in Info /\ info[i].vol = v
    BY <1>1, <1>2, AtWork
<1>4. j.i = i /\ j.dp + 1 = dp /\ j.cl = c /\ j.vol = v /\ DOMAIN j = DOMAIN NoJob
    BY <1>2 DEF Same
<1>5. PICK next \in Nat : next = GetFatValue(i, c)
    BY <1>3, FatValueIsNat
<1>6. PICK k : k = [j EXCEPT !.dp = dp]
    OBVIOUS
<1>7. Same(job[p], k) /\ k.dp = dp /\ k.cl = c
    BY <1>4, <1>6, Fields DEF Same
<1>8. CASE dp % PerSector # 0
  <2>1. job' = [job EXCEPT ![p] = k] /\ pos' = pos /\ io' = io
      BY <1>4, <1>6, <1>8 DEF FindOn, Moved
  <2>2. PICK r : r = io[p]
      OBVIOUS
  <2>3. io' = [io EXCEPT ![p] = r] /\ Next3(p, job[p].vol, r) /\ pos' \in [Slots -> Int]
      BY <1>1, <2>1, <2>2, StateFields DEF Next3
  <2>4. k.dp \in Nat /\ k.cl \in Nat
      BY <1>7
  <2> QED
      BY <1>1, <1>7, <2>1, <2>3, <2>4, GoesOn
<1>9. CASE ~ (dp % PerSector # 0) /\ ((dp \div PerSector) % B(i).spc # 0 \/ IsRoot(i, c))
  <2>1. PICK n \in Nat : n = 1 /\ n > 0
      OBVIOUS
  <2>2. job' = [job EXCEPT ![p] = k] /\ ReadOn(p, n)
      BY <1>4, <1>6, <1>9, <2>1 DEF FindOn, Moved
  <2>3. PICK r : io' = [io EXCEPT ![p] = r] /\ Next3(p, job[p].vol, r) /\ pos' \in [Slots -> Int]
      BY <1>1, <2>1, <2>2, ReadOnOK
  <2>4. k.dp \in Nat /\ k.cl \in Nat
      BY <1>7
  <2> QED
      BY <1>1, <1>7, <2>2, <2>3, <2>4, GoesOn
<1>10. CASE ~ (dp % PerSector # 0) /\ ~ ((dp \div PerSector) % B(i).spc # 0 \/ IsRoot(i, c))
  <2>1. PICK n \in Nat, s \in Int : n = 1 /\ n > 0 /\ s = SectorOf(i, next)
      BY <1>3, SectorIsInt
  <2>2. PICK m : m = [j EXCEPT !.dp = dp, !.cl = next]
      OBVIOUS
  <2>3. job' = [job EXCEPT ![p] = m] /\ SeekRead(p, v, i, s, n)
      BY <1>4, <1>5, <1>10, <2>1, <2>2 DEF FindOn, Moved
  <2>4. Same(job[p], m) /\ m.dp = dp /\ m.cl = next
      BY <1>4, <2>2, Fields DEF Same
  <2>5. PICK r : io' = [io EXCEPT ![p] = r] /\ Next3(p, v, r) /\ pos' \in [Slots -> Int]
      BY <2>1, <2>3, SeekReadOK
  <2>6. m.dp \in Nat /\ m.cl \in Nat
      BY <2>4
  <2> QED
      BY <1>1, <1>2, <2>3, <2>4, <2>5, <2>6, GoesOn
<1> QED
    BY <1>8, <1>9, <1>10

LEMMA FindEndInv ==
    ASSUME QInv, NEW p \in Procs, FindEnd(p)
    PROVE  QInv'
<1>1. job[p].at = "find" /\ Ends(p) /\ UNCHANGED <<ideRest, info>>
    BY DEF FindEnd, Got
<1>2. PICK j : j = [job[p] EXCEPT !.at = "found", !.out = NoNode]
    OBVIOUS
<1>3. job' = [job EXCEPT ![p] = j]
    BY <1>2, StateFields DEF FindEnd
<1>4. Same(job[p], j) /\ j.dp = job[p].dp /\ j.cl = job[p].cl
    BY <1>1, <1>2, AtWork, Fields DEF Same
<1>5. j.dp \in Nat /\ j.cl \in Nat
    BY <1>1, <1>4, AtWork
<1> QED
    BY <1>1, <1>3, <1>4, <1>5, AnswerInv

LEMMA FindThisInv ==
    ASSUME QInv, NEW p \in Procs, FindThis(p)
    PROVE  QInv'
<1>1. job[p].at = "find" /\ Ends(p) /\ UNCHANGED <<ideRest, info>>
    BY DEF FindThis, Got
<1>2. PICK out : job' = [job EXCEPT ![p].at = "found", ![p].out = out]
    BY DEF FindThis
<1>3. PICK j : j = [job[p] EXCEPT !.at = "found", !.out = out]
    OBVIOUS
<1>4. job' = [job EXCEPT ![p] = j]
    BY <1>2, <1>3, StateFields
<1>5. Same(job[p], j) /\ j.dp = job[p].dp /\ j.cl = job[p].cl
    BY <1>1, <1>3, AtWork, Fields DEF Same
<1>6. j.dp \in Nat /\ j.cl \in Nat
    BY <1>1, <1>5, AtWork
<1> QED
    BY <1>1, <1>4, <1>5, <1>6, AnswerInv

LEMMA FindPartInv ==
    ASSUME QInv, NEW p \in Procs, FindPart(p)
    PROVE  QInv'
<1>1. Got(p, "find") /\ UNCHANGED <<ideRest, info>>
    BY DEF FindPart
<1>2. job[p].at = "find"
    BY <1>1 DEF Got
<1>3. PICK tail, id : FindOn(p, [job[p] EXCEPT !.tail = tail, !.id = id])
    BY DEF FindPart
<1>4. PICK j : j = [job[p] EXCEPT !.tail = tail, !.id = id]
    OBVIOUS
<1>5. Same(job[p], j) /\ j.dp = job[p].dp /\ j.cl = job[p].cl
    BY <1>2, <1>4, AtWork, Fields DEF Same
<1>6. FindOn(p, j)
    BY <1>3, <1>4
<1> QED
    BY <1>1, <1>5, <1>6, FindOnInv

LEMMA FindNextInv ==
    ASSUME QInv, NEW p \in Procs, FindFree(p) \/ FindOther(p)
    PROVE  QInv'
<1>1. Got(p, "find") /\ UNCHANGED <<ideRest, info>> /\ FindOn(p, job[p])
    BY DEF FindFree, FindOther
<1>2. job[p].at = "find"
    BY <1>1 DEF Got
<1>3. PICK j : j = job[p]
    OBVIOUS
<1>4. Same(job[p], j) /\ j.dp = job[p].dp /\ j.cl = job[p].cl /\ FindOn(p, j)
    BY <1>1, <1>2, <1>3, AtWork DEF Same
<1> QED
    BY <1>1, <1>4, FindOnInv
-----------------------------------------------------------------------------
(* The handle of the device, and the answer                                *)

LEMMA ElementOf ==
    ASSUME NEW T, NEW s \in Seq(T), NEW k \in 1 .. Len(s)
    PROVE  s[k] \in T
    OBVIOUS

LEMMA PartitionIs ==
    ASSUME NEW v \in DOMAIN Volumes
    PROVE  /\ Volumes[v].part \in 1 .. Len(Parts[Volumes[v].disk])
           /\ Parts[Volumes[v].disk][Volumes[v].part] \in [lba : Nat, length : Nat]
<1>1. PICK d \in Disks : d = Volumes[v].disk
    BY VolumesAre
<1>2. PICK k : k = Volumes[v].part
    OBVIOUS
<1>3. PICK T : T = [lba : Nat, length : Nat]
    OBVIOUS
<1>4. PICK s \in Seq(T) : s = Parts[d]
    BY <1>3, IdeConstants
<1>5. k \in 1 .. Len(s)
    BY <1>1, <1>2, <1>4, FatConstants
<1>6. s[k] \in T
    BY <1>5, ElementOf
<1> QED
    BY <1>1, <1>2, <1>3, <1>4, <1>5, <1>6

(* A part of a partition lies on the disk.                                 *)
LEMMA PartFits ==
    ASSUME NEW v \in DOMAIN Volumes, NEW at \in Int, NEW n \in Nat,
           Fits(Volumes[v].disk, Volumes[v].part, at, n)
    PROVE  /\ Lba(Volumes[v].disk, Volumes[v].part, at) \in Int
           /\ Lba(Volumes[v].disk, Volumes[v].part, at) + n =< Size[Volumes[v].disk]
<1>1. PICK d \in Disks : d = Volumes[v].disk
    BY VolumesAre
<1>2. PICK k : k = Volumes[v].part
    OBVIOUS
<1>3. k \in 1 .. Len(Parts[d]) /\ Parts[d][k] \in [lba : Nat, length : Nat]
    BY <1>1, <1>2, PartitionIs
<1>4. PICK l \in Nat, length \in Nat, size \in Nat : l = Parts[d][k].lba /\ length = Parts[d][k].length /\ size = Size[d]
    BY <1>3, DisksAre
<1>5. l + length =< size
    BY <1>3, <1>4, IdeConstants
<1>6. k # 0
    BY <1>3
<1>7. at + n =< length
    BY <1>1, <1>2, <1>4, <1>6 DEF Fits
<1>8. Lba(d, k, at) = l + at
    BY <1>4, <1>6 DEF Lba
<1>9. l + at \in Int /\ l + at + n =< size
    BY <1>5, <1>7
<1> QED
    BY <1>1, <1>2, <1>4, <1>8, <1>9

LEMMA AskInv ==
    ASSUME QInv, NEW p \in Procs, Ask(p)
    PROVE  QInv'
<1>1. io[p].pc = "ask" /\ job[p].op # "idle" /\ UNCHANGED <<disk, regs, stream, asks, fatVars>>
    BY DEF Ask, QInv, OnVolume
<1>2. PICK v \in DOMAIN Volumes, i \in Slots : v = job[p].vol /\ i = job[p].i
    BY <1>1 DEF QInv, JobRight
<1>3. PICK at \in Int : at = pos[i]
    BY StateFields
<1>4. PICK length \in Nat : length = Parts[Volumes[v].disk][Volumes[v].part].length
    BY PartitionIs
<1>5. PICK m \in Nat : m = io[p].n /\ m > 0
    BY <1>1 DEF QInv, IoRight
<1>6. PICK d \in Disks : d = Volumes[v].disk /\ d = io[p].disk
    BY <1>1, <1>2, VolumesAre DEF QInv, OnVolume
<1>7. PICK n : n = Min({m, length - at})
    OBVIOUS
<1>8. PICK r : r = IF at >= length \/ ~ Fits(d, Volumes[v].part, at, n)
                   THEN Request(FALSE, d, 0, 0, "done")
                   ELSE Request(FALSE, d, Lba(d, Volumes[v].part, at), n, "setup")
    OBVIOUS
<1>9. io' = [io EXCEPT ![p] = r]
    BY <1>2, <1>3, <1>4, <1>5, <1>6, <1>7, <1>8 DEF Ask, Becomes
<1>10. IoRight(r)' /\ r.disk = d /\ r.pc # "ask"
  <2>1. CASE at >= length \/ ~ Fits(d, Volumes[v].part, at, n)
    <3>1. r = Request(FALSE, d, 0, 0, "done")
        BY <1>8, <2>1
    <3>2. IoRight(r)'
        BY <3>1, RequestRight
    <3> QED
        BY <3>1, <3>2 DEF Request, NoIo
  <2>2. CASE ~ (at >= length \/ ~ Fits(d, Volumes[v].part, at, n))
    <3>1. length - at \in Int /\ length - at > 0
        BY <2>2
    <3>2. n \in Nat /\ n > 0
        BY <1>5, <1>7, <3>1, MinIsInt
    <3>3. PICK l \in Int : l = Lba(d, Volumes[v].part, at) /\ l + n =< Size[d]
        BY <1>6, <2>2, <3>2, PartFits
    <3>4. r = Request(FALSE, d, l, n, "setup")
        BY <1>8, <2>2, <3>3
    <3>5. IoRight(Request(FALSE, d, l, n, "setup"))'
        BY <3>2, <3>3, RequestRight
    <3> QED
        BY <3>4, <3>5 DEF Request, NoIo
  <2> QED
      BY <2>1, <2>2
<1>11. StateTypeOK'
    BY <1>1, <1>9 DEF QInv, StateTypeOK, InfoTypeOK, fatVars
<1>12. io[p].pc # "idle" /\ r.disk = io[p].disk /\ r.pc # "ask"
    BY <1>1, <1>6, <1>10
<1>13. UNCHANGED fatVars
    BY <1>1
<1>14. /\ \A c \in Channels : stream'[c] = stream[c] /\ asks'[c] = asks[c]
       /\ \A e \in Disks : disk'[e] = disk[e]
    BY <1>1
<1> QED
    BY <1>9, <1>10, <1>11, <1>12, <1>13, <1>14, TransferInv

LEMMA RawInv ==
    ASSUME QInv, NEW p \in Procs, NEW d \in Disks, Channel(d) = 0, Alone(p, d),
           NEW l \in 0 .. Size[d] - 1, NEW w \in BOOLEAN, Raw(p, w, d, l)
    PROVE  QInv'
<1>1. PICK r : r = Request(w, d, Lba(d, 0, l), 1, "setup")
    OBVIOUS
<1>2. io' = [io EXCEPT ![p] = r] /\ Idle(p) /\ UNCHANGED <<ideRest, fatVars>>
    BY <1>1 DEF Raw, Becomes
<1>3. IoRight(r)' /\ r.disk = d /\ r.pc = "setup"
  <2>1. PICK n \in Nat, a \in Int : n = 1 /\ n > 0 /\ a = l /\ a \in Nat /\ a + n =< Size[d]
      BY DisksAre
  <2>2. r = Request(w, d, a, n, "setup")
      BY <1>1, <2>1 DEF Lba
  <2>3. IoRight(Request(w, d, a, n, "setup"))'
      BY <2>1, RequestRight
  <2> QED
      BY <2>2, <2>3, IsRequest
<1>4. StateTypeOK'
    BY <1>2 DEF QInv, StateTypeOK, InfoTypeOK, fatVars, ideRest
<1>5. PICK j : j = job[p]
    OBVIOUS
<1>6. job' = [job EXCEPT ![p] = j] /\ j.op = "idle" /\ j.vol = None
    BY <1>2, <1>5, StateFields DEF fatVars, Idle, QInv, JobRight
<1>7. Exclusive'
  <2>1. d = IF j.vol = None THEN r.disk ELSE Volumes[j.vol].disk
      BY <1>3, <1>6
  <2> QED
      BY <1>2, <1>6, <2>1, StartsExclusive
<1>8. JobRight(j)'
  <2>1. JobRight(j)
      BY <1>5 DEF QInv
  <2> QED
      BY <1>6, <2>1 DEF JobRight
<1>9. /\ r.pc = "ask" => j.op # "idle"
      /\ j.op # "idle" /\ r.pc # "idle" => r.disk = Volumes[j.vol].disk
    BY <1>3, <1>6
<1>10. \A q \in Procs : q # p /\ job[q].op # "idle" => info'[job[q].i] = info[job[q].i]
    BY <1>2 DEF fatVars
<1>11. \A q \in Procs : q # p /\ io[q].pc # "idle" =>
           /\ stream'[Channel(io[q].disk)] = stream[Channel(io[q].disk)]
           /\ asks'[Channel(io[q].disk)] = asks[Channel(io[q].disk)]
           /\ disk'[io[q].disk] = disk[io[q].disk]
    BY <1>2 DEF ideRest
<1> QED
    BY <1>2, <1>3, <1>4, <1>6, <1>7, <1>8, <1>9, <1>10, <1>11, StepInv

LEMMA AnsweredInv ==
    ASSUME QInv, NEW p \in Procs, Answered(p)
    PROVE  QInv'
<1>1. /\ io' = [io EXCEPT ![p] = NoIo] /\ job' = [job EXCEPT ![p] = NoJob]
      /\ UNCHANGED <<ideRest, info, pos>>
    BY DEF Answered, Becomes, Moved
<1>2. ~ Idle(p)
  <2>1. CASE job[p].at \in {"ready", "listed", "found"}
      BY <2>1, AtWork DEF Idle
  <2>2. CASE io[p].pc \in {"put_done", "done"}
      BY <2>2 DEF Idle
  <2> QED
      BY <2>1, <2>2 DEF Answered
<1>3. InfoTypeOK'
    BY <1>1, StateFields DEF InfoTypeOK
<1>4. StateTypeOK'
    BY <1>1, <1>3, StateFields, DriverStateOK
<1>5. Exclusive'
    BY <1>1, <1>2, NoJobRight, IsRequest, StaysExclusive
<1>6. JobRight(NoJob)' /\ IoRight(NoIo)' /\ NoJob.op = "idle" /\ NoIo.pc = "idle"
    BY NoJobRight, RequestRight, IsRequest
<1>7. /\ NoIo.pc = "ask" => NoJob.op # "idle"
      /\ NoJob.op # "idle" /\ NoIo.pc # "idle" => NoIo.disk = Volumes[NoJob.vol].disk
    BY <1>6
<1>8. \A q \in Procs : q # p /\ job[q].op # "idle" => info'[job[q].i] = info[job[q].i]
    BY <1>1
<1>9. \A q \in Procs : q # p /\ io[q].pc # "idle" =>
           /\ stream'[Channel(io[q].disk)] = stream[Channel(io[q].disk)]
           /\ asks'[Channel(io[q].disk)] = asks[Channel(io[q].disk)]
           /\ disk'[io[q].disk] = disk[io[q].disk]
    BY <1>1 DEF ideRest
<1>10. PICK j, r : j = NoJob /\ r = NoIo
    OBVIOUS
<1> QED
    BY <1>1, <1>4, <1>5, <1>6, <1>7, <1>8, <1>9, <1>10, StepInv

(* Nothing that the invariant is about changes.                            *)
LEMMA SameInv ==
    ASSUME QInv, UNCHANGED <<ideVars, info, pos, job>>
    PROVE  QInv'
<1>1. StateTypeOK'
    BY DEF QInv, StateTypeOK, InfoTypeOK, ideVars
<1>2. Exclusive'
    BY DEF QInv, Exclusive, Idle, DiskOf, ideVars
<1>3. ASSUME NEW p \in Procs PROVE JobRight(job[p])' /\ IoRight(io[p])' /\ OnVolume(p)'
  <2>1. PICK x, y : x = job[p] /\ y = io[p]
      OBVIOUS
  <2>2. JobRight(x) /\ IoRight(y) /\ OnVolume(p)
      BY <2>1 DEF QInv
  <2>3. JobRight(x)'
      BY <2>2, JobKept
  <2>4. IoRight(y)'
      BY <2>2, IoKept DEF ideVars
  <2>5. OnVolume(p)'
      BY <2>2 DEF OnVolume, ideVars
  <2>6. job'[p] = x /\ io'[p] = y
      BY <2>1 DEF ideVars
  <2> QED
      BY <2>3, <2>4, <2>5, <2>6
<1> QED
    BY <1>1, <1>2, <1>3 DEF QInv
-----------------------------------------------------------------------------
(* The invariant                                                           *)

LEMMA QInit == Init => QInv
<1> SUFFICES ASSUME Init PROVE QInv
    OBVIOUS
<1>1. /\ disk = [d \in Disks |-> [l \in 0 .. Size[d] - 1 |-> 0]]
      /\ regs = [c \in Channels |-> NoAddress]
      /\ stream = [c \in Channels |-> <<>>]
      /\ asks = [c \in Channels |-> <<>>]
      /\ io = [p \in Procs |-> NoIo]
      /\ info = [i \in Slots |-> None]
      /\ pos = [i \in Slots |-> 0]
      /\ job = [p \in Procs |-> NoJob]
    BY DEF Init, IdeInit
<1>2. StateTypeOK
  <2>1. \A d \in Disks : disk[d] \in [0 .. Size[d] - 1 -> Data]
      BY <1>1 DEF Data
  <2>2. InfoTypeOK
      BY <1>1 DEF InfoTypeOK
  <2> QED
      BY <1>1, <2>1, <2>2 DEF StateTypeOK
<1>3. ASSUME NEW p \in Procs PROVE JobRight(job[p]) /\ IoRight(io[p]) /\ OnVolume(p)
  <2>1. JobRight(NoJob)
      BY DEF JobRight, NoJob
  <2>2. IoRight(NoIo)
      BY DEF IoRight, NoIo
  <2>3. OnVolume(p)
      BY <1>1 DEF OnVolume, NoJob, NoIo
  <2> QED
      BY <1>1, <2>1, <2>2, <2>3
<1>4. Exclusive
    BY <1>1 DEF Exclusive, Idle, NoJob, NoIo
<1> QED
    BY <1>2, <1>3, <1>4 DEF QInv

LEMMA FatStepsInv ==
    ASSUME QInv, NEW p \in Procs, FatSteps(p)
    PROVE  QInv'
<1>1. CASE MountBoot(p)
    BY <1>1, MountBootInv
<1>2. CASE MountFat(p)
    BY <1>2, MountFatInv
<1>3. CASE ReadFirst(p)
    BY <1>3, ReadFirstInv
<1>4. CASE ReadRest(p)
    BY <1>4, ReadRestInv
<1>5. CASE ListEnd(p)
    BY <1>5, ListEndInv
<1>6. CASE ListSkip(p)
    BY <1>6, ListSkipInv
<1>7. CASE ListFile(p)
    BY <1>7, ListFileInv
<1>8. CASE FindEnd(p)
    BY <1>8, FindEndInv
<1>9. CASE FindPart(p)
    BY <1>9, FindPartInv
<1>10. CASE FindFree(p) \/ FindOther(p)
    BY <1>10, FindNextInv
<1>11. CASE FindThis(p)
    BY <1>11, FindThisInv
<1>12. CASE Answered(p)
    BY <1>12, AnsweredInv
<1> QED
    BY <1>1, <1>2, <1>3, <1>4, <1>5, <1>6, <1>7, <1>8, <1>9, <1>10, <1>11, <1>12 DEF FatSteps

LEMMA QNext == QInv /\ [QuietNext]_vars => QInv'
<1> SUFFICES ASSUME QInv, [QuietNext]_vars PROVE QInv'
    OBVIOUS
<1>1. ASSUME NEW p \in Procs, NEW v \in DOMAIN Volumes, Quiet, Alone(p, Volumes[v].disk), Mount(p, v)
      PROVE  QInv'
    BY <1>1, MountInv
<1>2. ASSUME NEW p \in Procs, NEW i \in Slots, Known(i), Quiet, Alone(p, B(i).disk),
             Reads(p, i) \/ QuietLists(p, i) \/ Finds(p, i)
      PROVE  QInv'
  <2>1. PICK v \in DOMAIN Volumes : v = info[i].vol
      BY <1>2, KnownInfo
  <2>2. CASE Reads(p, i)
    <3>1. PICK a \in ReadArgs[v] : Read(p, i, a[1], a[2], a[3])
        BY <2>1, <2>2 DEF Reads
    <3>2. PICK c \in Nat, off \in Nat : c = a[1] /\ off = a[2]
        BY ReadArg
    <3>3. PICK len : Read(p, i, c, off, len)
        BY <3>1, <3>2
    <3> QED
        BY <1>2, <3>3, ReadInv
  <2>3. CASE QuietLists(p, i)
    <3>1. PICK a \in ListArgs[v] : List(p, i, a[1], a[2])
        BY <2>1, <2>3 DEF QuietLists
    <3>2. PICK dir \in Nat, dp \in Nat : List(p, i, dir, dp)
        BY <3>1, ListArg
    <3> QED
        BY <1>2, <3>2, ListInv
  <2>4. CASE Finds(p, i)
    <3>1. PICK a \in FindArgs[v] : Find(p, i, a[1], a[2])
        BY <2>1, <2>4 DEF Finds
    <3>2. PICK dir \in Nat : dir = a[1]
        BY FindArg
    <3>3. PICK name : Find(p, i, dir, name)
        BY <3>1, <3>2
    <3> QED
        BY <1>2, <3>3, FindInv
  <2> QED
      BY <1>2, <2>2, <2>3, <2>4
<1>3. ASSUME NEW p \in Procs, NEW d \in Disks, Channel(d) = 0, Alone(p, d),
             NEW l \in 0 .. Size[d] - 1, NEW w \in BOOLEAN, Raw(p, w, d, l)
      PROVE  QInv'
    BY <1>3, RawInv
<1>4. ASSUME NEW p \in Procs, FatSteps(p) PROVE QInv'
    BY <1>4, FatStepsInv
<1>5. ASSUME NEW p \in Procs, Ask(p) PROVE QInv'
    BY <1>5, AskInv
<1>6. ASSUME NEW p \in Procs, QuietMoves(p), UNCHANGED fatVars PROVE QInv'
    BY <1>6, CommandInv, TakeInv, PutInv DEF QuietMoves
<1>7. ASSUME Closes PROVE QInv'
  <2>1. UNCHANGED <<ideVars, info, pos, job>>
      BY <1>7 DEF Closes, Close
  <2> QED
      BY <2>1, SameInv
<1>8. ASSUME UNCHANGED vars PROVE QInv'
  <2>1. UNCHANGED <<ideVars, info, pos, job>>
      BY <1>8 DEF vars, fatVars
  <2> QED
      BY <2>1, SameInv
<1> QED
    BY <1>1, <1>2, <1>3, <1>4, <1>5, <1>6, <1>7, <1>8 DEF QuietNext

(* Whatever a process has read so far of a file, a directory, a table or a *)
(* disk without volumes is what the disk holds at the sectors it asked for,*)
(* and what hdd_write() has written is on the disk, while processes on the *)
(* other channel go on: with one process at a time in fs_fat.c and on a    *)
(* channel, as drv_ide.c has no lock that keeps them apart.                *)
THEOREM TransfersAreRight == QuietSpec => []TransfersRight
<1>1. QInv => TransfersRight
    BY DEF QInv, IoRight, GotRight, TransfersRight
<1> QED
    BY <1>1, QInit, QNext, PTL DEF QuietSpec
-----------------------------------------------------------------------------
(* What a read and the mounting of a volume are in the middle of           *)

(* The clusters of a file, the last one followed by the end of the chain.  *)
Nth(v, c, k) == IF k < Len(Chain(v, c)) THEN Chain(v, c)[k + 1] ELSE Eoc

(* Where sector y of cluster k of a file is in it.                         *)
Place(v, k, y) == k * Volumes[v].spc + y

(* What sector s of a volume holds, and the sectors of a file from one on. *)
Content(v, s) == <<Volumes[v].disk, Lba(Volumes[v].disk, Volumes[v].part, s), 0>>
DataOf(v, c, off, n) == [j \in 1 .. n |-> Content(v, ChainSectors(v, c)[off + j])]

PartLength(v) == Parts[Volumes[v].disk][Volumes[v].part].length
Wanted(j) == IF j.op = "read" THEN Volumes[j.vol].spc ELSE IF j.at = "fat" THEN Chunk(Volumes[j.vol]) ELSE 1

(* The transfer is of what is wanted, from where the handle is.            *)
AskRight(j, r) ==
    /\ r.pc \in {"idle", "ask", "setup", "take", "done"} /\ ~ r.write
    /\ r.pc = "ask" => r.n = Wanted(j)
    /\ r.pc \in {"setup", "take", "done"} /\ pos[j.i] \in 0 .. PartLength(j.vol) - 1 =>
          /\ r.lba = Lba(Volumes[j.vol].disk, Volumes[j.vol].part, pos[j.i])
          /\ r.n = Min({Wanted(j), PartLength(j.vol) - pos[j.i]})
          /\ r.pc = "done" => Len(r.got) = r.n

(* What is kept of a table is what it says.                                *)
TableKept(i) ==
    LET v == info[i].vol
    IN  /\ info[i].data = FirstData(Volumes[v])
        /\ Len(info[i].fat) =< Cached(Volumes[v])
        /\ \A k \in 1 .. Len(info[i].fat) : info[i].fat[k] = Table[v][k]

(* As much of it is kept as has been read.                                 *)
MountRight(j) ==
    /\ j.i = count /\ j.at \in {"boot", "fat"}
    /\ j.at = "boot" => j.dp = 0
    /\ j.at = "fat" =>
          /\ TableKept(j.i) /\ j.dp =< Cached(Volumes[j.vol]) /\ Len(info[j.i].fat) = j.dp
          /\ \E t \in 0 .. j.dp :
                /\ j.dp = t * (Chunk(Volumes[j.vol]) * Values)
                /\ pos[j.i] = Volumes[j.vol].resv + t * Chunk(Volumes[j.vol])

Asked(v, c, off, len) == \E e \in All(v) : e.t = "file" /\ ~ e.dir /\ e.cl = c /\ off + len =< e.size

(* The cluster that is being read is the next of the file, and what has    *)
(* been read so far is what comes before it.                               *)
More(j) == ((j.off % Volumes[j.vol].spc) + j.len) \div Volumes[j.vol].spc
RestRight(j) ==
    LET spc == Volumes[j.vol].spc
        begun == More(j) - j.left + 1
    IN  /\ j.left \in 1 .. More(j)
        /\ j.cl = Nth(j.vol, j.dir, j.off \div spc + begun)
        /\ j.out = DataOf(j.vol, j.dir, j.off, Place(j.vol, begun, 0) - (j.off % spc))
ReadingRight(j) ==
    LET spc == Volumes[j.vol].spc
    IN  /\ Known(j.i) /\ j.off \in Nat /\ j.len \in Nat /\ Asked(j.vol, j.dir, j.off, j.len)
        /\ j.at \in {"first", "rest", "ready"}
        /\ j.at = "first" =>
              /\ j.cl = Nth(j.vol, j.dir, j.off \div spc) /\ pos[j.i] = SectorOf(j.i, j.cl)
              /\ j.left = More(j)
        /\ j.at = "rest" => RestRight(j) /\ pos[j.i] = SectorOf(j.i, j.cl)
        /\ j.at = "ready" => j.out = DataOf(j.vol, j.dir, j.off, j.len)

DriverRight(j, r) ==
    \/ j.op = "idle"
    \/ j.op = "mount" /\ AskRight(j, r) /\ MountRight(j)
    \/ j.op = "read" /\ AskRight(j, r) /\ ReadingRight(j)
    \/ j.op \in {"list", "find"} /\ j.at \in {"list", "listed", "find", "found"}

(* Of the volumes that are mounted all of it is.                           *)
InfoRight(i) ==
    info[i] # None => TableKept(i) /\ (i < count => Len(info[i].fat) = Cached(B(i)))

(* Disks with partitions are not written to.                               *)
Unwritten == \A d \in Disks : Parts[d] # <<>> => \A l \in 0 .. Size[d] - 1 : disk[d][l] = 0
WritesElsewhere(r) == r.pc = "put" \/ (r.pc = "setup" /\ r.write) => Parts[r.disk] = <<>>

(* The inductive invariant of reads, beside QInv.                          *)
RInv ==
    /\ Unwritten
    /\ count \in Nat
    /\ \A i \in Slots : InfoRight(i)
    /\ \A p \in Procs : DriverRight(job[p], io[p]) /\ WritesElsewhere(io[p])
-----------------------------------------------------------------------------
(* Numbers                                                                 *)

LEMMA DivMod ==
    ASSUME NEW a \in Nat, NEW b \in Nat, b > 0
    PROVE  \E q, r \in Nat : a \div b = q /\ a % b = r /\ r < b /\ a = q * b + r
<1>1. a % b \in Nat /\ a % b < b
    OBVIOUS
<1>2. a \div b \in Int
    OBVIOUS
<1>3. PICK q \in Int : q = a \div b
    BY <1>2
<1>4. PICK r \in Nat : r = a % b
    BY <1>1
<1>5. r < b
    BY <1>1, <1>4
<1>6. a = b * q + r
    BY <1>3, <1>4, Z3
<1>7. b * q = q * b
    BY Z3
<1>8. PICK m \in Int : m = q * b
    OBVIOUS
<1>9. a = m + r
    BY <1>6, <1>7, <1>8
<1>10. ~ q < 0
  <2> SUFFICES ASSUME q < 0 PROVE FALSE
      OBVIOUS
  <2>1. q * b + b =< 0
    <3>1. PICK z \in Nat : q = 0 - 1 - z
        BY 0 - 1 - q \in Nat
    <3>2. z * b \in Nat
        BY Z3
    <3>3. q * b = 0 - b - z * b
        BY <3>1, Z3
    <3> QED
        BY <3>2, <3>3
  <2> QED
      BY <1>5, <1>8, <1>9, <2>1
<1>11. q \in Nat
    BY <1>10
<1> QED
    BY <1>3, <1>4, <1>5, <1>8, <1>9, <1>11

LEMMA Between ==
    ASSUME NEW b \in Nat, NEW x \in Int, NEW y \in Int, x < y
    PROVE  x * b + b =< y * b
<1>1. PICK z \in Nat : y = x + 1 + z
    BY y - x - 1 \in Nat
<1>2. z * b \in Nat
    BY Z3
<1>3. y * b = x * b + b + z * b
    BY <1>1, Z3
<1> QED
    BY <1>2, <1>3

LEMMA DivIs ==
    ASSUME NEW a \in Nat, NEW b \in Nat, b > 0, NEW q \in Int, NEW r \in Nat, r < b, a = q * b + r
    PROVE  a \div b = q /\ a % b = r
<1>1. PICK x \in Nat, y \in Nat : a \div b = x /\ a % b = y /\ y < b /\ a = x * b + y
    BY DivMod
<1>2. ~ x < q
  <2> SUFFICES ASSUME x < q PROVE FALSE
      OBVIOUS
  <2>1. x * b + b =< q * b
      BY Between
  <2>2. PICK m \in Int, n \in Int : m = x * b /\ n = q * b
      OBVIOUS
  <2> QED
      BY <1>1, <2>1, <2>2
<1>3. ~ q < x
  <2> SUFFICES ASSUME q < x PROVE FALSE
      OBVIOUS
  <2>1. q * b + b =< x * b
      BY Between
  <2>2. PICK m \in Int, n \in Int : m = x * b /\ n = q * b
      OBVIOUS
  <2> QED
      BY <1>1, <2>1, <2>2
<1>4. x = q
    BY <1>2, <1>3
<1>5. PICK n \in Int : n = q * b
    OBVIOUS
<1> QED
    BY <1>1, <1>4, <1>5

(* A quotient is as large as any number whose multiple fits.               *)
LEMMA DivAtLeast ==
    ASSUME NEW a \in Nat, NEW b \in Nat, b > 0, NEW q \in Nat, q * b =< a
    PROVE  q =< a \div b
<1>1. PICK x \in Nat, y \in Nat : a \div b = x /\ a % b = y /\ y < b /\ a = x * b + y
    BY DivMod
<1>2. SUFFICES ASSUME x < q PROVE FALSE
    BY <1>1
<1>3. x * b + b =< q * b
    BY <1>2, Between
<1>4. PICK m \in Int, n \in Int : m = x * b /\ n = q * b
    OBVIOUS
<1> QED
    BY <1>1, <1>3, <1>4

(* ... and no larger.                                                      *)
LEMMA DivAtMost ==
    ASSUME NEW a \in Nat, NEW b \in Nat, b > 0, NEW q \in Nat, a =< q * b
    PROVE  a \div b =< q
<1>1. PICK x \in Nat, y \in Nat : a \div b = x /\ a % b = y /\ y < b /\ a = x * b + y
    BY DivMod
<1>2. SUFFICES ASSUME q < x PROVE FALSE
    BY <1>1
<1>3. q * b + b =< x * b
    BY <1>2, Between
<1>4. PICK m \in Int, n \in Int : m = x * b /\ n = q * b
    OBVIOUS
<1> QED
    BY <1>1, <1>3, <1>4
-----------------------------------------------------------------------------
(* Chains                                                                  *)

(* The cluster after x, as the table on the disk has it.                   *)
Onward(v, x) == IF x = Eoc THEN Eoc ELSE Table[v][x + 1]
Follows(v, c, n, f) == f = [k \in 1 .. n |-> IF k = 1 THEN c ELSE IF f[k - 1] = Eoc THEN Eoc ELSE Table[v][f[k - 1] + 1]]

LEMMA FollowsExists ==
    ASSUME NEW v, NEW c, NEW n \in Nat
    PROVE  \E f : Follows(v, c, n, f)
<1> DEFINE S == {m \in Nat : ~ \E f : Follows(v, c, m, f)}
<1> SUFFICES ASSUME S # {} PROVE FALSE
    OBVIOUS
<1>1. PICK m \in S : \A y \in S : m =< y
    BY LeastExists
<1>2. m \in Nat /\ ~ \E f : Follows(v, c, m, f)
    BY <1>1
<1>3. CASE m = 0
  <2>1. PICK f : f = [k \in 1 .. 0 |-> c]
      OBVIOUS
  <2>2. f = [k \in 1 .. 0 |-> IF k = 1 THEN c ELSE IF f[k - 1] = Eoc THEN Eoc ELSE Table[v][f[k - 1] + 1]]
      BY <2>1
  <2> QED
      BY <1>2, <1>3, <2>2 DEF Follows
<1>4. CASE m # 0
  <2>1. m - 1 \in Nat /\ m - 1 < m
      BY <1>2, <1>4
  <2>2. m - 1 \notin S
      BY <1>1, <1>2, <2>1
  <2>3. \E f : Follows(v, c, m - 1, f)
      BY <2>1, <2>2
  <2>4. PICK f : Follows(v, c, m - 1, f)
      BY <2>3
  <2>5. f = [k \in 1 .. m - 1 |-> IF k = 1 THEN c ELSE IF f[k - 1] = Eoc THEN Eoc ELSE Table[v][f[k - 1] + 1]]
      BY <2>4 DEF Follows
  <2>6. PICK g : g = [k \in 1 .. m |-> IF k < m THEN f[k] ELSE IF k = 1 THEN c ELSE
                                          IF f[m - 1] = Eoc THEN Eoc ELSE Table[v][f[m - 1] + 1]]
      OBVIOUS
  <2>7. ASSUME NEW k \in 1 .. m
        PROVE  g[k] = IF k = 1 THEN c ELSE IF g[k - 1] = Eoc THEN Eoc ELSE Table[v][g[k - 1] + 1]
    <3>1. CASE k = m
      <4>1. g[m] = IF m = 1 THEN c ELSE IF f[m - 1] = Eoc THEN Eoc ELSE Table[v][f[m - 1] + 1]
          BY <1>2, <2>6, <2>7, <3>1
      <4>2. m # 1 => m - 1 \in 1 .. m /\ m - 1 < m
          BY <1>2, <1>4
      <4>3. m # 1 => g[m - 1] = f[m - 1]
          BY <2>6, <4>2
      <4> QED
          BY <3>1, <4>1, <4>3
    <3>2. CASE k # m
      <4>1. k \in 1 .. m - 1 /\ k < m
          BY <1>2, <2>7, <3>2
      <4>2. g[k] = f[k]
          BY <2>6, <2>7, <4>1
      <4>3. f[k] = IF k = 1 THEN c ELSE IF f[k - 1] = Eoc THEN Eoc ELSE Table[v][f[k - 1] + 1]
          BY <2>5, <4>1
      <4>4. k # 1 => k - 1 \in 1 .. m /\ k - 1 < m
          BY <1>2, <2>7, <3>2
      <4>5. k # 1 => g[k - 1] = f[k - 1]
          BY <2>6, <4>4
      <4> QED
          BY <4>2, <4>3, <4>5
    <3> QED
        BY <3>1, <3>2
  <2>8. g = [k \in 1 .. m |-> g[k]]
      BY <2>6
  <2>9. g = [k \in 1 .. m |-> IF k = 1 THEN c ELSE IF g[k - 1] = Eoc THEN Eoc ELSE Table[v][g[k - 1] + 1]]
      BY <2>7, <2>8
  <2> QED
      BY <1>2, <2>9 DEF Follows
<1> QED
    BY <1>3, <1>4

LEMMA LeastOf ==
    ASSUME NEW S \in SUBSET Nat, S # {}
    PROVE  Min(S) \in S /\ \A y \in S : Min(S) =< y
<1>1. \E x \in S : \A y \in S : x =< y
    BY LeastExists
<1> QED
    BY <1>1 DEF Min

(* What a chain is: it starts with c, each of its clusters is followed by  *)
(* the next, and the last by the mark for the end.                         *)
LEMMA ChainIs ==
    ASSUME NEW v, NEW c, Table[v] \in Seq(Nat)
    PROVE  LET s == Chain(v, c)
           IN  /\ Len(s) \in 0 .. Len(Table[v]) /\ DOMAIN s = 1 .. Len(s)
               /\ \A k \in 1 .. Len(s) : s[k] # Eoc
               /\ Len(s) > 0 => s[1] = c
               /\ \A k \in 1 .. Len(s) - 1 : s[k + 1] = Table[v][s[k] + 1]
               /\ 0 < Len(s) /\ Len(s) < Len(Table[v]) => Table[v][s[Len(s)] + 1] = Eoc
               /\ Len(s) = 0 /\ Len(s) < Len(Table[v]) => c = Eoc
<1>1. PICK n \in Nat : n = Len(Table[v])
    OBVIOUS
<1>2. \E g : g = [k \in 1 .. Len(Table[v]) |-> IF k = 1 THEN c ELSE IF g[k - 1] = Eoc THEN Eoc ELSE Table[v][g[k - 1] + 1]]
  <2>1. PICK g : Follows(v, c, n, g)
      BY FollowsExists
  <2>2. g = [k \in 1 .. n |-> IF k = 1 THEN c ELSE IF g[k - 1] = Eoc THEN Eoc ELSE Table[v][g[k - 1] + 1]]
      BY <2>1 DEF Follows
  <2> QED
      BY <1>1, <2>2
<1> DEFINE f[k \in 1 .. Len(Table[v])] == IF k = 1 THEN c ELSE IF f[k - 1] = Eoc THEN Eoc ELSE Table[v][f[k - 1] + 1]
           ends == {k \in 1 .. Len(Table[v]) : f[k] = Eoc} \cup {Len(Table[v]) + 1}
<1>3. Chain(v, c) = [k \in 1 .. Min(ends) - 1 |-> f[k]]
    BY DEF Chain, f
<1>4. f = [k \in 1 .. Len(Table[v]) |-> IF k = 1 THEN c ELSE IF f[k - 1] = Eoc THEN Eoc ELSE Table[v][f[k - 1] + 1]]
    BY <1>2
<1> HIDE DEF f
<1>5. ends \in SUBSET Nat /\ n + 1 \in ends
    BY <1>1
<1>6. PICK m \in Nat : m = Min(ends) /\ m \in ends /\ \A y \in ends : m =< y
    BY <1>5, LeastOf
<1>7. m \in 1 .. n + 1
    BY <1>1, <1>6
<1>8. PICK s : s = Chain(v, c)
    OBVIOUS
<1>9. PICK l \in 0 .. n : l = m - 1
    BY <1>7
<1>10. s = [k \in 1 .. l |-> f[k]] /\ Len(s) = l
    BY <1>3, <1>6, <1>8, <1>9
<1>11. \A k \in 1 .. n : f[k] = IF k = 1 THEN c ELSE IF f[k - 1] = Eoc THEN Eoc ELSE Table[v][f[k - 1] + 1]
    BY <1>1, <1>4
<1>12. \A k \in 1 .. l : f[k] # Eoc /\ s[k] = f[k]
  <2> SUFFICES ASSUME NEW k \in 1 .. l PROVE f[k] # Eoc /\ s[k] = f[k]
      OBVIOUS
  <2>1. k \notin ends
      BY <1>6, <1>9
  <2> QED
      BY <1>1, <1>9, <1>10, <2>1
<1>13. l < n => f[l + 1] = Eoc
    BY <1>1, <1>6, <1>9
<1> HIDE DEF ends
<1>14. l > 0 => s[1] = c
  <2> SUFFICES ASSUME l > 0 PROVE s[1] = c
      OBVIOUS
  <2>1. 1 \in 1 .. l /\ 1 \in 1 .. n
      BY <1>9
  <2> QED
      BY <1>11, <1>12, <2>1
<1>15. ASSUME NEW k \in 1 .. l, k < n PROVE f[k + 1] = Table[v][s[k] + 1]
  <2>1. k + 1 \in 1 .. n /\ k + 1 # 1 /\ k + 1 - 1 = k
      BY <1>15
  <2>2. f[k + 1] = IF f[k] = Eoc THEN Eoc ELSE Table[v][f[k] + 1]
      BY <1>11, <2>1
  <2> QED
      BY <1>12, <2>2
<1>16. \A k \in 1 .. l - 1 : s[k + 1] = Table[v][s[k] + 1]
  <2> SUFFICES ASSUME NEW k \in 1 .. l - 1 PROVE s[k + 1] = Table[v][s[k] + 1]
      OBVIOUS
  <2>1. k \in 1 .. l /\ k + 1 \in 1 .. l /\ k < n
      BY <1>9
  <2> QED
      BY <1>12, <1>15, <2>1
<1>17. 0 < l /\ l < n => Table[v][s[l] + 1] = Eoc
  <2> SUFFICES ASSUME 0 < l, l < n PROVE Table[v][s[l] + 1] = Eoc
      OBVIOUS
  <2>1. l \in 1 .. l
      OBVIOUS
  <2> QED
      BY <1>13, <1>15, <2>1
<1>18. l = 0 /\ l < n => c = Eoc
  <2> SUFFICES ASSUME l = 0, 0 < n PROVE c = Eoc
      OBVIOUS
  <2>1. 1 \in 1 .. n
      OBVIOUS
  <2>2. f[1] = c
      BY <1>11, <2>1
  <2> QED
      BY <1>13, <2>2
<1>19. DOMAIN s = 1 .. l
    BY <1>10
<1> QED
    BY <1>1, <1>8, <1>10, <1>12, <1>14, <1>16, <1>17, <1>18, <1>19

LEMMA EntriesAre ==
    ASSUME NEW v \in DOMAIN Volumes, NEW e \in All(v)
    PROVE  e.cl \in Nat /\ e.size \in Nat
<1>1. PICK s \in DOMAIN Entries[v], k \in 1 .. PerSector : e = Entries[v][s][k]
    BY DEF All
<1> QED
    BY <1>1, FatConstants

(* A file of a sound volume has the clusters it needs.                     *)
LEMMA SoundChain ==
    ASSUME NEW v \in DOMAIN Volumes, NEW c, ChainSound(v, c)
    PROVE  LET s == Chain(v, c)
           IN  /\ Len(s) \in Nat /\ Len(s) < Len(Table[v]) /\ DOMAIN s = 1 .. Len(s)
               /\ \A k \in 1 .. Len(s) : s[k] \in 2 .. Count(Volumes[v]) + 1 /\ s[k] \in Nat /\ s[k] # Eoc
               /\ \A k \in 1 .. Len(s) - 1 : s[k] < Cached(Volumes[v]) /\ s[k + 1] = Table[v][s[k] + 1]
               /\ Len(s) > 0 => s[1] = c /\ Table[v][s[Len(s)] + 1] = Eoc
               /\ Len(s) = 0 => c = Eoc
<1>1. Table[v] \in Seq(Nat)
    BY FatConstants
<1>2. PICK s : s = Chain(v, c)
    OBVIOUS
<1>3. PICK n \in Nat : n = Len(Table[v])
    BY <1>1
<1>4. /\ Len(s) \in 0 .. n /\ DOMAIN s = 1 .. Len(s)
      /\ \A k \in 1 .. Len(s) : s[k] # Eoc
      /\ Len(s) > 0 => s[1] = c
      /\ \A k \in 1 .. Len(s) - 1 : s[k + 1] = Table[v][s[k] + 1]
      /\ 0 < Len(s) /\ Len(s) < n => Table[v][s[Len(s)] + 1] = Eoc
      /\ Len(s) = 0 /\ Len(s) < n => c = Eoc
    BY <1>1, <1>2, <1>3, ChainIs
<1>5. /\ Len(s) < n
      /\ \A k \in 1 .. Len(s) : s[k] \in 2 .. Count(Volumes[v]) + 1
      /\ \A k \in 1 .. Len(s) - 1 : s[k] < Cached(Volumes[v])
    BY <1>2, <1>3 DEF ChainSound
<1>6. Count(Volumes[v]) \in Int
    BY VolumeNumbers
<1>7. \A k \in 1 .. Len(s) : s[k] \in Nat
    BY <1>5, <1>6
<1>8. Len(s) \in Nat
  <2>1. Len(s) \in 0 .. n
      BY <1>4
  <2> QED
      BY <2>1
<1> QED
    BY <1>2, <1>3, <1>4, <1>5, <1>7, <1>8

LEMMA FileSound ==
    ASSUME VolumesSound, NEW v \in DOMAIN Volumes, NEW e \in All(v), e.t = "file", ~ e.dir
    PROVE  ChainSound(v, e.cl) /\ e.size =< Len(Chain(v, e.cl)) * Volumes[v].spc
    BY DEF VolumesSound

LEMMA SoundFile ==
    ASSUME VolumesSound, NEW v \in DOMAIN Volumes, NEW e \in All(v), e.t = "file", ~ e.dir
    PROVE  LET s == Chain(v, e.cl)
           IN  /\ Len(s) \in Nat
               /\ e.size =< Len(s) * Volumes[v].spc
               /\ \A k \in 1 .. Len(s) : s[k] \in 2 .. Count(Volumes[v]) + 1 /\ s[k] \in Nat /\ s[k] # Eoc
<1>1. PICK c : c = e.cl /\ ChainSound(v, c) /\ e.size =< Len(Chain(v, c)) * Volumes[v].spc
    BY FileSound
<1> QED
    BY <1>1, SoundChain

(* What is known of a volume that is mounted.                              *)
LEMMA MountedIs ==
    ASSUME QInv, RInv, VolumesSound, NEW i \in Slots, Known(i)
    PROVE  \E v \in DOMAIN Volumes, t \in Seq(Nat) :
              /\ info[i] \in Info /\ info[i].vol = v /\ info[i].fat = t /\ info[i].data = FirstData(Volumes[v])
              /\ Len(t) = Cached(Volumes[v]) /\ Len(t) =< Len(Table[v])
              /\ \A k \in 1 .. Len(t) : t[k] = Table[v][k]
<1>1. info[i] \in Info /\ info[i] # None /\ i < count
    BY StateFields DEF InfoTypeOK, Known
<1>2. PICK v \in DOMAIN Volumes, t \in Seq(Nat) : info[i].vol = v /\ info[i].fat = t
    BY <1>1 DEF Info
<1>3. InfoRight(i)
    BY DEF RInv
<1>4. /\ info[i].data = FirstData(Volumes[v])
      /\ Len(t) = Cached(Volumes[v])
      /\ \A k \in 1 .. Len(t) : t[k] = Table[v][k]
    BY <1>1, <1>2, <1>3 DEF InfoRight, TableKept, B
<1>5. Cached(Volumes[v]) =< Len(Table[v])
    BY DEF VolumesSound
<1> QED
    BY <1>1, <1>2, <1>4, <1>5

(* The value that ends a chain is no number of a cluster.                  *)
LEMMA EndIsNone ==
    ASSUME VolumesSound, NEW v \in DOMAIN Volumes
    PROVE  Cached(Volumes[v]) < Eoc
<1>1. PICK n \in Int, e \in Nat : n = Count(Volumes[v]) /\ e = Eoc /\ n + 1 < e
    BY VolumeNumbers, FatConstants DEF VolumesSound
<1>2. 2 * (n \div 2) =< n
    OBVIOUS
<1>3. Cached(Volumes[v]) = 2 * (n \div 2) \/ Cached(Volumes[v]) = n
    BY <1>1 DEF Cached
<1> QED
    BY <1>1, <1>2, <1>3

(* The kept table leads from each cluster of a chain to the next, and from *)
(* its end nowhere else.                                                   *)
LEMMA NextOf ==
    ASSUME QInv, RInv, VolumesSound, NEW i \in Slots, Known(i), NEW v \in DOMAIN Volumes, v = info[i].vol,
           NEW c, ChainSound(v, c), NEW k \in Nat
    PROVE  GetFatValue(i, Nth(v, c, k)) = Nth(v, c, k + 1)
<1>1. PICK t \in Seq(Nat) :
          /\ info[i].fat = t /\ Len(t) = Cached(Volumes[v]) /\ Len(t) =< Len(Table[v])
          /\ \A m \in 1 .. Len(t) : t[m] = Table[v][m]
  <2>1. PICK w \in DOMAIN Volumes, t \in Seq(Nat) :
            /\ info[i] \in Info /\ info[i].vol = w /\ info[i].fat = t /\ info[i].data = FirstData(Volumes[w])
            /\ Len(t) = Cached(Volumes[w]) /\ Len(t) =< Len(Table[w])
            /\ \A x \in 1 .. Len(t) : t[x] = Table[w][x]
      BY MountedIs
  <2> QED
      BY <2>1
<1>2. PICK s : s = Chain(v, c)
    OBVIOUS
<1>3. /\ Len(s) \in Nat
      /\ \A m \in 1 .. Len(s) : s[m] \in Nat
      /\ \A m \in 1 .. Len(s) - 1 : s[m] < Len(t) /\ s[m + 1] = Table[v][s[m] + 1]
      /\ Len(s) > 0 => Table[v][s[Len(s)] + 1] = Eoc
    BY <1>1, <1>2, SoundChain
<1>4. PICK l \in Nat : l = Len(s)
    BY <1>3
<1>5. CASE k < l
  <2>1. PICK x \in Nat : x = s[k + 1]
    <3>1. k + 1 \in 1 .. l
        BY <1>5
    <3> QED
        BY <1>3, <1>4, <3>1
  <2>2. Nth(v, c, k) = x
      BY <1>2, <1>4, <1>5, <2>1 DEF Nth
  <2>3. GetFatValue(i, x) = IF x < Len(t) THEN t[x + 1] ELSE Eoc
      BY <1>1 DEF GetFatValue
  <2>4. x < Len(t) => t[x + 1] = Table[v][x + 1]
      BY <1>1
  <2>5. CASE k + 1 < l
    <3>1. k + 1 \in 1 .. l - 1
        BY <2>5
    <3>2. x < Len(t) /\ s[k + 1 + 1] = Table[v][x + 1]
        BY <1>3, <1>4, <2>1, <3>1
    <3>3. Nth(v, c, k + 1) = s[k + 1 + 1]
        BY <1>2, <1>4, <2>5 DEF Nth
    <3> QED
        BY <2>2, <2>3, <2>4, <3>2, <3>3
  <2>6. CASE ~ (k + 1 < l)
    <3>1. k + 1 = l /\ l > 0
        BY <1>4, <1>5, <2>6
    <3>2. Table[v][x + 1] = Eoc
        BY <1>3, <1>4, <2>1, <3>1
    <3>3. Nth(v, c, k + 1) = Eoc
        BY <1>2, <1>4, <2>6 DEF Nth
    <3> QED
        BY <2>2, <2>3, <2>4, <3>2, <3>3
  <2> QED
      BY <2>5, <2>6
<1>6. CASE ~ k < l
  <2>1. ~ k + 1 < l
      BY <1>6
  <2>2. Nth(v, c, k) = Eoc /\ Nth(v, c, k + 1) = Eoc
      BY <1>2, <1>4, <1>6, <2>1 DEF Nth
  <2>3. ~ Eoc < Len(t)
    <3>1. PICK m \in Nat, e \in Nat : m = Len(t) /\ e = Eoc /\ m < e
        BY <1>1, EndIsNone, FatConstants
    <3> QED
        BY <3>1
  <2> QED
      BY <1>1, <2>2, <2>3 DEF GetFatValue
<1> QED
    BY <1>5, <1>6

(* Skip() comes to the cluster so many clusters behind the first.          *)
LEMMA SkipIsNth ==
    ASSUME QInv, RInv, VolumesSound, NEW i \in Slots, Known(i), NEW v \in DOMAIN Volumes, v = info[i].vol,
           NEW c \in Nat, ChainSound(v, c), NEW n \in Nat
    PROVE  Skip(i, c, n) = Nth(v, c, n)
<1>1. \E g : g = [k \in 0 .. n |-> IF k = 0 THEN c ELSE GetFatValue(i, g[k - 1])]
  <2>1. PICK g : Walk(i, c, n, g)
      BY WalkExists
  <2>2. g = [k \in 0 .. n |-> IF k = 0 THEN c ELSE GetFatValue(i, g[k - 1])]
      BY <2>1 DEF Walk
  <2> QED
      BY <2>2
<1> DEFINE f[k \in 0 .. n] == IF k = 0 THEN c ELSE GetFatValue(i, f[k - 1])
<1>2. Skip(i, c, n) = f[n]
    BY DEF Skip, f
<1>3. f = [k \in 0 .. n |-> IF k = 0 THEN c ELSE GetFatValue(i, f[k - 1])]
    BY <1>1
<1> HIDE DEF f
<1> DEFINE S == {m \in Nat : m =< n /\ f[m] # Nth(v, c, m)}
<1>4. SUFFICES ASSUME S # {} PROVE FALSE
  <2>1. n \notin S => f[n] = Nth(v, c, n)
      OBVIOUS
  <2> QED
      BY <1>2, <2>1
<1>5. PICK m \in S : \A y \in S : m =< y
    BY <1>4, LeastExists
<1>6. m \in 0 .. n /\ m \in Nat /\ f[m] # Nth(v, c, m)
    BY <1>5
<1>7. f[m] = IF m = 0 THEN c ELSE GetFatValue(i, f[m - 1])
    BY <1>3, <1>6
<1>8. Nth(v, c, 0) = c
  <2>1. PICK s : s = Chain(v, c)
      OBVIOUS
  <2>2. /\ Len(s) \in Nat
        /\ Len(s) > 0 => s[1] = c
        /\ Len(s) = 0 => c = Eoc
      BY <2>1, SoundChain
  <2>3. 0 < Len(s) \/ Len(s) = 0
      BY <2>2
  <2> QED
      BY <2>1, <2>2, <2>3 DEF Nth
<1>9. m # 0
    BY <1>6, <1>7, <1>8
<1>10. m - 1 \in Nat /\ m - 1 < m /\ m - 1 =< n /\ m - 1 + 1 = m
    BY <1>6, <1>9
<1>11. m - 1 \notin S
    BY <1>5, <1>6, <1>10
<1>12. f[m - 1] = Nth(v, c, m - 1)
    BY <1>10, <1>11
<1>13. PICK j \in Nat : j = m - 1
    BY <1>10
<1>14. GetFatValue(i, Nth(v, c, j)) = Nth(v, c, j + 1)
    BY NextOf
<1> QED
    BY <1>6, <1>7, <1>9, <1>10, <1>12, <1>13, <1>14
-----------------------------------------------------------------------------
(* What a step leaves as it was                                            *)

LEMMA SameDriver ==
    ASSUME NEW x, NEW y, UNCHANGED <<info, count, pos>>, DriverRight(x, y)
    PROVE  DriverRight(x, y)'
<1>1. AskRight(x, y) => AskRight(x, y)'
    BY DEF AskRight
<1>2. MountRight(x) => MountRight(x)'
    BY DEF MountRight, TableKept
<1>3. \A c : SectorOf(x.i, c)' = SectorOf(x.i, c)
    BY DEF SectorOf, B
<1>4. ReadingRight(x) => ReadingRight(x)'
    BY <1>3 DEF ReadingRight, Known
<1> QED
    BY <1>1, <1>2, <1>4 DEF DriverRight

LEMMA SameInfo ==
    ASSUME RInv, UNCHANGED <<info, count>>
    PROVE  count' \in Nat /\ \A i \in Slots : InfoRight(i)'
BY DEF RInv, InfoRight, TableKept, B

LEMMA SameUnwritten ==
    ASSUME RInv, UNCHANGED disk
    PROVE  Unwritten'
BY DEF RInv, Unwritten

LEMMA OthersIdle ==
    ASSUME QInv, NEW p \in Procs, job[p].op # "idle"
    PROVE  \A q \in Procs : q # p => job[q].op = "idle"
BY DEF QInv, Exclusive

LEMMA StepReads ==
    ASSUME QInv, RInv, NEW p \in Procs, NEW j, NEW r,
           job' = [job EXCEPT ![p] = j], io' = [io EXCEPT ![p] = r],
           (\A q \in Procs : q # p => job[q].op = "idle") \/ UNCHANGED <<info, count, pos>>,
           Unwritten', count' \in Nat, \A i \in Slots : InfoRight(i)', DriverRight(j, r)', WritesElsewhere(r)
    PROVE  RInv'
<1>1. job = [q \in Procs |-> job[q]] /\ io = [q \in Procs |-> io[q]]
    BY StateFields
<1>2. ASSUME NEW q \in Procs PROVE DriverRight(job[q], io[q])' /\ WritesElsewhere(io[q])'
  <2>1. CASE q = p
    <3>1. job'[q] = j /\ io'[q] = r
        BY <1>1, <2>1
    <3>2. WritesElsewhere(r)'
        BY DEF WritesElsewhere
    <3> QED
        BY <3>1, <3>2
  <2>2. CASE q # p
    <3>1. PICK x, y : x = job[q] /\ y = io[q]
        OBVIOUS
    <3>2. job'[q] = x /\ io'[q] = y
        BY <1>1, <2>2, <3>1
    <3>3. DriverRight(x, y) /\ WritesElsewhere(y)
        BY <3>1 DEF RInv
    <3>4. WritesElsewhere(y)'
        BY <3>3 DEF WritesElsewhere
    <3>5. DriverRight(x, y)'
      <4>1. CASE x.op = "idle"
          BY <4>1 DEF DriverRight
      <4>2. CASE UNCHANGED <<info, count, pos>>
          BY <3>3, <4>2, SameDriver
      <4> QED
          BY <2>2, <3>1, <4>1, <4>2
    <3> QED
        BY <3>2, <3>4, <3>5
  <2> QED
      BY <2>1, <2>2
<1> QED
    BY <1>2 DEF RInv

(* A step of a transfer.                                                   *)
LEMMA TransferReads ==
    ASSUME QInv, RInv, NEW p \in Procs, UNCHANGED fatVars, NEW r, io' = [io EXCEPT ![p] = r],
           Unwritten', DriverRight(job[p], r), WritesElsewhere(r)
    PROVE  RInv'
<1>1. PICK j : j = job[p]
    OBVIOUS
<1>2. job' = [job EXCEPT ![p] = j] /\ UNCHANGED <<info, count, pos>>
    BY <1>1, StateFields DEF fatVars
<1>3. DriverRight(j, r)'
    BY <1>1, <1>2, SameDriver
<1>4. count' \in Nat /\ \A i \in Slots : InfoRight(i)'
    BY <1>2, SameInfo
<1> QED
    BY <1>2, <1>3, <1>4, StepReads

LEMMA CommandReads ==
    ASSUME QInv, RInv, NEW p \in Procs, Command(p), UNCHANGED fatVars
    PROVE  RInv'
<1>1. PICK x : x = io[p]
    OBVIOUS
<1>2. /\ x = [pc |-> x.pc, write |-> x.write, disk |-> x.disk, lba |-> x.lba, n |-> x.n, got |-> x.got]
      /\ x.pc = "setup"
    BY <1>1 DEF QInv, IoRight, Command
<1>3. PICK y : y = [x EXCEPT !.pc = IF x.write THEN "put" ELSE "take"]
    OBVIOUS
<1>4. io' = [io EXCEPT ![p] = y] /\ UNCHANGED disk
    BY <1>1, <1>3 DEF Command, Starts
<1>5. /\ y.pc = (IF x.write THEN "put" ELSE "take") /\ y.write = x.write /\ y.disk = x.disk
      /\ y.lba = x.lba /\ y.n = x.n
    BY <1>2, <1>3
<1>6. DriverRight(job[p], x) /\ WritesElsewhere(x)
    BY <1>1 DEF RInv
<1>7. WritesElsewhere(y)
    BY <1>2, <1>5, <1>6 DEF WritesElsewhere
<1>8. AskRight(job[p], x) => AskRight(job[p], y)
    BY <1>2, <1>5 DEF AskRight
<1>9. DriverRight(job[p], y)
    BY <1>6, <1>8 DEF DriverRight
<1>10. Unwritten'
    BY <1>4, SameUnwritten
<1> QED
    BY <1>4, <1>7, <1>9, <1>10, TransferReads

LEMMA TakeReads ==
    ASSUME QInv, RInv, NEW p \in Procs, Take(p), UNCHANGED fatVars
    PROVE  RInv'
<1>1. PICK x : x = io[p]
    OBVIOUS
<1>2. IsIo(x) /\ x.pc = "take"
    BY <1>1 DEF QInv, IoRight, Take, IsIo
<1>3. PICK g : g = Append(x.got, IF stream[Channel(x.disk)] = <<>> THEN Junk ELSE Head(stream[Channel(x.disk)]))
    OBVIOUS
<1>4. PICK c : c = IF Len(g) = x.n THEN "done" ELSE "take"
    OBVIOUS
<1>5. PICK y : y = [x EXCEPT !.got = g, !.pc = c]
    OBVIOUS
<1>6. io' = [io EXCEPT ![p] = y] /\ UNCHANGED disk
  <2>1. io' = [io EXCEPT ![p].got = g, ![p].pc = c]
      BY <1>1, <1>3, <1>4 DEF Take
  <2>2. [io EXCEPT ![p].got = g, ![p].pc = c] = [io EXCEPT ![p] = [io[p] EXCEPT !.got = g, !.pc = c]]
      BY StateFields
  <2> QED
      BY <1>1, <1>5, <2>1, <2>2 DEF Take
<1>7. y = [pc |-> c, write |-> x.write, disk |-> x.disk, lba |-> x.lba, n |-> x.n, got |-> g]
    BY <1>2, <1>5, ReceiveLemma
<1>8. /\ y.pc = c /\ y.write = x.write /\ y.lba = x.lba /\ y.n = x.n /\ y.got = g
    BY <1>7
<1>9. DriverRight(job[p], x)
    BY <1>1 DEF RInv
<1>10. WritesElsewhere(y)
    BY <1>4, <1>8 DEF WritesElsewhere
<1>11. AskRight(job[p], x) => AskRight(job[p], y)
    BY <1>2, <1>4, <1>8 DEF AskRight
<1>12. DriverRight(job[p], y)
    BY <1>9, <1>11 DEF DriverRight
<1>13. Unwritten'
    BY <1>6, SameUnwritten
<1> QED
    BY <1>6, <1>10, <1>12, <1>13, TransferReads

LEMMA PutReads ==
    ASSUME QInv, RInv, NEW p \in Procs, Put(p), UNCHANGED fatVars
    PROVE  RInv'
<1>1. PICK x : x = io[p]
    OBVIOUS
<1>2. IsIo(x) /\ x.pc = "put" /\ asks[0] = <<<<x.disk, x.lba>>>> /\ x.disk \in Disks
    BY <1>1 DEF QInv, IoRight, Put, IsIo
<1>3. PICK m, l, c : m = x.n - 1 /\ l = x.lba + 1 /\ c = IF x.n = 1 THEN "put_done" ELSE "put"
    OBVIOUS
<1>4. PICK y : y = [x EXCEPT !.n = m, !.lba = l, !.pc = c]
    OBVIOUS
<1>5. io' = [io EXCEPT ![p] = y]
  <2>1. io' = [io EXCEPT ![p].n = @ - 1, ![p].lba = @ + 1, ![p].pc = c]
      BY <1>1, <1>3 DEF Put
  <2>2. io' = [io EXCEPT ![p] = [io[p] EXCEPT !.n = @ - 1, !.lba = @ + 1, !.pc = c]]
      BY <2>1, StateFields
  <2>3. [x EXCEPT !.n = @ - 1, !.lba = @ + 1, !.pc = c] = y
      BY <1>3, <1>4
  <2> QED
      BY <1>1, <2>2, <2>3
<1>6. y = [pc |-> c, write |-> x.write, disk |-> x.disk, lba |-> l, n |-> m, got |-> x.got]
    BY <1>2, <1>4, SendLemma
<1>7. y.pc = c /\ y.disk = x.disk
    BY <1>6
<1>8. DriverRight(job[p], x) /\ WritesElsewhere(x)
    BY <1>1 DEF RInv
<1>9. Parts[x.disk] = <<>>
    BY <1>2, <1>8 DEF WritesElsewhere
<1>10. WritesElsewhere(y)
    BY <1>7, <1>9 DEF WritesElsewhere
<1>11. DriverRight(job[p], y)
    BY <1>2, <1>8 DEF DriverRight, AskRight
<1>12. Unwritten'
  <2>1. PICK next : next = <<x.disk, x.lba>>
      OBVIOUS
  <2>2. disk' = disk \/ disk' = [disk EXCEPT ![next[1]][next[2]] = 1]
    <3>1. Head(asks[0]) = next /\ asks[0] # <<>>
        BY <1>2, <2>1
    <3> QED
        BY <3>1 DEF Put, Port
  <2>3. disk' = disk \/ disk' = [disk EXCEPT ![x.disk][x.lba] = 1]
      BY <2>1, <2>2
  <2>4. disk = [d \in Disks |-> disk[d]]
      BY DEF QInv, StateTypeOK
  <2>5. \A d \in Disks : Parts[d] # <<>> => disk'[d] = disk[d]
      BY <1>9, <2>3, <2>4
  <2> QED
      BY <2>5 DEF RInv, Unwritten
<1> QED
    BY <1>5, <1>10, <1>11, <1>12, TransferReads

LEMMA AskReads ==
    ASSUME QInv, RInv, NEW p \in Procs, Ask(p)
    PROVE  RInv'
<1>1. io[p].pc = "ask" /\ job[p].op # "idle" /\ UNCHANGED <<disk, fatVars>>
    BY DEF Ask, QInv, OnVolume
<1>2. PICK v \in DOMAIN Volumes, i \in Slots : v = job[p].vol /\ i = job[p].i
    BY <1>1 DEF QInv, JobRight
<1>3. PICK at \in Int : at = pos[i]
    BY StateFields
<1>4. PICK length \in Nat : length = PartLength(v)
    BY PartitionIs DEF PartLength
<1>5. PICK m \in Nat : m = io[p].n /\ m > 0
    BY <1>1 DEF QInv, IoRight
<1>6. PICK d \in Disks : d = Volumes[v].disk
    BY VolumesAre
<1>7. PICK a \in Int : a = length - at
    OBVIOUS
<1>8. m \in Int
    OBVIOUS
<1>9. PICK n \in Int : n = Min({m, a}) /\ n =< a
  <2>1. Min({m, a}) \in Int /\ Min({m, a}) =< a
      BY <1>8, MinIsInt
  <2> QED
      BY <2>1
<1>10. PICK k : k = Volumes[v].part
    OBVIOUS
<1>11. PICK l : l = Lba(d, k, at)
    OBVIOUS
<1>12. PICK r : r = IF at >= length \/ ~ Fits(d, k, at, n)
                    THEN Request(FALSE, d, 0, 0, "done")
                    ELSE Request(FALSE, d, l, n, "setup")
    OBVIOUS
<1>13. io' = [io EXCEPT ![p] = r]
    BY <1>2, <1>3, <1>4, <1>5, <1>6, <1>9, <1>10, <1>11, <1>12, <1>7 DEF Ask, Becomes, PartLength
<1>14. Fits(d, k, at, n)
  <2>1. k \in 1 .. Len(Parts[d]) /\ length = Parts[d][k].length
      BY <1>4, <1>6, <1>10, PartitionIs DEF PartLength
  <2>2. at + n =< length
      BY <1>9, <1>7
  <2>3. k =< Len(Parts[d])
      BY <2>1
  <2> QED
      BY <2>1, <2>2, <2>3 DEF Fits
<1>15. /\ at >= length => r.pc = "done" /\ ~ r.write
       /\ at < length => r.pc = "setup" /\ ~ r.write /\ r.lba = l /\ r.n = n
  <2>1. at >= length => r = Request(FALSE, d, 0, 0, "done")
      BY <1>12
  <2>2. at < length => r = Request(FALSE, d, l, n, "setup")
    <3>1. at < length => ~ (at >= length)
        OBVIOUS
    <3> QED
        BY <1>12, <1>14, <3>1, Zenon
  <2>3. /\ Request(FALSE, d, 0, 0, "done").pc = "done" /\ ~ Request(FALSE, d, 0, 0, "done").write
        /\ Request(FALSE, d, l, n, "setup").pc = "setup" /\ ~ Request(FALSE, d, l, n, "setup").write
        /\ Request(FALSE, d, l, n, "setup").lba = l /\ Request(FALSE, d, l, n, "setup").n = n
      BY RequestFields
  <2> QED
      BY <2>1, <2>2, <2>3
<1>16. WritesElsewhere(r)
    BY <1>15 DEF WritesElsewhere
<1>17. PICK j : j = job[p]
    OBVIOUS
<1>18. DriverRight(j, io[p])
    BY <1>17 DEF RInv
<1>19. AskRight(j, io[p]) => AskRight(j, r)
  <2> SUFFICES ASSUME AskRight(j, io[p]) PROVE AskRight(j, r)
      OBVIOUS
  <2>1. m = Wanted(j)
      BY <1>1, <1>5 DEF AskRight
  <2>2. j.i = i /\ j.vol = v
      BY <1>2, <1>17
  <2>3. CASE at >= length
    <3>1. ~ pos[j.i] \in 0 .. PartLength(j.vol) - 1
        BY <1>3, <1>4, <2>2, <2>3
    <3> QED
        BY <1>15, <2>3, <3>1 DEF AskRight
  <2>4. CASE at < length
      BY <1>3, <1>4, <1>6, <1>9, <1>10, <1>11, <1>15, <1>7, <2>1, <2>2, <2>4 DEF AskRight
  <2> QED
      BY <2>3, <2>4
<1>20. DriverRight(job[p], r)
    BY <1>17, <1>18, <1>19 DEF DriverRight
<1>21. Unwritten'
    BY <1>1, SameUnwritten
<1>22. UNCHANGED fatVars
    BY <1>1
<1> QED
    BY <1>13, <1>16, <1>20, <1>21, <1>22, TransferReads

LEMMA RawReads ==
    ASSUME QInv, RInv, NEW p \in Procs, NEW w, NEW d, NEW l, Raw(p, w, d, l)
    PROVE  RInv'
<1>1. PICK r : r = Request(w, d, Lba(d, 0, l), 1, "setup")
    OBVIOUS
<1>2. io' = [io EXCEPT ![p] = r] /\ job[p].op = "idle" /\ UNCHANGED <<disk, fatVars>> /\ Parts[d] = <<>>
    BY <1>1 DEF Raw, Becomes, ideRest, Idle
<1>3. r.disk = d
    BY <1>1, IsRequest
<1>4. WritesElsewhere(r)
    BY <1>2, <1>3 DEF WritesElsewhere
<1>5. DriverRight(job[p], r)
    BY <1>2 DEF DriverRight
<1>6. Unwritten' /\ UNCHANGED fatVars
    BY <1>2, SameUnwritten
<1> QED
    BY <1>2, <1>4, <1>5, <1>6, TransferReads

LEMMA SameReads ==
    ASSUME RInv, UNCHANGED <<ideVars, info, count, pos, job>>
    PROVE  RInv'
<1>1. ASSUME NEW q \in Procs PROVE DriverRight(job[q], io[q])' /\ WritesElsewhere(io[q])'
  <2>1. PICK x, y : x = job[q] /\ y = io[q]
      OBVIOUS
  <2>2. job'[q] = x /\ io'[q] = y
      BY <2>1 DEF ideVars
  <2>3. DriverRight(x, y) /\ WritesElsewhere(y)
      BY <2>1 DEF RInv
  <2>4. DriverRight(x, y)'
      BY <2>3, SameDriver
  <2>5. WritesElsewhere(y)'
      BY <2>3 DEF WritesElsewhere
  <2> QED
      BY <2>2, <2>4, <2>5
<1>2. Unwritten'
    BY SameUnwritten DEF ideVars
<1>3. count' \in Nat /\ \A i \in Slots : InfoRight(i)'
    BY SameInfo
<1> QED
    BY <1>1, <1>2, <1>3 DEF RInv

(* A step of the driver that is not part of a read or of mounting.         *)
LEMMA AsideReads ==
    ASSUME QInv, RInv, NEW p \in Procs, \A q \in Procs : q # p => job[q].op = "idle", NEW j, NEW r,
           job' = [job EXCEPT ![p] = j], io' = [io EXCEPT ![p] = r], UNCHANGED <<disk, info, count>>,
           j.op = "idle" \/ (j.op \in {"list", "find"} /\ j.at \in {"list", "listed", "find", "found"}),
           WritesElsewhere(r)
    PROVE  RInv'
<1>1. DriverRight(j, r)'
    BY DEF DriverRight
<1>2. Unwritten'
    BY SameUnwritten
<1>3. count' \in Nat /\ \A i \in Slots : InfoRight(i)'
    BY SameInfo
<1> QED
    BY <1>1, <1>2, <1>3, StepReads

LEMMA AnsweredReads ==
    ASSUME QInv, RInv, NEW p \in Procs, Answered(p)
    PROVE  RInv'
<1>1. PICK j, r : j = NoJob /\ r = NoIo
    OBVIOUS
<1>2. j.op = "idle" /\ r.pc = "idle"
    BY <1>1 DEF NoJob, NoIo
<1>3. io' = [io EXCEPT ![p] = r] /\ job' = [job EXCEPT ![p] = j] /\ UNCHANGED <<disk, info, count, pos>>
    BY <1>1 DEF Answered, Becomes, Moved, ideRest
<1>4. DriverRight(j, r)' /\ WritesElsewhere(r)
    BY <1>2 DEF DriverRight, WritesElsewhere
<1>5. Unwritten' /\ count' \in Nat /\ \A i \in Slots : InfoRight(i)'
    BY <1>3, SameUnwritten, SameInfo
<1> QED
    BY <1>3, <1>4, <1>5, StepReads

(* The sectors it has asked for are read.                                  *)
LEMMA NotWriting ==
    ASSUME RInv, NEW p \in Procs, NEW v, NEW n
    PROVE  /\ WritesElsewhere(NoIo) /\ WritesElsewhere(io[p])
           /\ WritesElsewhere(Request(FALSE, Volumes[v].disk, 0, n, "ask"))
<1>1. PICK r : r = Request(FALSE, Volumes[v].disk, 0, n, "ask")
    OBVIOUS
<1>2. NoIo.pc = "idle" /\ r.pc = "ask"
    BY <1>1 DEF NoIo, Request
<1> QED
    BY <1>1, <1>2 DEF WritesElsewhere, RInv

LEMMA ListFromReads ==
    ASSUME QInv, RInv, NEW p \in Procs, \A q \in Procs : q # p => job[q].op = "idle", NEW i, NEW dir, NEW dp, NEW j,
           j.op \in {"list", "find"}, DOMAIN j = DOMAIN NoJob, ListFrom(p, i, dir, dp, j), UNCHANGED <<ideRest, info, count>>
    PROVE  RInv'
<1>1. UNCHANGED <<disk, info, count>>
    BY DEF ideRest
<1>2. CASE DirSector(i, dir, dp) = None
  <2>1. PICK k : k = [j EXCEPT !.at = "listed", !.dp = dp, !.out = NoNode]
      OBVIOUS
  <2>2. k.op \in {"list", "find"} /\ k.at = "listed"
      BY <2>1, Fields
  <2>3. io' = [io EXCEPT ![p] = NoIo] /\ job' = [job EXCEPT ![p] = k]
      BY <1>2, <2>1 DEF ListFrom, Becomes, Moved
  <2> QED
      BY <1>1, <2>2, <2>3, NotWriting, AsideReads
<1>3. CASE DirSector(i, dir, dp) # None
  <2>1. PICK k : k = [j EXCEPT !.at = "list", !.dp = dp]
      OBVIOUS
  <2>2. k.op \in {"list", "find"} /\ k.at = "list"
      BY <2>1, Fields
  <2>3. PICK r : r = Request(FALSE, Volumes[info[i].vol].disk, 0, 1, "ask")
      OBVIOUS
  <2>4. io' = [io EXCEPT ![p] = r] /\ job' = [job EXCEPT ![p] = k]
      BY <1>3, <2>1, <2>3 DEF ListFrom, SeekRead, Asks, Becomes, Moved
  <2>5. WritesElsewhere(r)
      BY <2>3, NotWriting
  <2> QED
      BY <1>1, <2>2, <2>4, <2>5, AsideReads
<1> QED
    BY <1>2, <1>3

LEMMA ListingOp ==
    ASSUME QInv, RInv, NEW p \in Procs, job[p].at \in {"list", "find"}
    PROVE  /\ job[p].op \in {"list", "find"} /\ DOMAIN job[p] = DOMAIN NoJob
           /\ \A q \in Procs : q # p => job[q].op = "idle"
<1>1. job[p].op # "idle" /\ DOMAIN job[p] = DOMAIN NoJob
    BY AtWork
<1>2. DriverRight(job[p], io[p])
    BY DEF RInv
<1>3. job[p].op \in {"list", "find"}
    BY <1>1, <1>2 DEF DriverRight, MountRight, ReadingRight
<1> QED
    BY <1>1, <1>3, OthersIdle

LEMMA ListReads ==
    ASSUME QInv, RInv, NEW p \in Procs, Quiet, NEW i, NEW dir, NEW dp, List(p, i, dir, dp)
    PROVE  RInv'
<1>1. PICK j : j = [NoJob EXCEPT !.op = "list", !.vol = info[i].vol, !.i = i, !.dir = dir, !.off = dp]
    OBVIOUS
<1>2. j.op \in {"list", "find"} /\ DOMAIN j = DOMAIN NoJob
    BY <1>1 DEF NoJob
<1>3. ListFrom(p, i, dir, dp, j) /\ UNCHANGED <<ideRest, info, count>>
    BY <1>1 DEF List
<1>4. \A q \in Procs : q # p => job[q].op = "idle"
    BY DEF Quiet
<1> QED
    BY <1>2, <1>3, <1>4, ListFromReads

LEMMA ListSkipReads ==
    ASSUME QInv, RInv, NEW p \in Procs, ListSkip(p)
    PROVE  RInv'
<1>1. job[p].at \in {"list", "find"}
    BY DEF ListSkip, Got
<1>2. PICK j, dp : j = job[p] /\ dp = job[p].dp + 1
    OBVIOUS
<1>3. ListFrom(p, j.i, j.dir, dp, j) /\ UNCHANGED <<ideRest, info, count>>
    BY <1>2 DEF ListSkip
<1> QED
    BY <1>1, <1>2, <1>3, ListingOp, ListFromReads

(* The end of a listing or of a search.                                    *)
LEMMA EndsReads ==
    ASSUME QInv, RInv, NEW p \in Procs, job[p].at \in {"list", "find"}, NEW at \in {"listed", "found"},
           NEW j, j.op = job[p].op, j.at = at, job' = [job EXCEPT ![p] = j], Ends(p), UNCHANGED <<ideRest, info, count>>
    PROVE  RInv'
<1>1. io' = [io EXCEPT ![p] = NoIo] /\ UNCHANGED <<disk, info, count>>
    BY DEF Ends, Becomes, ideRest
<1>2. j.op \in {"list", "find"} /\ j.at \in {"list", "listed", "find", "found"}
    BY ListingOp
<1>3. \A q \in Procs : q # p => job[q].op = "idle"
    BY ListingOp
<1>4. WritesElsewhere(NoIo)
    BY NotWriting
<1>5. PICK r : r = NoIo
    OBVIOUS
<1> QED
    BY <1>1, <1>2, <1>3, <1>4, <1>5, AsideReads

LEMMA ListEndReads ==
    ASSUME QInv, RInv, NEW p \in Procs, ListEnd(p)
    PROVE  RInv'
<1>1. job[p].at = "list" /\ Ends(p) /\ UNCHANGED <<ideRest, info, count>>
    BY DEF ListEnd, Got
<1>2. PICK j : j = [job[p] EXCEPT !.at = "listed", !.out = NoNode]
    OBVIOUS
<1>3. job' = [job EXCEPT ![p] = j]
    BY <1>2, StateFields DEF ListEnd
<1>4. j.op = job[p].op /\ j.at = "listed"
    BY <1>1, <1>2, AtWork, Fields
<1> QED
    BY <1>1, <1>3, <1>4, EndsReads

LEMMA ListFileReads ==
    ASSUME QInv, RInv, NEW p \in Procs, ListFile(p)
    PROVE  RInv'
<1>1. job[p].at = "list" /\ Ends(p) /\ UNCHANGED <<ideRest, info, count>>
    BY DEF ListFile, Got
<1>2. PICK out : job' = [job EXCEPT ![p].at = "listed", ![p].dp = @ + 1, ![p].out = out]
    BY DEF ListFile
<1>3. PICK j : j = [job[p] EXCEPT !.at = "listed", !.dp = @ + 1, !.out = out]
    OBVIOUS
<1>4. job' = [job EXCEPT ![p] = j]
    BY <1>2, <1>3, StateFields
<1>5. j.op = job[p].op /\ j.at = "listed"
    BY <1>1, <1>3, AtWork, Fields
<1> QED
    BY <1>1, <1>4, <1>5, EndsReads

LEMMA FindReads ==
    ASSUME QInv, RInv, NEW p \in Procs, Quiet, NEW i, NEW dir, NEW name, Find(p, i, dir, name)
    PROVE  RInv'
<1>1. PICK j : j = [NoJob EXCEPT !.op = "find", !.at = "find", !.vol = info[i].vol, !.i = i, !.dir = dir, !.name = name,
                              !.cl = dir, !.id = -1]
    OBVIOUS
<1>2. j.op = "find" /\ j.at = "find"
    BY <1>1, Fields
<1>3. PICK r : r = Request(FALSE, Volumes[info[i].vol].disk, 0, 1, "ask")
    OBVIOUS
<1>4. job' = [job EXCEPT ![p] = j] /\ io' = [io EXCEPT ![p] = r] /\ UNCHANGED <<disk, info, count>>
    BY <1>1, <1>3 DEF Find, SeekRead, Asks, Becomes, Moved, ideRest
<1>5. WritesElsewhere(r)
    BY <1>3, NotWriting
<1>6. \A q \in Procs : q # p => job[q].op = "idle"
    BY DEF Quiet
<1> QED
    BY <1>2, <1>4, <1>5, <1>6, AsideReads

LEMMA FindOnReads ==
    ASSUME QInv, RInv, NEW p \in Procs, job[p].at = "find", NEW j, j.op = job[p].op, j.at = "find",
           DOMAIN j = DOMAIN NoJob, FindOn(p, j), UNCHANGED <<ideRest, info, count>>
    PROVE  RInv'
<1>1. PICK dp : dp = j.dp + 1
    OBVIOUS
<1>2. PICK next : next = GetFatValue(j.i, j.cl)
    OBVIOUS
<1>3. PICK k : k = [j EXCEPT !.dp = dp]
    OBVIOUS
<1>4. PICK m : m = [j EXCEPT !.dp = dp, !.cl = next]
    OBVIOUS
<1>5. k.op = j.op /\ k.at = "find" /\ m.op = j.op /\ m.at = "find"
    BY <1>3, <1>4, Fields
<1>6. PICK r1, r2 : /\ r1 = Request(FALSE, Volumes[job[p].vol].disk, 0, 1, "ask")
                    /\ r2 = Request(FALSE, Volumes[j.vol].disk, 0, 1, "ask")
    OBVIOUS
<1>7. \/ job' = [job EXCEPT ![p] = k] /\ UNCHANGED io
      \/ job' = [job EXCEPT ![p] = k] /\ io' = [io EXCEPT ![p] = r1]
      \/ job' = [job EXCEPT ![p] = m] /\ io' = [io EXCEPT ![p] = r2]
    BY <1>1, <1>2, <1>3, <1>4, <1>6 DEF FindOn, Moved, ReadOn, SeekRead, Asks, Becomes
<1>8. WritesElsewhere(r1) /\ WritesElsewhere(r2) /\ WritesElsewhere(io[p])
    BY <1>6, NotWriting
<1>9. \A q \in Procs : q # p => job[q].op = "idle"
    BY ListingOp
<1>10. UNCHANGED <<disk, info, count>>
    BY DEF ideRest
<1>11. j.op \in {"list", "find"}
    BY ListingOp
<1>12. UNCHANGED io => io' = [io EXCEPT ![p] = io[p]]
    BY StateFields
<1>13. PICK r3 : r3 = io[p]
    OBVIOUS
<1>14. CASE job' = [job EXCEPT ![p] = k] /\ UNCHANGED io
    BY <1>5, <1>8, <1>9, <1>10, <1>11, <1>12, <1>13, <1>14, AsideReads
<1>15. CASE job' = [job EXCEPT ![p] = k] /\ io' = [io EXCEPT ![p] = r1]
    BY <1>5, <1>8, <1>9, <1>10, <1>11, <1>15, AsideReads
<1>16. CASE job' = [job EXCEPT ![p] = m] /\ io' = [io EXCEPT ![p] = r2]
    BY <1>5, <1>8, <1>9, <1>10, <1>11, <1>16, AsideReads
<1> QED
    BY <1>7, <1>14, <1>15, <1>16

LEMMA FindEndReads ==
    ASSUME QInv, RInv, NEW p \in Procs, FindEnd(p)
    PROVE  RInv'
<1>1. job[p].at = "find" /\ Ends(p) /\ UNCHANGED <<ideRest, info, count>>
    BY DEF FindEnd, Got
<1>2. PICK j : j = [job[p] EXCEPT !.at = "found", !.out = NoNode]
    OBVIOUS
<1>3. job' = [job EXCEPT ![p] = j]
    BY <1>2, StateFields DEF FindEnd
<1>4. j.op = job[p].op /\ j.at = "found"
    BY <1>1, <1>2, AtWork, Fields
<1> QED
    BY <1>1, <1>3, <1>4, EndsReads

LEMMA FindThisReads ==
    ASSUME QInv, RInv, NEW p \in Procs, FindThis(p)
    PROVE  RInv'
<1>1. job[p].at = "find" /\ Ends(p) /\ UNCHANGED <<ideRest, info, count>>
    BY DEF FindThis, Got
<1>2. PICK out : job' = [job EXCEPT ![p].at = "found", ![p].out = out]
    BY DEF FindThis
<1>3. PICK j : j = [job[p] EXCEPT !.at = "found", !.out = out]
    OBVIOUS
<1>4. job' = [job EXCEPT ![p] = j]
    BY <1>2, <1>3, StateFields
<1>5. j.op = job[p].op /\ j.at = "found"
    BY <1>1, <1>3, AtWork, Fields
<1> QED
    BY <1>1, <1>4, <1>5, EndsReads

LEMMA FindPartReads ==
    ASSUME QInv, RInv, NEW p \in Procs, FindPart(p)
    PROVE  RInv'
<1>1. job[p].at = "find" /\ UNCHANGED <<ideRest, info, count>>
    BY DEF FindPart, Got
<1>2. PICK t, d : FindOn(p, [job[p] EXCEPT !.tail = t, !.id = d])
  <2>1. PICK t, d : /\ t = <<ListGot(p).name>> \o (IF ListGot(p).last THEN <<>> ELSE job[p].tail)
                    /\ d = IF ListGot(p).id = 1 THEN job[p].dp + 1 ELSE job[p].id
      OBVIOUS
  <2>2. FindOn(p, [job[p] EXCEPT !.tail = t, !.id = d])
      BY <2>1 DEF FindPart
  <2> QED
      BY <2>2
<1>3. PICK j : j = [job[p] EXCEPT !.tail = t, !.id = d]
    OBVIOUS
<1>4. j.op = job[p].op /\ j.at = "find" /\ DOMAIN j = DOMAIN NoJob
    BY <1>1, <1>3, AtWork, Fields
<1> QED
    BY <1>1, <1>2, <1>3, <1>4, FindOnReads

LEMMA FindNextReads ==
    ASSUME QInv, RInv, NEW p \in Procs, FindFree(p) \/ FindOther(p)
    PROVE  RInv'
<1>1. job[p].at = "find" /\ FindOn(p, job[p]) /\ UNCHANGED <<ideRest, info, count>>
    BY DEF FindFree, FindOther, Got
<1>2. PICK j : j = job[p]
    OBVIOUS
<1>3. DOMAIN j = DOMAIN NoJob
    BY <1>1, <1>2, AtWork
<1> QED
    BY <1>1, <1>2, <1>3, FindOnReads
-----------------------------------------------------------------------------
(* Where things are on a sound volume                                      *)

LEMMA TimesAtLeast ==
    ASSUME NEW a \in Nat, NEW n \in Nat, a > 0
    PROVE  n =< a * n
<1>1. PICK k \in Nat : a = k + 1
    BY a - 1 \in Nat
<1>2. k * n \in Nat
    BY Z3
<1>3. a * n = k * n + n
    BY <1>1, Z3
<1> QED
    BY <1>2, <1>3

LEMMA VolumeLayout ==
    ASSUME VolumesSound, NEW v \in DOMAIN Volumes
    PROVE  LET b == Volumes[v]
           IN  /\ b.resv + b.fatSz =< FirstData(b) /\ FirstData(b) =< PartLength(v) /\ PartLength(v) \in Nat
               /\ Count(b) \in Nat /\ Cached(b) \in Nat
               /\ \A c \in 2 .. Count(b) + 1 :
                      (c - 2) * b.spc \in Nat /\ FirstData(b) + (c - 2) * b.spc + b.spc =< PartLength(v)
<1>1. PICK b : b = Volumes[v]
    OBVIOUS
<1>2. PICK resv \in Nat, fats \in Nat, fatSz \in Nat, root \in Nat, total \in Nat, spc \in Nat :
          /\ b.resv = resv /\ b.fats = fats /\ b.fatSz = fatSz /\ b.rootSects = root /\ b.total = total /\ b.spc = spc
          /\ spc > 0
    BY <1>1, VolumesAre
<1>3. fats > 0 /\ FirstData(b) =< total
    BY <1>1, <1>2 DEF VolumesSound
<1>4. PICK t \in Nat : t = fats * fatSz /\ fatSz =< t
  <2>1. fats * fatSz \in Nat
      OBVIOUS
  <2> QED
      BY <1>3, <2>1, TimesAtLeast
<1>5. PICK first \in Nat : first = FirstData(b) /\ first = resv + t + root
    BY <1>2, <1>4 DEF FirstData
<1>6. PICK length \in Nat : length = PartLength(v) /\ total =< length
    BY <1>1, <1>2, PartitionIs, FatConstants DEF PartLength
<1>7. PICK room \in Nat : room = total - first
    BY <1>3, <1>5
<1>8. Count(b) = room \div spc
    BY <1>2, <1>4, <1>5, <1>7 DEF Count
<1>9. PICK n \in Nat, rest \in Nat : room \div spc = n /\ room % spc = rest /\ rest < spc /\ room = n * spc + rest
    BY <1>2, DivMod
<1>10. Cached(b) \in Nat
  <2>1. 2 * (n \div 2) \in Nat
      OBVIOUS
  <2> QED
      BY <1>8, <1>9, <2>1 DEF Cached
<1>11. ASSUME NEW c \in 2 .. n + 1 PROVE (c - 2) * spc \in Nat /\ first + (c - 2) * spc + spc =< length
  <2>1. PICK k \in Nat : k = c - 2 /\ k < n
      OBVIOUS
  <2>2. k * spc \in Nat
      BY Z3
  <2>3. k * spc + spc =< n * spc
      BY <2>1, Between
  <2>4. PICK x \in Nat, y \in Int : x = k * spc /\ y = n * spc
      BY <2>2
  <2>5. first + x + spc =< length
      BY <1>6, <1>7, <1>9, <2>3, <2>4
  <2> QED
      BY <2>1, <2>4, <2>5
<1>12. resv + fatSz =< first /\ first =< length
    BY <1>3, <1>4, <1>5, <1>6
<1> QED
    BY <1>1, <1>2, <1>5, <1>6, <1>8, <1>9, <1>10, <1>11, <1>12
-----------------------------------------------------------------------------
(* Mounting                                                                *)

LEMMA AskFields ==
    ASSUME NEW d, NEW n
    PROVE  LET r == Request(FALSE, d, 0, n, "ask") IN r.pc = "ask" /\ ~ r.write /\ r.n = n
BY DEF Request, NoIo

LEMMA MountReads ==
    ASSUME QInv, RInv, NEW p \in Procs, NEW v \in DOMAIN Volumes, Quiet, Mount(p, v)
    PROVE  RInv'
<1>1. PICK j : j = [NoJob EXCEPT !.op = "mount", !.at = "boot", !.vol = v, !.i = count]
    OBVIOUS
<1>2. j.op = "mount" /\ j.at = "boot" /\ j.vol = v /\ j.i = count /\ j.dp = 0
    BY <1>1, Fields DEF NoJob
<1>3. PICK r : r = Request(FALSE, Volumes[v].disk, 0, 1, "ask")
    OBVIOUS
<1>4. job' = [job EXCEPT ![p] = j] /\ io' = [io EXCEPT ![p] = r] /\ UNCHANGED <<disk, info, count>>
    BY <1>1, <1>3 DEF Mount, Moved, SeekRead, Asks, Becomes, ideRest
<1>5. r.pc = "ask" /\ ~ r.write /\ r.n = 1
    BY <1>3, AskFields
<1>6. WritesElsewhere(r)
    BY <1>5 DEF WritesElsewhere
<1>7. DriverRight(j, r)'
    BY <1>2, <1>4, <1>5 DEF DriverRight, AskRight, MountRight, Wanted
<1>8. \A q \in Procs : q # p => job[q].op = "idle"
    BY DEF Quiet
<1>9. Unwritten' /\ count' \in Nat /\ \A i \in Slots : InfoRight(i)'
    BY <1>4, SameUnwritten, SameInfo
<1> QED
    BY <1>4, <1>6, <1>7, <1>8, <1>9, StepReads

(* The op of a job that is at a stage of mounting.                         *)
LEMMA MountingOp ==
    ASSUME QInv, RInv, NEW p \in Procs, job[p].at \in {"boot", "fat"}
    PROVE  /\ job[p].op = "mount" /\ AskRight(job[p], io[p]) /\ MountRight(job[p])
           /\ \A q \in Procs : q # p => job[q].op = "idle"
<1>1. job[p].op # "idle"
    BY AtWork
<1>2. DriverRight(job[p], io[p])
    BY DEF RInv
<1>3. job[p].op = "mount" /\ AskRight(job[p], io[p]) /\ MountRight(job[p])
    BY <1>1, <1>2 DEF DriverRight, ReadingRight
<1> QED
    BY <1>1, <1>3, OthersIdle

LEMMA MountBootReads ==
    ASSUME QInv, RInv, VolumesSound, NEW p \in Procs, MountBoot(p)
    PROVE  RInv'
<1>1. job[p].at = "boot" /\ UNCHANGED <<disk, count>>
    BY DEF MountBoot, Got, ideRest
<1>2. PICK v \in DOMAIN Volumes, i \in Slots : v = job[p].vol /\ i = job[p].i
    BY <1>1, AtWork
<1>3. PICK e : e = [vol |-> v, root |-> RootOffset(Volumes[v]), data |-> FirstData(Volumes[v]), fat |-> <<>>]
    OBVIOUS
<1>4. e.vol = v /\ e.data = FirstData(Volumes[v]) /\ e.fat = <<>>
    BY <1>3
<1>5. info' = [info EXCEPT ![i] = e]
    BY <1>2, <1>3 DEF MountBoot
<1>6. PICK r : r = Request(FALSE, Volumes[v].disk, 0, Chunk(Volumes[v]), "ask")
    OBVIOUS
<1>7. pos' = [pos EXCEPT ![i] = Volumes[v].resv] /\ io' = [io EXCEPT ![p] = r]
    BY <1>2, <1>6 DEF MountBoot, SeekRead, Asks, Becomes
<1>8. PICK j : j = [job[p] EXCEPT !.at = "fat"]
    OBVIOUS
<1>9. job' = [job EXCEPT ![p] = j]
    BY <1>8, StateFields DEF MountBoot
<1>10. j.op = job[p].op /\ j.at = "fat" /\ j.vol = v /\ j.i = i /\ j.dp = job[p].dp
    BY <1>1, <1>2, <1>8, AtWork, Fields
<1>11. /\ job[p].op = "mount" /\ MountRight(job[p])
       /\ \A q \in Procs : q # p => job[q].op = "idle"
    BY <1>1, MountingOp
<1>12. i = count /\ j.dp = 0
    BY <1>1, <1>2, <1>10, <1>11 DEF MountRight
<1>13. r.pc = "ask" /\ ~ r.write /\ r.n = Chunk(Volumes[v])
    BY <1>6, AskFields
<1>14. info'[i] = e /\ pos'[i] = Volumes[v].resv
    BY <1>5, <1>7, StateFields
<1>15. Cached(Volumes[v]) \in Nat
    BY VolumeLayout
<1>16. TableKept(i)'
    BY <1>4, <1>14, <1>15 DEF TableKept
<1>17. MountRight(j)'
  <2>1. PICK m \in Nat, a \in Nat : m = Chunk(Volumes[v]) * Values /\ a = Volumes[v].resv
    <3>1. Chunk(Volumes[v]) * Values \in Nat
        BY VolumeNumbers, FatConstants
    <3> QED
        BY <3>1, VolumesAre
  <2>2. PICK n \in Nat : n = Chunk(Volumes[v])
      BY VolumeNumbers
  <2>3. 0 = 0 * m /\ a = a + 0 * n /\ 0 \in 0 .. 0
      OBVIOUS
  <2>4. \E t \in 0 .. 0 : 0 = t * m /\ a = a + t * n
      BY <2>3
  <2>5. \E t \in 0 .. j.dp :
            /\ j.dp = t * (Chunk(Volumes[j.vol]) * Values)
            /\ pos'[j.i] = Volumes[j.vol].resv + t * Chunk(Volumes[j.vol])
      BY <1>10, <1>12, <1>14, <2>1, <2>2, <2>4
  <2>6. j.dp =< Cached(Volumes[j.vol]) /\ Len(info'[j.i].fat) = j.dp
      BY <1>4, <1>10, <1>12, <1>14, <1>15
  <2>7. j.i = count'
      BY <1>1, <1>10, <1>12
  <2> QED
      BY <1>10, <1>12, <1>14, <1>16, <2>5, <2>6, <2>7 DEF MountRight
<1>18. AskRight(j, r)'
    BY <1>10, <1>11, <1>13 DEF AskRight, Wanted
<1>19. DriverRight(j, r)'
    BY <1>10, <1>11, <1>17, <1>18 DEF DriverRight
<1>20. ASSUME NEW k \in Slots PROVE InfoRight(k)'
  <2>1. CASE k = i
    <3>1. ~ i < count'
        BY <1>1, <1>12 DEF RInv
    <3> QED
        BY <1>16, <2>1, <3>1 DEF InfoRight
  <2>2. CASE k # i
    <3>1. info'[k] = info[k] /\ InfoRight(k)
        BY <1>5, <2>2, StateFields DEF RInv
    <3> QED
        BY <1>1, <3>1 DEF InfoRight, TableKept, B
  <2> QED
      BY <2>1, <2>2
<1>21. WritesElsewhere(r)
    BY <1>13 DEF WritesElsewhere
<1>22. Unwritten' /\ count' \in Nat
    BY <1>1, SameUnwritten DEF RInv
<1> QED
    BY <1>7, <1>9, <1>11, <1>19, <1>20, <1>21, <1>22, StepReads

(* What has been read is what is on the volume where the handle is.        *)
LEMMA HasRead ==
    ASSUME QInv, RInv, NEW p \in Procs, io[p].pc = "done", AskRight(job[p], io[p]), job[p].op # "idle",
           NEW v \in DOMAIN Volumes, v = job[p].vol, NEW at \in Nat, at = pos[job[p].i], at < PartLength(v)
    PROVE  /\ io[p].n = Min({Wanted(job[p]), PartLength(v) - at}) /\ Len(io[p].got) = io[p].n
           /\ \A k \in 1 .. io[p].n : at + k =< PartLength(v) => io[p].got[k] = Content(v, at + k - 1)
<1>1. PICK d \in Disks : d = Volumes[v].disk /\ io[p].disk = d
    BY VolumesAre DEF QInv, OnVolume
<1>2. PICK length \in Nat, l0 \in Nat :
          /\ length = PartLength(v) /\ l0 = Parts[d][Volumes[v].part].lba
          /\ Volumes[v].part \in 1 .. Len(Parts[d])
    BY <1>1, PartitionIs DEF PartLength
<1>3. pos[job[p].i] \in 0 .. PartLength(job[p].vol) - 1
    BY <1>2
<1>4. PICK x : x = io[p]
    OBVIOUS
<1>5. /\ x.lba = Lba(d, Volumes[v].part, at)
      /\ x.n = Min({Wanted(job[p]), PartLength(v) - at})
      /\ Len(x.got) = x.n
    BY <1>1, <1>3, <1>4 DEF AskRight
<1>6. x.n \in Nat /\ GotRight(x) /\ x.disk = d
    BY <1>1, <1>4 DEF QInv, IoRight
<1>7. x.lba = l0 + at
    BY <1>2, <1>5 DEF Lba
<1>8. Parts[d] # <<>>
    BY <1>2
<1>9. ASSUME NEW k \in 1 .. x.n, at + k =< length PROVE x.got[k] = Content(v, at + k - 1)
  <2>1. PICK s \in Nat : s = at + k - 1 /\ s + 1 =< length
      BY <1>6, <1>9
  <2>2. Lba(d, Volumes[v].part, s) = l0 + s
      BY <1>2 DEF Lba
  <2>3. PICK one \in Nat : one = 1
      OBVIOUS
  <2>4. Fits(d, Volumes[v].part, s, one)
    <3>1. Volumes[v].part =< Len(Parts[d]) /\ s + one =< Parts[d][Volumes[v].part].length
        BY <1>1, <1>2, <2>1, <2>3 DEF PartLength
    <3> QED
        BY <3>1 DEF Fits
  <2>5. Lba(d, Volumes[v].part, s) + one =< Size[d]
      BY <1>1, <2>4, PartFits
  <2>6. Size[d] \in Nat
      BY DisksAre
  <2>7. PICK l \in 0 .. Size[d] - 1 : l = l0 + s
      BY <2>2, <2>3, <2>5, <2>6
  <2>8. disk[d][l] = 0
      BY <1>8, <2>7 DEF RInv, Unwritten
  <2>9. x.got[k] = Holds(d, x.lba + k - 1)
      BY <1>5, <1>6, <1>9 DEF GotRight
  <2>10. x.lba + k - 1 = l
      BY <1>6, <1>7, <1>9, <2>1, <2>7
  <2>11. x.got[k] = <<d, l, 0>>
      BY <2>8, <2>9, <2>10 DEF Holds
  <2> QED
      BY <1>1, <2>1, <2>2, <2>7, <2>11 DEF Content
<1> QED
    BY <1>2, <1>4, <1>5, <1>9

LEMMA ContentIsHere ==
    ASSUME NEW v \in DOMAIN Volumes, NEW s \in Int
    PROVE  Here(v, Content(v, s)) /\ Rel(v, Content(v, s)) = s
<1>1. PICK d \in Disks : d = Volumes[v].disk
    BY VolumesAre
<1>2. PICK l \in Nat, k \in Int : l = Parts[d][k].lba /\ k = Volumes[v].part /\ k # 0
    BY <1>1, PartitionIs
<1>3. Lba(d, k, s) = l + s /\ Lba(d, k, 0) = l + 0
    BY <1>2 DEF Lba
<1>4. PICK x : x = Content(v, s)
    OBVIOUS
<1>5. x = <<d, l + s, 0>>
    BY <1>1, <1>2, <1>3, <1>4 DEF Content
<1>6. Len(x) = 3 /\ x[1] = d /\ x[2] = l + s
    BY <1>5
<1>7. l + s - (l + 0) = s
    OBVIOUS
<1> QED
    BY <1>1, <1>2, <1>3, <1>4, <1>6, <1>7 DEF Here, Rel

LEMMA ValueOf ==
    ASSUME NEW v \in DOMAIN Volumes, NEW r \in Nat, r < Volumes[v].fatSz, NEW k \in Nat,
           r * Values + k < Len(Table[v])
    PROVE  Value(v, Content(v, Volumes[v].resv + r), k) = Table[v][r * Values + k + 1]
<1>1. PICK resv \in Nat, size \in Nat : resv = Volumes[v].resv /\ size = Volumes[v].fatSz
    BY VolumesAre
<1>2. PICK s \in Int : s = resv + r
    OBVIOUS
<1>3. PICK x : x = Content(v, s)
    OBVIOUS
<1>4. Here(v, x) /\ Rel(v, x) = s
    BY <1>3, ContentIsHere
<1>5. Rel(v, x) - resv = r /\ r \in 0 .. size - 1
    BY <1>1, <1>2, <1>4
<1> QED
    BY <1>1, <1>2, <1>3, <1>4, <1>5 DEF Value

(* Of the numbers of sectors and values: value k of what follows dp values *)
(* is in the sector that it is looked for in.                              *)
LEMMA TablePlace ==
    ASSUME NEW w \in Nat, w > 0, NEW ch \in Nat, NEW t \in Nat, NEW dp \in Nat, dp = t * (ch * w),
           NEW size \in Nat, NEW k \in Nat, k > 0, k =< ch * w, dp + k =< size * w
    PROVE  \E q, b \in Nat :
              /\ (k - 1) \div w = q /\ (k - 1) % w = b
              /\ q < ch /\ t * ch + q < size /\ t * ch + q \in Nat
              /\ (t * ch + q) * w + b = dp + k - 1
<1>1. PICK a \in Nat : a = k - 1
    OBVIOUS
<1>2. PICK q \in Nat, b \in Nat : a \div w = q /\ a % w = b /\ b < w /\ a = q * w + b
    BY DivMod
<1>3. PICK y \in Nat : y = q * w
    BY Z3
<1>4. ~ ch =< q
  <2> SUFFICES ASSUME ch =< q PROVE FALSE
      OBVIOUS
  <2>1. PICK z \in Nat : z = ch * w
      BY Z3
  <2>2. z =< y
    <3>1. CASE ch = q
        BY <1>3, <2>1, <3>1
    <3>2. CASE ch < q
      <4>1. ch * w + w =< q * w
          BY <3>2, Between
      <4> QED
          BY <1>3, <2>1, <4>1
    <3> QED
        BY <3>1, <3>2
  <2> QED
      BY <1>1, <1>2, <1>3, <2>1, <2>2
<1>5. PICK r \in Nat : r = t * ch + q
  <2>1. t * ch \in Nat
      BY Z3
  <2> QED
      BY <2>1
<1>6. r * w = dp + y
  <2>1. (t * ch + q) * w = t * (ch * w) + q * w
      BY Z3
  <2> QED
      BY <1>3, <1>5, <2>1
<1>7. ~ size =< r
  <2> SUFFICES ASSUME size =< r PROVE FALSE
      OBVIOUS
  <2>1. PICK z \in Nat : z = size * w
      BY Z3
  <2>2. z =< dp + y
    <3>1. CASE size = r
        BY <1>6, <2>1, <3>1
    <3>2. CASE size < r
      <4>1. size * w + w =< r * w
          BY <3>2, Between
      <4> QED
          BY <1>6, <2>1, <4>1
    <3> QED
        BY <3>1, <3>2
  <2> QED
      BY <1>1, <1>2, <1>3, <2>1, <2>2
<1>8. q < ch /\ r < size
    BY <1>4, <1>7
<1>9. r * w + b = dp + k - 1
    BY <1>1, <1>2, <1>3, <1>6
<1> QED
    BY <1>1, <1>2, <1>5, <1>8, <1>9

(* Sector r of the table is where it is looked for.                        *)
SectorIn(got, v, q, s) == got[q + 1] = Content(v, s)

LEMMA SectorRead ==
    ASSUME QInv, RInv, VolumesSound, NEW p \in Procs, Got(p, "fat"), NEW v \in DOMAIN Volumes, v = job[p].vol,
           NEW at \in Nat, at = pos[job[p].i], NEW q \in Nat, q < Chunk(Volumes[v]),
           NEW r \in Nat, r < Volumes[v].fatSz, NEW s \in Nat, s = Volumes[v].resv + r, at + q = s
    PROVE  SectorIn(io[p].got, v, q, s)
<1>1. PICK resv \in Nat, size \in Nat : resv = Volumes[v].resv /\ size = Volumes[v].fatSz
    BY VolumesAre
<1>2. PICK length \in Nat, first \in Nat :
          length = PartLength(v) /\ first = FirstData(Volumes[v]) /\ resv + size =< first /\ first =< length
    BY <1>1, VolumeLayout, VolumeNumbers
<1>3. at + q = resv + r /\ r < size /\ s = resv + r
    BY <1>1
<1>4. at + q + 1 =< length /\ at < length
    BY <1>2, <1>3
<1>5. job[p].at = "fat" /\ io[p].pc = "done"
    BY DEF Got
<1>6. job[p].op = "mount" /\ AskRight(job[p], io[p])
    BY <1>5, MountingOp
<1>7. PICK ch \in Nat : ch = Chunk(Volumes[v]) /\ q < ch
    BY VolumeNumbers
<1>8. Wanted(job[p]) = ch
    BY <1>5, <1>6, <1>7 DEF Wanted
<1>9. /\ io[p].n = Min({ch, length - at})
      /\ \A j \in 1 .. io[p].n : at + j =< length => io[p].got[j] = Content(v, at + j - 1)
    BY <1>2, <1>4, <1>5, <1>6, <1>8, HasRead
<1>10. PICK rest \in Int : rest = length - at
    OBVIOUS
<1>11. PICK n \in Int : n = io[p].n /\ (n = ch \/ n = rest)
  <2>1. ch \in Int
      OBVIOUS
  <2> QED
      BY <1>9, <1>10, <2>1, MinIsInt
<1>12. PICK j \in Nat : j = q + 1
    OBVIOUS
<1>13. j \in 1 .. n /\ at + j =< length /\ at + j - 1 = resv + r
    BY <1>3, <1>4, <1>7, <1>10, <1>11, <1>12
<1>14. io[p].got[j] = Content(v, at + j - 1)
    BY <1>9, <1>11, <1>13
<1> QED
    BY <1>3, <1>12, <1>13, <1>14 DEF SectorIn

(* The values read at once.                                                *)
AtOnce(v) == Chunk(Volumes[v]) * Values
Placed(v, dp, at) == \E t \in 0 .. dp : dp = t * AtOnce(v) /\ at = Volumes[v].resv + t * Chunk(Volumes[v])
Within(k, q, b) == (k - 1) \div Values = q /\ (k - 1) % Values = b
IsNext(got, v, dp, k) == \E q, b \in Nat : Within(k, q, b) /\ Value(v, got[q + 1], b) = Table[v][dp + k]

(* They are the next of the table.                                         *)
LEMMA TableRead ==
    ASSUME QInv, RInv, VolumesSound, NEW p \in Procs, Got(p, "fat"), NEW v \in DOMAIN Volumes, v = job[p].vol,
           NEW dp \in Nat, NEW at \in Nat, at = pos[job[p].i], Placed(v, dp, at),
           NEW k \in Nat, k > 0, k =< AtOnce(v), dp + k =< Len(Table[v])
    PROVE  IsNext(io[p].got, v, dp, k)
<1>1. PICK resv \in Nat, size \in Nat : resv = Volumes[v].resv /\ size = Volumes[v].fatSz
    BY VolumesAre
<1>2. PICK w \in Nat, ch \in Nat : w = Values /\ ch = Chunk(Volumes[v]) /\ w > 0
  <2>1. Values \in Nat /\ Values > 0
      BY FatConstants
  <2>2. Chunk(Volumes[v]) \in Nat
      BY VolumeNumbers
  <2> QED
      BY <2>1, <2>2
<1>3. PICK t \in Nat : dp = t * (ch * w) /\ at = resv + t * ch
  <2>1. dp = dp /\ \A t \in 0 .. dp : t \in Nat
      OBVIOUS
  <2> QED
      BY <1>1, <1>2, <2>1 DEF Placed, AtOnce
<1>4. PICK len \in Nat : len = Len(Table[v])
  <2>1. Table[v] \in Seq(Nat)
      BY FatConstants
  <2> QED
      BY <2>1
<1>5. PICK all \in Nat : all = size * w
    BY Z3
<1>6. len =< all
    BY <1>1, <1>2, <1>4, <1>5 DEF VolumesSound
<1>7. dp + k =< all
    BY <1>4, <1>6
<1>8. k =< ch * w
    BY <1>2 DEF AtOnce
<1>9. PICK q \in Nat, b \in Nat :
          /\ (k - 1) \div w = q /\ (k - 1) % w = b
          /\ q < ch /\ t * ch + q < size /\ t * ch + q \in Nat
          /\ (t * ch + q) * w + b = dp + k - 1
  <2>1. dp = t * (ch * w)
      BY <1>3
  <2>2. dp + k =< size * w
      BY <1>5, <1>7
  <2>3. w > 0
      BY <1>2
  <2> QED
      BY <1>8, <2>1, <2>2, <2>3, TablePlace
<1>10. PICK s \in Nat : s = t * ch
    BY Z3
<1>11. PICK r \in Nat : r = s + q
    OBVIOUS
<1>12. r < size /\ at + q = resv + r
    BY <1>3, <1>9, <1>10, <1>11
<1>13. PICK y \in Nat : y = r * w
    BY Z3
<1>14. y + b = dp + k - 1
    BY <1>9, <1>10, <1>11, <1>13
<1>15. io[p].got[q + 1] = Content(v, resv + r)
  <2>1. PICK sector \in Nat : sector = resv + r
      OBVIOUS
  <2>2. q < Chunk(Volumes[v]) /\ r < Volumes[v].fatSz /\ sector = Volumes[v].resv + r /\ at + q = sector
      BY <1>1, <1>2, <1>9, <1>12, <2>1
  <2>3. SectorIn(io[p].got, v, q, sector)
      BY <2>2, SectorRead
  <2> QED
      BY <2>1, <2>3 DEF SectorIn
<1>16. y + b < len
  <2>1. dp + k =< len
      BY <1>4
  <2> QED
      BY <1>14, <2>1
<1>17. Value(v, Content(v, resv + r), b) = Table[v][y + b + 1]
  <2>1. r * Values = y /\ r < Volumes[v].fatSz /\ y + b < Len(Table[v])
      BY <1>1, <1>2, <1>4, <1>12, <1>13, <1>16
  <2>2. r * Values + b < Len(Table[v])
      BY <2>1
  <2>3. Value(v, Content(v, Volumes[v].resv + r), b) = Table[v][r * Values + b + 1]
      BY <2>1, <2>2, ValueOf
  <2> QED
      BY <1>1, <2>1, <2>3
<1>18. y + b + 1 = dp + k
    BY <1>14
<1> QED
  <2>1. Within(k, q, b)
      BY <1>2, <1>9 DEF Within
  <2>2. Value(v, io[p].got[q + 1], b) = Table[v][dp + k]
      BY <1>15, <1>17, <1>18
  <2> QED
      BY <2>1, <2>2 DEF IsNext

LEMMA Joined ==
    ASSUME NEW a \in Seq(Nat), NEW f \in Seq(Nat), NEW n \in Nat, n = Len(a), NEW m \in Nat, m = Len(f)
    PROVE  /\ Len(a \o f) = n + m
           /\ \A k \in 1 .. n : (a \o f)[k] = a[k]
           /\ \A k \in 1 .. m : (a \o f)[n + k] = f[k]
<1>1. Len(a \o f) = n + m
    OBVIOUS
<1>2. \A k \in 1 .. n : (a \o f)[k] = a[k]
    OBVIOUS
<1>3. ASSUME NEW k \in 1 .. m PROVE (a \o f)[n + k] = f[k]
  <2>1. PICK j \in Nat : j = n + k /\ j > n /\ j =< n + m /\ j - n = k
      OBVIOUS
  <2>2. (a \o f)[j] = f[j - n]
      BY <2>1
  <2> QED
      BY <2>1, <2>2
<1> QED
    BY <1>1, <1>2, <1>3

LEMMA AtOnceIs ==
    ASSUME NEW v \in DOMAIN Volumes
    PROVE  AtOnce(v) \in Nat /\ AtOnce(v) > 0
<1>1. PICK w \in Nat : w = Values /\ w > 0
  <2>1. Values \in Nat /\ Values > 0
      BY FatConstants
  <2> QED
      BY <2>1
<1>2. PICK ch \in Nat : ch = Chunk(Volumes[v]) /\ ch > 0
    BY VolumeNumbers
<1>3. PICK m \in Nat : m = ch * w
    BY Z3
<1>4. w =< ch * w
    BY <1>2, TimesAtLeast
<1>5. m > 0
    BY <1>1, <1>3, <1>4
<1> QED
    BY <1>1, <1>2, <1>3, <1>5 DEF AtOnce

LEMMA PlacedNext ==
    ASSUME NEW v \in DOMAIN Volumes, NEW dp \in Nat, NEW at \in Nat, Placed(v, dp, at),
           NEW more \in Nat, more = AtOnce(v), NEW ch \in Nat, ch = Chunk(Volumes[v])
    PROVE  Placed(v, dp + more, at + ch)
<1>1. PICK resv \in Nat : resv = Volumes[v].resv
    BY VolumesAre
<1>2. PICK t \in 0 .. dp : dp = t * more /\ at = resv + t * ch
    BY <1>1 DEF Placed
<1>3. more > 0
    BY AtOnceIs
<1>4. PICK x \in Nat, y \in Nat : x = t * more /\ y = t * ch
  <2>1. t \in Nat
      BY <1>2
  <2>2. t * more \in Nat /\ t * ch \in Nat
      BY <2>1, Z3
  <2> QED
      BY <2>2
<1>5. PICK n \in 0 .. dp + more : n = t + 1
    BY <1>2, <1>3
<1>6. n * more = x + more /\ n * ch = y + ch
  <2>1. (t + 1) * more = t * more + more /\ (t + 1) * ch = t * ch + ch
      BY Z3
  <2> QED
      BY <1>4, <1>5, <2>1
<1>7. dp + more = n * more /\ at + ch = resv + n * ch
    BY <1>2, <1>4, <1>6
<1> QED
    BY <1>1, <1>7 DEF Placed

(* While there is more to keep the table goes on.                          *)
LEMMA TableGoesOn ==
    ASSUME VolumesSound, NEW v \in DOMAIN Volumes, NEW dp \in Nat, NEW at \in Nat, Placed(v, dp, at),
           NEW more \in Nat, more = AtOnce(v), NEW ch \in Nat, ch = Chunk(Volumes[v]),
           dp + more =< Cached(Volumes[v])
    PROVE  at + ch =< PartLength(v)
<1>1. PICK resv \in Nat, size \in Nat : resv = Volumes[v].resv /\ size = Volumes[v].fatSz
    BY VolumesAre
<1>2. PICK w \in Nat : w = Values /\ w > 0
  <2>1. Values \in Nat /\ Values > 0
      BY FatConstants
  <2> QED
      BY <2>1
<1>3. PICK len \in Nat, cached \in Nat : len = Len(Table[v]) /\ cached = Cached(Volumes[v])
  <2>1. Table[v] \in Seq(Nat)
      BY FatConstants
  <2>2. Len(Table[v]) \in Nat
      BY <2>1
  <2> QED
      BY <2>2, VolumeLayout
<1>4. PICK length \in Nat, first \in Nat :
          length = PartLength(v) /\ first = FirstData(Volumes[v]) /\ resv + size =< first /\ first =< length
    BY <1>1, VolumeLayout, VolumeNumbers
<1>5. PICK all \in Nat : all = size * w
    BY Z3
<1>6. cached =< len /\ len =< all
    BY <1>1, <1>2, <1>3, <1>5 DEF VolumesSound
<1>7. Placed(v, dp + more, at + ch)
    BY PlacedNext
<1>8. PICK end \in Nat, to \in Nat : end = dp + more /\ to = at + ch
    OBVIOUS
<1>9. PICK n \in Nat : end = n * (ch * w) /\ to = resv + n * ch
  <2>1. \A n \in 0 .. end : n \in Nat
      OBVIOUS
  <2> QED
      BY <1>1, <1>2, <1>7, <1>8, <2>1 DEF Placed, AtOnce
<1>10. PICK s \in Nat : s = n * ch
    BY Z3
<1>11. end = s * w
  <2>1. (n * ch) * w = n * (ch * w)
      BY Z3
  <2> QED
      BY <1>9, <1>10, <2>1
<1>12. end =< all
    BY <1>3, <1>6, <1>8
<1>13. ~ size < s
  <2> SUFFICES ASSUME size < s PROVE FALSE
      OBVIOUS
  <2>1. size * w + w =< s * w
      BY Between
  <2> QED
      BY <1>2, <1>5, <1>11, <1>12, <2>1
<1> QED
    BY <1>4, <1>8, <1>9, <1>10, <1>13

LEMMA TableReadOn ==
    ASSUME QInv, RInv, VolumesSound, NEW p \in Procs, Got(p, "fat"), NEW v \in DOMAIN Volumes, v = job[p].vol,
           NEW at \in Nat, at = pos[job[p].i], NEW ch \in Nat, ch = Chunk(Volumes[v]), at + ch =< PartLength(v)
    PROVE  After(p) = at + ch
<1>1. job[p].at = "fat" /\ io[p].pc = "done"
    BY DEF Got
<1>2. job[p].op = "mount" /\ AskRight(job[p], io[p])
    BY <1>1, MountingOp
<1>3. ch > 0
    BY VolumeNumbers
<1>4. PICK length \in Nat : length = PartLength(v)
    BY VolumeLayout
<1>5. at < length
    BY <1>3, <1>4
<1>6. Wanted(job[p]) = ch
    BY <1>1, <1>2 DEF Wanted
<1>7. io[p].n = Min({ch, length - at})
    BY <1>1, <1>2, <1>4, <1>5, <1>6, HasRead
<1>8. PICK rest \in Int : rest = length - at /\ ch =< rest
    BY <1>4
<1>9. io[p].n = ch
  <2>1. ch \in Int
      OBVIOUS
  <2>2. io[p].n = Min({ch, rest})
      BY <1>7, <1>8
  <2>3. PICK n \in Int : n = Min({ch, rest}) /\ n =< ch /\ (n = ch \/ n = rest)
      BY <2>1, MinIsInt
  <2> QED
      BY <1>8, <2>2, <2>3
<1> QED
    BY <1>9 DEF After

LEMMA MountFatReads ==
    ASSUME QInv, RInv, VolumesSound, NEW p \in Procs, MountFat(p)
    PROVE  RInv'
<1>1. Got(p, "fat") /\ job[p].at = "fat" /\ UNCHANGED disk
    BY DEF MountFat, Got, ideRest
<1>2. PICK v \in DOMAIN Volumes, i \in Slots, dp \in Nat, at \in Int :
          v = job[p].vol /\ i = job[p].i /\ dp = job[p].dp /\ at = pos[i]
    BY <1>1, AtWork, StateFields
<1>3. PICK x \in Info : x = info[i]
    BY <1>1, <1>2, AtWork
<1>4. x.vol = v
    BY <1>1, <1>2, <1>3, AtWork
<1>5. PICK a \in Seq(Nat) : a = x.fat
    BY DEF Info
<1>6. PICK ch \in Nat, cached \in Nat, w \in Nat :
          ch = Chunk(Volumes[v]) /\ cached = Cached(Volumes[v]) /\ w = Values
  <2>1. Chunk(Volumes[v]) \in Nat
      BY VolumeNumbers
  <2>2. Cached(Volumes[v]) \in Nat
      BY VolumeLayout
  <2> QED
      BY <2>1, <2>2, FatConstants
<1>7. PICK more \in Nat : more = AtOnce(v) /\ more = ch * w
  <2>1. ch * w \in Nat
      BY Z3
  <2> QED
      BY <1>6, <2>1 DEF AtOnce
<1>8. /\ job[p].op = "mount" /\ AskRight(job[p], io[p]) /\ MountRight(job[p])
      /\ \A q \in Procs : q # p => job[q].op = "idle"
    BY <1>1, MountingOp
<1>9. i = count /\ dp =< cached /\ Len(a) = dp /\ Placed(v, dp, at) /\ TableKept(i)
  <2>1. i = count /\ dp =< cached /\ Len(a) = dp /\ TableKept(i)
      BY <1>1, <1>2, <1>3, <1>5, <1>6, <1>8 DEF MountRight
  <2>2. \E t \in 0 .. dp : dp = t * (Chunk(Volumes[v]) * Values) /\ at = Volumes[v].resv + t * Chunk(Volumes[v])
      BY <1>1, <1>2, <1>8 DEF MountRight
  <2> QED
      BY <2>1, <2>2 DEF Placed, AtOnce
<1>10. PICK resv \in Nat : resv = Volumes[v].resv
    BY VolumesAre
<1>11. at \in Nat
  <2>1. PICK t \in Nat : at = resv + t * ch
    <3>1. \A t \in 0 .. dp : t \in Nat
        OBVIOUS
    <3> QED
        BY <1>6, <1>9, <1>10, <3>1 DEF Placed
  <2>2. t * ch \in Nat
      BY Z3
  <2> QED
      BY <2>1, <2>2
<1>12. PICK y \in Int : y = dp + more
    OBVIOUS
<1>13. PICK end \in Int : end = Min({y, cached}) /\ (end = y \/ end = cached) /\ end =< y /\ end =< cached
  <2>1. cached \in Int
      OBVIOUS
  <2> QED
      BY <2>1, MinIsInt
<1>14. PICK m \in Nat : m = end - dp /\ m =< more /\ dp + m =< cached /\ (m = more \/ dp + m = cached)
  <2>1. end - dp \in Nat
      BY <1>9, <1>12, <1>13
  <2>2. PICK m \in Nat : m = end - dp
      BY <2>1
  <2>3. m =< more /\ dp + m =< cached /\ (m = more \/ dp + m = cached)
      BY <1>9, <1>12, <1>13, <2>2
  <2> QED
      BY <2>2, <2>3
<1>15. PICK g : g = io[p].got
    OBVIOUS
<1>16. PICK f : f = [k \in 1 .. m |-> Value(v, g[(k - 1) \div w + 1], (k - 1) % w)]
    OBVIOUS
<1>17. PICK t \in Seq(Nat) : t = Table[v] /\ cached =< Len(t)
    BY <1>6, FatConstants DEF VolumesSound
<1>18. ASSUME NEW k \in 1 .. m PROVE f[k] = t[dp + k] /\ f[k] \in Nat
  <2>1. k \in Nat /\ k > 0 /\ k =< more /\ dp + k =< cached
      BY <1>14, <1>18
  <2>2. PICK h \in Nat, l \in Nat : h = at /\ l = k
      BY <1>11, <2>1
  <2>3. v = job[p].vol /\ h = pos[job[p].i] /\ Placed(v, dp, h)
      BY <1>1, <1>2, <1>9, <2>2
  <2>4. l > 0 /\ l =< AtOnce(v)
      BY <1>7, <2>1, <2>2
  <2>5. dp + l =< Len(Table[v])
    <3>1. PICK n \in Nat : n = Len(t)
        BY <1>17
    <3>2. dp + l =< n
        BY <1>17, <2>1, <2>2, <3>1
    <3> QED
        BY <1>17, <3>1, <3>2
  <2>6. IsNext(io[p].got, v, dp, l)
      BY <1>1, <2>3, <2>4, <2>5, TableRead
  <2>7. \E q, b \in Nat : Within(k, q, b) /\ Value(v, io[p].got[q + 1], b) = Table[v][dp + k]
      BY <2>2, <2>6 DEF IsNext
  <2>8. PICK q \in Nat, b \in Nat : Within(k, q, b) /\ Value(v, io[p].got[q + 1], b) = Table[v][dp + k]
      BY <2>7
  <2>9. (k - 1) \div w = q /\ (k - 1) % w = b
      BY <1>6, <2>8 DEF Within
  <2>10. f[k] = Value(v, g[q + 1], b)
      BY <1>16, <1>18, <2>9
  <2>11. dp + k \in 1 .. Len(t)
      BY <1>17, <2>1
  <2> QED
      BY <1>15, <1>17, <2>8, <2>10, <2>11
<1>19. f \in Seq(Nat) /\ Len(f) = m
  <2>1. f = [k \in 1 .. m |-> f[k]] /\ \A k \in 1 .. m : f[k] \in Nat
      BY <1>16, <1>18
  <2>2. m \in Int
      OBVIOUS
  <2>3. f \in Seq(Nat)
      BY <2>1, <2>2, SeqOfNat
  <2>4. DOMAIN f = 1 .. m
      BY <1>16
  <2> QED
      BY <2>3, <2>4
<1>20. PICK s \in Seq(Nat) : s = a \o f
  <2>1. a \o f \in Seq(Nat)
      BY <1>19
  <2> QED
      BY <2>1
<1>21. /\ Len(s) = dp + m
       /\ \A k \in 1 .. dp : s[k] = a[k]
       /\ \A k \in 1 .. m : s[dp + k] = f[k]
  <2>1. /\ Len(a \o f) = dp + m
        /\ \A k \in 1 .. dp : (a \o f)[k] = a[k]
        /\ \A k \in 1 .. m : (a \o f)[dp + k] = f[k]
    <3>1. dp = Len(a) /\ m = Len(f) /\ f \in Seq(Nat)
        BY <1>9, <1>19
    <3> QED
        BY <3>1, Joined
  <2> QED
      BY <1>20, <2>1
<1>22. \A k \in 1 .. dp : a[k] = t[k]
    BY <1>2, <1>3, <1>4, <1>5, <1>9, <1>17 DEF TableKept
<1>23. ASSUME NEW k \in 1 .. Len(s) PROVE s[k] = t[k]
  <2>1. CASE k \in 1 .. dp
      BY <1>21, <1>22, <2>1
  <2>2. CASE k \notin 1 .. dp
    <3>1. PICK n \in 1 .. m : k = dp + n
        BY <1>21, <1>23, <2>2, k - dp \in 1 .. m
    <3> QED
        BY <1>18, <1>21, <3>1
  <2> QED
      BY <2>1, <2>2
<1>24. PICK e : e = [x EXCEPT !.fat = s]
    OBVIOUS
<1>25. e \in Info /\ e.vol = v /\ e.fat = s /\ e.data = x.data
    BY <1>4, <1>24 DEF Info
<1>26. info' = [info EXCEPT ![i] = e]
  <2>1. info' = [info EXCEPT ![i].fat = @ \o f]
      BY <1>2, <1>6, <1>7, <1>12, <1>13, <1>14, <1>15, <1>16 DEF MountFat
  <2> QED
      BY <1>3, <1>5, <1>20, <1>24, <2>1, StateFields
<1>27. info'[i] = e
    BY <1>25, <1>26, InfoChanges
<1>28. x.data = FirstData(Volumes[v])
    BY <1>2, <1>3, <1>4, <1>9 DEF TableKept
<1>29. TableKept(i)'
  <2>1. Len(s) =< cached
      BY <1>14, <1>21
  <2> QED
      BY <1>6, <1>17, <1>23, <1>25, <1>27, <1>28, <2>1 DEF TableKept
<1>30. ASSUME NEW k \in Slots, count' \in Nat, count' > i => Len(s) = cached, \A n \in Slots : n # i /\ n < count' => n < count
       PROVE  InfoRight(k)'
  <2>1. CASE k = i
    <3>1. i < count' => Len(s) = cached
      <4>1. i \in Int
          BY DEF Slots
      <4> QED
          BY <1>30, <4>1
    <3> QED
        BY <1>6, <1>25, <1>27, <1>29, <2>1, <3>1 DEF InfoRight, B
  <2>2. CASE k # i
    <3>1. info'[k] = info[k] /\ InfoRight(k)
        BY <1>26, <2>2, StateFields DEF RInv
    <3> QED
        BY <1>30, <2>2, <3>1 DEF InfoRight, TableKept, B
  <2> QED
      BY <2>1, <2>2
<1>31. Unwritten'
    BY <1>1, SameUnwritten
<1>32. count \in Nat
    BY DEF RInv
<1>33. CASE dp + more =< cached
  <2>1. ReadOn(p, ch) /\ job' = [job EXCEPT ![p].dp = @ + more] /\ UNCHANGED count
      BY <1>2, <1>6, <1>7, <1>33 DEF MountFat
  <2>2. PICK r : r = Request(FALSE, Volumes[v].disk, 0, ch, "ask")
      OBVIOUS
  <2>3. io' = [io EXCEPT ![p] = r] /\ pos' = [pos EXCEPT ![i] = After(p)]
      BY <1>2, <2>1, <2>2 DEF ReadOn, Asks, Becomes
  <2>4. r.pc = "ask" /\ ~ r.write /\ r.n = ch
      BY <2>2, AskFields
  <2>5. PICK j : j = [job[p] EXCEPT !.dp = dp + more]
      OBVIOUS
  <2>6. job' = [job EXCEPT ![p] = j]
      BY <1>2, <2>1, <2>5, StateFields
  <2>7. j.op = "mount" /\ j.at = "fat" /\ j.vol = v /\ j.i = i /\ j.dp = dp + more
      BY <1>1, <1>2, <1>8, <2>5, AtWork, Fields
  <2>8. WritesElsewhere(r)
      BY <2>4 DEF WritesElsewhere
  <2>9. AskRight(j, r)'
      BY <1>6, <2>4, <2>7 DEF AskRight, Wanted
  <2>10. m = more
      BY <1>14, <1>33
  <2>11. \A k \in Slots : InfoRight(k)'
    <3>1. count' \in Nat /\ ~ count' > i
        BY <1>9, <1>32, <2>1
    <3>2. \A n \in Slots : n # i /\ n < count' => n < count
        BY <2>1
    <3> QED
        BY <1>30, <3>1, <3>2
  <2>12. MountRight(j)'
    <3>1. info'[j.i].fat = s /\ Len(s) = j.dp /\ j.dp =< Cached(Volumes[j.vol])
        BY <1>6, <1>21, <1>25, <1>27, <1>33, <2>7, <2>10
    <3>2. pos'[i] = at + ch
      <4>1. at + ch =< PartLength(v)
          BY <1>6, <1>7, <1>9, <1>11, <1>33, TableGoesOn
      <4>2. After(p) = at + ch
          BY <1>1, <1>2, <1>6, <1>11, <4>1, TableReadOn
      <4> QED
          BY <2>3, <4>2, StateFields
    <3>3. Placed(v, dp + more, at + ch)
        BY <1>6, <1>7, <1>9, <1>11, PlacedNext
    <3>4. \E n \in 0 .. j.dp :
              /\ j.dp = n * (Chunk(Volumes[j.vol]) * Values)
              /\ pos'[j.i] = Volumes[j.vol].resv + n * Chunk(Volumes[j.vol])
        BY <2>7, <3>2, <3>3 DEF Placed, AtOnce
    <3>5. j.i = count'
        BY <1>9, <2>1, <2>7
    <3> QED
        BY <1>29, <2>7, <3>1, <3>4, <3>5 DEF MountRight
  <2>13. DriverRight(j, r)'
      BY <2>7, <2>9, <2>12 DEF DriverRight
  <2> QED
      BY <1>8, <1>31, <1>32, <2>1, <2>3, <2>6, <2>8, <2>11, <2>13, StepReads
<1>34. CASE ~ (dp + more =< cached)
  <2>1. PICK j, r : j = NoJob /\ r = NoIo
      OBVIOUS
  <2>2. j.op = "idle" /\ r.pc = "idle"
      BY <2>1 DEF NoJob, NoIo
  <2>3. job' = [job EXCEPT ![p] = j] /\ io' = [io EXCEPT ![p] = r] /\ count' = count + 1
      BY <1>2, <1>6, <1>7, <1>34, <2>1 DEF MountFat, Moved, Ends, Becomes
  <2>4. DriverRight(j, r)' /\ WritesElsewhere(r)
      BY <2>2 DEF DriverRight, WritesElsewhere
  <2>5. Len(s) = cached
      BY <1>14, <1>21, <1>34
  <2>6. count' \in Nat
      BY <1>32, <2>3
  <2>7. \A n \in Slots : n # i /\ n < count' => n < count
    <3>1. \A n \in Slots : n \in Int
        BY DEF Slots
    <3> QED
        BY <1>9, <1>32, <2>3, <3>1
  <2>8. \A k \in Slots : InfoRight(k)'
      BY <1>30, <2>5, <2>6, <2>7
  <2> QED
      BY <1>8, <1>31, <2>3, <2>4, <2>6, <2>8, StepReads
<1> QED
    BY <1>33, <1>34
-----------------------------------------------------------------------------
(* Where the sectors of a file are                                         *)

LEMMA PlaceIs ==
    ASSUME NEW v \in DOMAIN Volumes, NEW k \in Nat, NEW y \in Int
    PROVE  /\ Place(v, k, 0) \in Nat /\ Place(v, k, y) = Place(v, k, 0) + y
           /\ Place(v, k + 1, 0) = Place(v, k, 0) + Volumes[v].spc
           /\ Place(v, 1, 0) = Volumes[v].spc
<1>1. PICK spc \in Nat : spc = Volumes[v].spc
    BY VolumesAre
<1>2. PICK x \in Nat : x = k * spc
    BY Z3
<1>3. (k + 1) * spc = k * spc + spc /\ 1 * spc = spc
    BY Z3
<1> QED
    BY <1>1, <1>2, <1>3 DEF Place

LEMMA PlaceIsNat ==
    ASSUME NEW v \in DOMAIN Volumes, NEW k \in Nat
    PROVE  Place(v, k, 0) \in Nat
<1>1. PICK y \in Int : y = 0
    OBVIOUS
<1>2. Place(v, k, 0) \in Nat
    BY <1>1, PlaceIs
<1> QED
    BY <1>2

LEMMA PlaceSum ==
    ASSUME NEW v \in DOMAIN Volumes, NEW k \in Nat, NEW m \in Nat
    PROVE  Place(v, k + m, 0) = Place(v, k, 0) + Place(v, m, 0)
<1>1. PICK spc \in Nat : spc = Volumes[v].spc
    BY VolumesAre
<1>2. PICK x \in Nat, y \in Nat : x = k * spc /\ y = m * spc
  <2>1. k * spc \in Nat /\ m * spc \in Nat
      BY Z3
  <2> QED
      BY <2>1
<1>3. (k + m) * spc = k * spc + m * spc
    BY Z3
<1> QED
    BY <1>1, <1>2, <1>3 DEF Place

LEMMA PlaceLess ==
    ASSUME NEW v \in DOMAIN Volumes, NEW k \in Nat, NEW m \in Nat, k < m
    PROVE  Place(v, k, 0) + Volumes[v].spc =< Place(v, m, 0)
<1>1. PICK spc \in Nat : spc = Volumes[v].spc
    BY VolumesAre
<1>2. k * spc + spc =< m * spc
    BY Between
<1>3. PICK x \in Int, y \in Int : x = k * spc /\ y = m * spc
    OBVIOUS
<1> QED
    BY <1>1, <1>2, <1>3 DEF Place

LEMMA PlaceDiv ==
    ASSUME NEW v \in DOMAIN Volumes, NEW a \in Nat
    PROVE  \E q, y \in Nat :
              a \div Volumes[v].spc = q /\ a % Volumes[v].spc = y /\ y < Volumes[v].spc /\ a = Place(v, q, 0) + y
<1>1. PICK spc \in Nat : spc = Volumes[v].spc /\ spc > 0
    BY VolumesAre
<1>2. PICK q \in Nat, y \in Nat : a \div spc = q /\ a % spc = y /\ y < spc /\ a = q * spc + y
    BY <1>1, DivMod
<1>3. PICK x \in Int : x = q * spc
    OBVIOUS
<1>4. a = Place(v, q, 0) + y
    BY <1>1, <1>2, <1>3 DEF Place
<1> QED
    BY <1>1, <1>2, <1>4

LEMMA PlaceOnly ==
    ASSUME NEW v \in DOMAIN Volumes, NEW a \in Nat, NEW k \in Nat, NEW y \in Nat, y < Volumes[v].spc,
           a = Place(v, k, 0) + y
    PROVE  a \div Volumes[v].spc = k /\ a % Volumes[v].spc = y
<1>1. PICK spc \in Nat : spc = Volumes[v].spc /\ spc > 0
    BY VolumesAre
<1>2. PICK x \in Int : x = k * spc
    OBVIOUS
<1>3. a = k * spc + y
    BY <1>1, <1>2 DEF Place
<1>4. y < spc
    BY <1>1
<1>5. spc > 0
    BY <1>1
<1>6. a \div spc = k /\ a % spc = y
    BY <1>3, <1>4, <1>5, DivIs
<1> QED
    BY <1>1, <1>6

(* Sector y of cluster k of a file.                                        *)
LEMMA SectorAt ==
    ASSUME NEW v \in DOMAIN Volumes, NEW c, NEW len \in Nat, len = Len(Chain(v, c)), NEW k \in Nat, k < len,
           NEW y \in Nat, y < Volumes[v].spc, NEW x \in Nat, x = Place(v, k, 0) + y + 1
    PROVE  /\ x =< Place(v, len, 0)
           /\ ChainSectors(v, c)[x] = FirstData(Volumes[v]) + (Chain(v, c)[k + 1] - 2) * Volumes[v].spc + y
<1>1. PICK spc \in Nat : spc = Volumes[v].spc /\ spc > 0
    BY VolumesAre
<1>2. PICK a \in Nat : a = x - 1 /\ a = Place(v, k, 0) + y
  <2>1. PICK h \in Nat : h = Place(v, k, 0)
      BY PlaceIs
  <2> QED
      BY <2>1
<1>3. a \div spc = k /\ a % spc = y
  <2>1. a = Place(v, k, 0) + y
      BY <1>2
  <2> QED
      BY <1>1, <2>1, PlaceOnly
<1>4. PICK all \in Nat, here \in Nat : all = Place(v, len, 0) /\ here = Place(v, k, 0) /\ here + spc =< all
  <2>1. Place(v, len, 0) \in Nat
      BY PlaceIsNat
  <2>2. Place(v, k, 0) \in Nat
      BY PlaceIsNat
  <2>3. Place(v, k, 0) + spc =< Place(v, len, 0)
      BY <1>1, PlaceLess
  <2> QED
      BY <2>1, <2>3, <2>2
<1>5. x =< all
  <2>1. y < spc /\ a = here + y /\ x = a + 1
      BY <1>1, <1>2, <1>4
  <2> QED
      BY <1>4, <2>1
<1>6. x \in 1 .. all
    BY <1>2, <1>5
<1>7. all = len * spc
  <2>1. PICK m \in Nat : m = len * spc
      BY Z3
  <2> QED
      BY <1>1, <1>4, <2>1 DEF Place
<1>8. PICK s : s = Chain(v, c)
    OBVIOUS
<1>9. ChainSectors(v, c) =
           [n \in 1 .. all |-> FirstData(Volumes[v]) + (s[(n - 1) \div spc + 1] - 2) * spc + ((n - 1) % spc)]
    BY <1>1, <1>7, <1>8 DEF ChainSectors
<1>10. ChainSectors(v, c)[x] = FirstData(Volumes[v]) + (s[(x - 1) \div spc + 1] - 2) * spc + ((x - 1) % spc)
    BY <1>6, <1>9
<1>11. (x - 1) \div spc = k /\ (x - 1) % spc = y
    BY <1>2, <1>3
<1>12. ChainSectors(v, c)[x] = FirstData(Volumes[v]) + (s[k + 1] - 2) * spc + y
    BY <1>10, <1>11
<1> QED
    BY <1>1, <1>4, <1>5, <1>8, <1>12

(* Of a file that goes no further than its clusters: where what is read of *)
(* it ends.                                                                *)
LEMMA ReadEnds ==
    ASSUME NEW v \in DOMAIN Volumes, NEW end \in Nat, NEW k \in Nat, NEW r \in Nat, end = Place(v, k, 0) + r,
           NEW len \in Nat, end =< Place(v, len, 0)
    PROVE  k =< len /\ (k = len => r = 0)
<1>1. PICK all \in Nat, here \in Nat, spc \in Nat :
          all = Place(v, len, 0) /\ here = Place(v, k, 0) /\ spc = Volumes[v].spc /\ spc > 0
  <2>1. Place(v, len, 0) \in Nat
      BY PlaceIs
  <2>2. Place(v, k, 0) \in Nat
      BY PlaceIs
  <2> QED
      BY <2>1, <2>2, VolumesAre
<1>2. here + r =< all
    BY <1>1
<1>3. ~ len < k
  <2> SUFFICES ASSUME len < k PROVE FALSE
      OBVIOUS
  <2>1. all + spc =< here
      BY <1>1, PlaceLess
  <2> QED
      BY <1>1, <1>2, <2>1
<1>4. k = len => r = 0
    BY <1>1, <1>2
<1> QED
    BY <1>3, <1>4

(* A read of a piece after another is a read of both.                      *)
DataJoins(v, c, off, n, m) ==
    /\ Len(DataOf(v, c, off, n)) = n
    /\ DataOf(v, c, off, n) \o DataOf(v, c, off + n, m) = DataOf(v, c, off, n + m)

LEMMA DataJoin ==
    ASSUME NEW v, NEW c, NEW off \in Nat, NEW n \in Nat, NEW m \in Nat
    PROVE  DataJoins(v, c, off, n, m)
<1>1. PICK f : f = DataOf(v, c, off + n, m) /\ f = [j \in 1 .. m |-> Content(v, ChainSectors(v, c)[off + n + j])]
    BY DEF DataOf
<1>2. PICK g : g = [j \in 1 .. n + m |-> Content(v, ChainSectors(v, c)[off + j])]
    OBVIOUS
<1>3. PICK S : S = {g[j] : j \in 1 .. n + m}
    OBVIOUS
<1>4. PICK a : a = DataOf(v, c, off, n)
    OBVIOUS
<1>5. \A j \in 1 .. n : a[j] = g[j] /\ j \in 1 .. n + m
    BY <1>2, <1>4 DEF DataOf
<1>6. a \in Seq(S) /\ Len(a) = n
  <2>1. a = [j \in 1 .. n |-> a[j]]
      BY <1>4 DEF DataOf
  <2>2. \A j \in 1 .. n : a[j] \in S
      BY <1>3, <1>5
  <2> QED
      BY <2>1, <2>2
<1>7. \A j \in 1 .. m : f[j] = g[n + j] /\ n + j \in 1 .. n + m
  <2> SUFFICES ASSUME NEW j \in 1 .. m PROVE f[j] = g[n + j] /\ n + j \in 1 .. n + m
      OBVIOUS
  <2>1. n + j \in 1 .. n + m /\ off + n + j = off + (n + j)
      OBVIOUS
  <2> QED
      BY <1>1, <1>2, <2>1
<1>8. f \in Seq(S) /\ Len(f) = m
  <2>1. f = [j \in 1 .. m |-> f[j]]
      BY <1>1
  <2>2. \A j \in 1 .. m : f[j] \in S
      BY <1>3, <1>7
  <2> QED
      BY <2>1, <2>2
<1>9. PICK y : y = a \o f
    OBVIOUS
<1>10. /\ y \in Seq(S) /\ Len(y) = n + m
      /\ \A j \in 1 .. n + m : y[j] = IF j <= n THEN a[j] ELSE f[j - n]
  <2>1. /\ a \o f \in Seq(S) /\ Len(a \o f) = Len(a) + Len(f)
        /\ \A j \in 1 .. Len(a) + Len(f) : (a \o f)[j] = IF j <= Len(a) THEN a[j] ELSE f[j - Len(a)]
      BY <1>6, <1>8, ConcatProperties
  <2> QED
      BY <1>6, <1>8, <1>9, <2>1
<1>11. ASSUME NEW j \in 1 .. n + m PROVE y[j] = g[j]
  <2>1. CASE j <= n
      BY <1>5, <1>10, <1>11, <2>1
  <2>2. CASE ~ j <= n
    <3>1. PICK k \in 1 .. m : k = j - n /\ n + k = j
        BY <1>11, <2>2, j - n \in 1 .. m
    <3> QED
        BY <1>7, <1>10, <1>11, <2>2, <3>1
  <2> QED
      BY <2>1, <2>2
<1>12. y = [j \in 1 .. n + m |-> y[j]]
    BY <1>10
<1>13. y = g
    BY <1>2, <1>11, <1>12
<1>14. DataOf(v, c, off, n) \o DataOf(v, c, off + n, m) = DataOf(v, c, off, n + m)
    BY <1>1, <1>2, <1>4, <1>9, <1>13 DEF DataOf
<1> QED
    BY <1>4, <1>6, <1>14 DEF DataJoins
-----------------------------------------------------------------------------
(* Reading                                                                 *)

(* The whole cluster has been read.                                        *)
StartOf(v, c) == FirstData(Volumes[v]) + (c - 2) * Volumes[v].spc
ClusterIn(got, v, c) ==
    /\ StartOf(v, c) \in Nat /\ Len(got) = Volumes[v].spc
    /\ \A x \in 1 .. Volumes[v].spc : got[x] = Content(v, StartOf(v, c) + x - 1)

LEMMA ClusterGot ==
    ASSUME QInv, RInv, VolumesSound, NEW p \in Procs, io[p].pc = "done", job[p].op = "read", AskRight(job[p], io[p]),
           NEW v \in DOMAIN Volumes, v = job[p].vol, NEW i \in Slots, i = job[p].i, Known(i), v = info[i].vol,
           NEW c \in Nat, c \in 2 .. Count(Volumes[v]) + 1, pos[i] = SectorOf(i, c)
    PROVE  ClusterIn(io[p].got, v, c)
<1>1. PICK spc \in Nat : spc = Volumes[v].spc /\ spc > 0
    BY VolumesAre
<1>2. PICK length \in Nat, first \in Nat : length = PartLength(v) /\ first = FirstData(Volumes[v])
    BY VolumeLayout, VolumeNumbers
<1>3. PICK s \in Nat : s = (c - 2) * spc /\ first + s + spc =< length
    BY <1>1, <1>2, VolumeLayout
<1>4. PICK at \in Nat : at = first + s /\ at + spc =< length
    BY <1>3
<1>5. pos[i] = at
  <2>1. info[i].data = first
      BY <1>2, MountedIs
  <2>2. B(i) = Volumes[v]
      BY DEF B
  <2>3. SectorOf(i, c) = first + (c - 2) * spc
      BY <1>1, <2>1, <2>2 DEF SectorOf
  <2> QED
      BY <1>3, <1>4, <2>3
<1>6. at < length /\ job[p].op # "idle"
    BY <1>1, <1>4
<1>7. Wanted(job[p]) = spc
    BY <1>1 DEF Wanted
<1>8. /\ io[p].n = Min({spc, length - at}) /\ Len(io[p].got) = io[p].n
      /\ \A x \in 1 .. io[p].n : at + x =< length => io[p].got[x] = Content(v, at + x - 1)
  <2>1. at = pos[job[p].i] /\ at < PartLength(v)
      BY <1>2, <1>5, <1>6
  <2>2. /\ io[p].n = Min({Wanted(job[p]), PartLength(v) - at}) /\ Len(io[p].got) = io[p].n
        /\ \A x \in 1 .. io[p].n : at + x =< PartLength(v) => io[p].got[x] = Content(v, at + x - 1)
      BY <1>6, <2>1, HasRead
  <2> QED
      BY <1>2, <1>7, <2>2
<1>9. io[p].n = spc
  <2>1. PICK rest \in Int : rest = length - at /\ spc =< rest
      BY <1>4
  <2>2. spc \in Int
      OBVIOUS
  <2>3. PICK n \in Int : n = Min({spc, rest}) /\ n =< spc /\ (n = spc \/ n = rest)
      BY <2>2, MinIsInt
  <2> QED
      BY <1>8, <2>1, <2>3
<1>10. ASSUME NEW x \in 1 .. spc PROVE io[p].got[x] = Content(v, at + x - 1)
  <2>1. at + x =< length
      BY <1>4, <1>10
  <2> QED
      BY <1>8, <1>9, <1>10, <2>1
<1>11. StartOf(v, c) = at
    BY <1>1, <1>2, <1>3, <1>4 DEF StartOf
<1> QED
    BY <1>1, <1>8, <1>9, <1>10, <1>11 DEF ClusterIn

(* Process p has read cluster k of file e, of which it takes n sectors from*)
(* sector a on, and they are those of the file from off on.                *)
PieceAt(p, v, i, e, k, a, n, off) ==
    /\ io[p].pc = "done" /\ job[p].op = "read" /\ AskRight(job[p], io[p]) /\ v = job[p].vol /\ i = job[p].i
    /\ Known(i) /\ v = info[i].vol /\ e.t = "file" /\ ~ e.dir /\ pos[i] = SectorOf(i, Nth(v, e.cl, k))
    /\ n = 0 \/ k < Len(Chain(v, e.cl))
    /\ a + n =< Volumes[v].spc /\ off = Place(v, k, 0) + a

LEMMA PieceIs ==
    ASSUME QInv, RInv, VolumesSound, NEW p \in Procs, NEW v \in DOMAIN Volumes, NEW i \in Slots, NEW e \in All(v),
           NEW k \in Nat, NEW a \in Nat, NEW n \in Nat, NEW off \in Nat, PieceAt(p, v, i, e, k, a, n, off)
    PROVE  Piece(io[p].got, a, n) = DataOf(v, e.cl, off, n)
<1>1. /\ io[p].pc = "done" /\ job[p].op = "read" /\ AskRight(job[p], io[p]) /\ v = job[p].vol /\ i = job[p].i
      /\ Known(i) /\ v = info[i].vol /\ e.t = "file" /\ ~ e.dir /\ pos[i] = SectorOf(i, Nth(v, e.cl, k))
      /\ n = 0 \/ k < Len(Chain(v, e.cl))
      /\ off = Place(v, k, 0) + a
    BY DEF PieceAt
<1>2. PICK spc \in Nat : spc = Volumes[v].spc /\ spc > 0 /\ a + n =< spc
    BY VolumesAre DEF PieceAt
<1>3. PICK len \in Nat : len = Len(Chain(v, e.cl))
    BY <1>1, SoundFile
<1>4. CASE n = 0
  <2>1. 1 .. n = {}
      BY <1>4
  <2> QED
      BY <2>1 DEF Piece, DataOf
<1>5. CASE k < len
  <2>1. PICK c \in Nat : c = Chain(v, e.cl)[k + 1] /\ c \in 2 .. Count(Volumes[v]) + 1
    <3>1. PICK s : s = Chain(v, e.cl)
        OBVIOUS
    <3>2. k + 1 \in 1 .. Len(s)
        BY <1>3, <1>5, <3>1
    <3>3. \A m \in 1 .. Len(s) : s[m] \in 2 .. Count(Volumes[v]) + 1 /\ s[m] \in Nat
        BY <1>1, <3>1, SoundFile
    <3> QED
        BY <3>1, <3>2, <3>3
  <2>2. Nth(v, e.cl, k) = c
      BY <1>3, <1>5, <2>1 DEF Nth
  <2>3. PICK at \in Nat : /\ at = StartOf(v, c) /\ Len(io[p].got) = spc
                          /\ \A x \in 1 .. spc : io[p].got[x] = Content(v, at + x - 1)
    <3>1. pos[i] = SectorOf(i, c)
        BY <1>1, <2>2
    <3>2. ClusterIn(io[p].got, v, c)
        BY <1>1, <2>1, <3>1, ClusterGot
    <3> QED
        BY <1>2, <3>2 DEF ClusterIn
  <2>4. PICK g : g = io[p].got
      OBVIOUS
  <2>5. ASSUME NEW j \in 1 .. n
        PROVE  a + j =< Len(g) /\ g[a + j] = Content(v, ChainSectors(v, e.cl)[off + j])
    <3>1. PICK x \in 1 .. spc : x = a + j
        BY <1>2, <2>5
    <3>2. PICK y \in Nat : y = x - 1 /\ y < spc
        BY <3>1
    <3>3. PICK z \in Nat : z = off + j
        BY <2>5
    <3>4. z = Place(v, k, 0) + y + 1
      <4>1. PICK h \in Nat : h = Place(v, k, 0)
          BY PlaceIsNat
      <4> QED
          BY <1>1, <3>1, <3>2, <3>3, <4>1
    <3>5. ChainSectors(v, e.cl)[z] = FirstData(Volumes[v]) + (Chain(v, e.cl)[k + 1] - 2) * Volumes[v].spc + y
      <4>1. y < Volumes[v].spc
          BY <1>2, <3>2
      <4> QED
          BY <1>3, <1>5, <3>4, <4>1, SectorAt
    <3>6. FirstData(Volumes[v]) + (Chain(v, e.cl)[k + 1] - 2) * Volumes[v].spc = at
        BY <2>1, <2>3 DEF StartOf
    <3>7. ChainSectors(v, e.cl)[z] = at + y
        BY <3>5, <3>6
    <3>8. at + x - 1 = at + y
        BY <3>1, <3>2
    <3>9. g[x] = Content(v, at + y)
        BY <2>3, <2>4, <3>1, <3>8
    <3>10. x =< Len(g)
        BY <2>3, <2>4, <3>1
    <3> QED
        BY <3>1, <3>3, <3>7, <3>9, <3>10
  <2> QED
      BY <2>4, <2>5 DEF Piece, DataOf
<1> QED
    BY <1>1, <1>3, <1>4, <1>5

(* How what is read of a file is spread over its clusters: it starts s     *)
(* sectors into cluster q, and fills what is left of that and the ones     *)
(* after it, more of them together, and r sectors of the next.             *)
Spread(v, c, off, len, q, s, more, r, l) ==
    /\ off \div Volumes[v].spc = q /\ off % Volumes[v].spc = s /\ s < Volumes[v].spc /\ off = Place(v, q, 0) + s
    /\ (s + len) \div Volumes[v].spc = more /\ r < Volumes[v].spc /\ s + len = Place(v, more, 0) + r
    /\ l = Len(Chain(v, c)) /\ q + more =< l /\ (q + more = l => r = 0)

LEMMA IsSpread ==
    ASSUME VolumesSound, NEW v \in DOMAIN Volumes, NEW e \in All(v), e.t = "file", ~ e.dir,
           NEW off \in Nat, NEW len \in Nat, off + len =< e.size
    PROVE  \E q, s, more, r, l \in Nat : Spread(v, e.cl, off, len, q, s, more, r, l)
<1>1. PICK q \in Nat, s \in Nat :
          off \div Volumes[v].spc = q /\ off % Volumes[v].spc = s /\ s < Volumes[v].spc /\ off = Place(v, q, 0) + s
    BY PlaceDiv
<1>2. PICK n \in Nat : n = s + len
    OBVIOUS
<1>3. PICK more \in Nat, r \in Nat :
          n \div Volumes[v].spc = more /\ n % Volumes[v].spc = r /\ r < Volumes[v].spc /\ n = Place(v, more, 0) + r
    BY PlaceDiv
<1>4. PICK l \in Nat : l = Len(Chain(v, e.cl))
    BY SoundFile
<1>5. PICK end \in Nat : end = off + len
    OBVIOUS
<1>6. PICK k \in Nat : k = q + more
    OBVIOUS
<1>7. end = Place(v, k, 0) + r
  <2>1. PICK x \in Nat, y \in Nat : x = Place(v, q, 0) /\ y = Place(v, more, 0)
      BY PlaceIsNat
  <2>2. Place(v, q + more, 0) = Place(v, q, 0) + Place(v, more, 0)
      BY PlaceSum
  <2>3. Place(v, k, 0) = x + y
      BY <1>6, <2>1, <2>2
  <2> QED
      BY <1>1, <1>2, <1>3, <1>5, <2>1, <2>3
<1>8. end =< Place(v, l, 0)
  <2>1. PICK size \in Nat : size = e.size
      BY EntriesAre
  <2>2. PICK spc \in Nat, x \in Nat : spc = Volumes[v].spc /\ x = l * spc
    <3>1. PICK spc \in Nat : spc = Volumes[v].spc
        BY VolumesAre
    <3>2. l * spc \in Nat
        BY Z3
    <3> QED
        BY <3>1, <3>2
  <2>3. size =< x
      BY <1>4, <2>1, <2>2, SoundFile
  <2>4. Place(v, l, 0) = x
      BY <2>2 DEF Place
  <2> QED
      BY <1>5, <2>1, <2>3, <2>4
<1>9. k =< l /\ (k = l => r = 0)
    BY <1>7, <1>8, ReadEnds
<1>10. Spread(v, e.cl, off, len, q, s, more, r, l)
    BY <1>1, <1>2, <1>3, <1>4, <1>6, <1>9 DEF Spread
<1> QED
    BY <1>10

LEMMA ReadArgIs ==
    ASSUME NEW v \in DOMAIN Volumes, NEW a \in ReadArgs[v]
    PROVE  a[1] \in Nat /\ a[2] \in Nat /\ a[3] \in Nat /\ Asked(v, a[1], a[2], a[3])
<1>1. PICK e \in All(v) :
          /\ e.t = "file" /\ ~ e.dir
          /\ \E off \in 0 .. e.size : \E len \in IF off = e.size THEN {0} ELSE 1 .. e.size - off : a = <<e.cl, off, len>>
    BY DEF ReadArgs
<1>2. PICK off \in 0 .. e.size : \E len \in IF off = e.size THEN {0} ELSE 1 .. e.size - off : a = <<e.cl, off, len>>
    BY <1>1
<1>3. PICK len \in IF off = e.size THEN {0} ELSE 1 .. e.size - off : a = <<e.cl, off, len>>
    BY <1>2
<1>4. PICK size \in Nat : size = e.size
    BY <1>3, EntriesAre
<1>5. off \in Nat /\ off =< size
    BY <1>4
<1>6. len \in Nat /\ off + len =< size
  <2>1. CASE off = size
    <3>1. len \in {0}
        BY <1>3, <1>4, <2>1
    <3> QED
        BY <1>5, <2>1, <3>1
  <2>2. CASE off # size
    <3>1. len \in 1 .. size - off
        BY <1>3, <1>4, <2>2
    <3> QED
        BY <1>5, <3>1
  <2> QED
      BY <2>1, <2>2
<1>7. a[1] = e.cl /\ a[2] = off /\ a[3] = len
    BY <1>3
<1> QED
    BY <1>1, <1>4, <1>5, <1>6, <1>7, EntriesAre DEF Asked

LEMMA ReadReads ==
    ASSUME QInv, RInv, VolumesSound, NEW p \in Procs, NEW i \in Slots, Quiet, Known(i), NEW a \in ReadArgs[info[i].vol],
           Read(p, i, a[1], a[2], a[3])
    PROVE  RInv'
<1>1. PICK v \in DOMAIN Volumes : v = info[i].vol
    BY KnownInfo
<1>2. PICK c \in Nat, off \in Nat, len \in Nat : c = a[1] /\ off = a[2] /\ len = a[3] /\ Asked(v, c, off, len)
    BY <1>1, ReadArgIs
<1>3. PICK e \in All(v) : e.t = "file" /\ ~ e.dir /\ e.cl = c /\ off + len =< e.size
    BY <1>2 DEF Asked
<1>4. PICK q \in Nat, s \in Nat, more \in Nat, r \in Nat, l \in Nat : Spread(v, e.cl, off, len, q, s, more, r, l)
    BY <1>3, IsSpread
<1>5. PICK spc \in Nat : spc = Volumes[v].spc /\ spc = B(i).spc
    BY <1>1, VolumesAre DEF B
<1>6. /\ off \div spc = q /\ off % spc = s /\ s < spc /\ (s + len) \div spc = more
      /\ l = Len(Chain(v, e.cl)) /\ q + more =< l
    BY <1>4, <1>5 DEF Spread
<1>7. PICK n \in Nat : n = (IF off + len < spc THEN 0 ELSE off \div spc) /\ n = q
  <2>1. CASE off + len < spc
    <3>1. off < spc
        BY <2>1
    <3>2. PICK y \in Int : y = 0 * spc
        OBVIOUS
    <3>3. off = 0 * spc + off /\ 0 \in Int /\ spc > 0
        BY <3>1
    <3>4. off \div spc = 0
        BY <3>1, <3>3, DivIs
    <3> QED
        BY <1>6, <2>1, <3>4
  <2>2. CASE ~ off + len < spc
      BY <1>6, <2>2
  <2> QED
      BY <2>1, <2>2
<1>8. PICK first : first = Skip(i, c, n)
    OBVIOUS
<1>9. first = Nth(v, c, q)
  <2>1. ChainSound(v, c)
      BY <1>3, FileSound
  <2>2. Skip(i, c, q) = Nth(v, c, q)
      BY <1>1, <2>1, SkipIsNth
  <2> QED
      BY <1>7, <1>8, <2>2
<1>10. PICK left : left = Clusters(off, len, spc) - 1 /\ left = more
  <2>1. Clusters(off, len, spc) - 1 = more
      BY <1>6 DEF Clusters
  <2> QED
      BY <2>1
<1>11. PICK j : j = [NoJob EXCEPT !.op = "read", !.at = "first", !.vol = v, !.i = i, !.dir = c, !.off = off,
                                  !.len = len, !.cl = first, !.left = left, !.out = <<>>]
    OBVIOUS
<1>12. job' = [job EXCEPT ![p] = j] /\ ReadCluster(p, i, first) /\ UNCHANGED <<disk, info, count>>
    BY <1>1, <1>2, <1>5, <1>7, <1>8, <1>10, <1>11 DEF Read, Moved, ideRest
<1>13. PICK x : x = Request(FALSE, Volumes[v].disk, 0, spc, "ask")
    OBVIOUS
<1>14. io' = [io EXCEPT ![p] = x] /\ pos' = [pos EXCEPT ![i] = SectorOf(i, first)]
    BY <1>1, <1>5, <1>12, <1>13 DEF ReadCluster, SeekRead, Asks, Becomes
<1>15. /\ j.op = "read" /\ j.at = "first" /\ j.vol = v /\ j.i = i /\ j.dir = c /\ j.off = off
       /\ j.len = len /\ j.cl = first /\ j.left = more
    BY <1>10, <1>11 DEF NoJob
<1>16. x.pc = "ask" /\ ~ x.write /\ x.n = spc
    BY <1>13, AskFields
<1>17. WritesElsewhere(x)
    BY <1>16 DEF WritesElsewhere
<1>18. AskRight(j, x)'
    BY <1>5, <1>15, <1>16 DEF AskRight, Wanted
<1>19. ReadingRight(j)'
  <2>1. Known(i)' /\ SectorOf(i, first)' = SectorOf(i, first)
      BY <1>12 DEF Known, SectorOf, B
  <2>2. pos'[i] = SectorOf(i, first)
      BY <1>14, StateFields
  <2>3. j.left = ((j.off % Volumes[j.vol].spc) + j.len) \div Volumes[j.vol].spc
      BY <1>5, <1>6, <1>15
  <2>4. j.cl = Nth(j.vol, j.dir, j.off \div Volumes[j.vol].spc)
      BY <1>5, <1>6, <1>9, <1>15
  <2>5. Asked(j.vol, j.dir, j.off, j.len) /\ j.off \in Nat /\ j.len \in Nat
      BY <1>2, <1>15
  <2> QED
      BY <1>15, <2>1, <2>2, <2>3, <2>4, <2>5 DEF ReadingRight, More
<1>20. DriverRight(j, x)'
    BY <1>15, <1>18, <1>19 DEF DriverRight
<1>21. Unwritten' /\ count' \in Nat /\ \A k \in Slots : InfoRight(k)'
    BY <1>12, SameUnwritten, SameInfo
<1>22. \A y \in Procs : y # p => job[y].op = "idle"
    BY DEF Quiet
<1> QED
    BY <1>12, <1>14, <1>17, <1>20, <1>21, <1>22, StepReads

(* The op of a job that is at a stage of reading, and what it reads.       *)
LEMMA ReadingOp ==
    ASSUME QInv, RInv, NEW p \in Procs, job[p].at \in {"first", "rest"}
    PROVE  /\ job[p].op = "read" /\ AskRight(job[p], io[p]) /\ ReadingRight(job[p])
           /\ \A q \in Procs : q # p => job[q].op = "idle"
<1>1. job[p].op # "idle"
    BY AtWork
<1>2. DriverRight(job[p], io[p])
    BY DEF RInv
<1>3. job[p].op = "read" /\ AskRight(job[p], io[p]) /\ ReadingRight(job[p])
    BY <1>1, <1>2 DEF DriverRight, MountRight
<1> QED
    BY <1>1, <1>3, OthersIdle

LEMMA ReturnsReads ==
    ASSUME QInv, RInv, NEW p \in Procs, job[p].at \in {"first", "rest"}, UNCHANGED <<ideRest, info, count>>,
           NEW out, Returns(p, out), out = DataOf(job[p].vol, job[p].dir, job[p].off, job[p].len)
    PROVE  RInv'
<1>1. /\ job[p].op = "read" /\ ReadingRight(job[p])
      /\ \A q \in Procs : q # p => job[q].op = "idle"
    BY ReadingOp
<1>2. PICK j, r : j = [job[p] EXCEPT !.at = "ready", !.out = out] /\ r = NoIo
    OBVIOUS
<1>3. job' = [job EXCEPT ![p] = j] /\ io' = [io EXCEPT ![p] = r] /\ UNCHANGED <<disk, info, count>>
    BY <1>2, StateFields DEF Returns, Ends, Becomes, ideRest
<1>4. /\ j.at = "ready" /\ j.out = out /\ j.op = "read" /\ j.vol = job[p].vol /\ j.i = job[p].i
      /\ j.dir = job[p].dir /\ j.off = job[p].off /\ j.len = job[p].len
    BY <1>1, <1>2, AtWork, Fields
<1>5. r.pc = "idle" /\ ~ r.write
    BY <1>2 DEF NoIo
<1>6. WritesElsewhere(r) /\ AskRight(j, r)'
    BY <1>5 DEF WritesElsewhere, AskRight
<1>7. ReadingRight(j)'
  <2>1. Known(j.i)'
      BY <1>1, <1>3, <1>4 DEF ReadingRight, Known
  <2>2. j.off \in Nat /\ j.len \in Nat /\ Asked(j.vol, j.dir, j.off, j.len)
      BY <1>1, <1>4 DEF ReadingRight
  <2>3. j.out = DataOf(j.vol, j.dir, j.off, j.len)
      BY <1>4
  <2> QED
      BY <1>4, <2>1, <2>2, <2>3 DEF ReadingRight
<1>8. DriverRight(j, r)'
    BY <1>4, <1>6, <1>7 DEF DriverRight
<1>9. Unwritten' /\ count' \in Nat /\ \A i \in Slots : InfoRight(i)'
    BY <1>3, SameUnwritten, SameInfo
<1> QED
    BY <1>1, <1>3, <1>6, <1>8, <1>9, StepReads

(* On to the next cluster.                                                 *)
LEMMA OnwardReads ==
    ASSUME QInv, RInv, NEW p \in Procs, job[p].at \in {"first", "rest"}, UNCHANGED <<ideRest, info, count>>,
           NEW j, job' = [job EXCEPT ![p] = j], j.op = job[p].op, j.vol = job[p].vol, j.i = job[p].i,
           j.dir = job[p].dir, j.off = job[p].off, j.len = job[p].len, j.at = "rest", RestRight(j),
           ReadCluster(p, j.i, j.cl)
    PROVE  RInv'
<1>1. /\ job[p].op = "read" /\ ReadingRight(job[p])
      /\ \A y \in Procs : y # p => job[y].op = "idle"
    BY ReadingOp
<1>2. PICK v \in DOMAIN Volumes, i \in Slots : v = j.vol /\ i = j.i /\ v = info[i].vol
    BY AtWork
<1>3. PICK spc \in Nat : spc = Volumes[v].spc /\ spc = B(i).spc
    BY <1>2, VolumesAre DEF B
<1>4. PICK x : x = Request(FALSE, Volumes[v].disk, 0, spc, "ask")
    OBVIOUS
<1>5. /\ io' = [io EXCEPT ![p] = x] /\ pos' = [pos EXCEPT ![i] = SectorOf(i, j.cl)]
      /\ UNCHANGED <<disk, info, count>>
    BY <1>2, <1>3, <1>4 DEF ReadCluster, SeekRead, Asks, Becomes, ideRest
<1>6. x.pc = "ask" /\ ~ x.write /\ x.n = spc
    BY <1>4, AskFields
<1>7. WritesElsewhere(x)
    BY <1>6 DEF WritesElsewhere
<1>8. AskRight(j, x)'
    BY <1>1, <1>2, <1>3, <1>6 DEF AskRight, Wanted
<1>9. ReadingRight(j)'
  <2>1. Known(i)' /\ SectorOf(i, j.cl)' = SectorOf(i, j.cl)
      BY <1>1, <1>2, <1>5 DEF ReadingRight, Known, SectorOf, B
  <2>2. pos'[i] = SectorOf(i, j.cl)
      BY <1>5, StateFields
  <2>3. Asked(j.vol, j.dir, j.off, j.len) /\ j.off \in Nat /\ j.len \in Nat
      BY <1>1 DEF ReadingRight
  <2> QED
      BY <1>2, <2>1, <2>2, <2>3 DEF ReadingRight
<1>10. DriverRight(j, x)'
    BY <1>1, <1>8, <1>9 DEF DriverRight
<1>11. Unwritten' /\ count' \in Nat /\ \A k \in Slots : InfoRight(k)'
    BY <1>5, SameUnwritten, SameInfo
<1> QED
    BY <1>1, <1>5, <1>7, <1>10, <1>11, StepReads

(* What a read is in the middle of.                                        *)
LEMMA ReadingIs ==
    ASSUME QInv, RInv, VolumesSound, NEW p \in Procs, job[p].at \in {"first", "rest"}
    PROVE  \E v \in DOMAIN Volumes, i \in Slots, off \in Nat, len \in Nat :
              /\ v = job[p].vol /\ i = job[p].i /\ off = job[p].off /\ len = job[p].len /\ job[p].dir \in Nat
              /\ Known(i) /\ v = info[i].vol
              /\ \E e \in All(v) : e.t = "file" /\ ~ e.dir /\ e.cl = job[p].dir /\ off + len =< e.size
<1>1. ReadingRight(job[p])
    BY ReadingOp
<1>2. /\ Known(job[p].i) /\ job[p].off \in Nat /\ job[p].len \in Nat
      /\ Asked(job[p].vol, job[p].dir, job[p].off, job[p].len)
    BY <1>1 DEF ReadingRight
<1>3. job[p].vol \in DOMAIN Volumes /\ job[p].i \in Slots /\ job[p].dir \in Nat /\ job[p].vol = info[job[p].i].vol
    BY AtWork
<1> QED
    BY <1>2, <1>3 DEF Asked

(* One more piece.                                                         *)
LongerBy(p, old, n) == old \o Piece(io[p].got, 0, n)

LEMMA PieceJoin ==
    ASSUME QInv, RInv, VolumesSound, NEW p \in Procs, NEW v \in DOMAIN Volumes, NEW i \in Slots, NEW e \in All(v),
           NEW k \in Nat, NEW a \in Nat, a = 0, NEW n \in Nat, NEW from \in Nat, PieceAt(p, v, i, e, k, a, n, from),
           NEW off \in Nat, NEW m \in Nat, from = off + m
    PROVE  LongerBy(p, DataOf(v, e.cl, off, m), n) = DataOf(v, e.cl, off, m + n)
<1>1. Piece(io[p].got, a, n) = DataOf(v, e.cl, from, n)
    BY PieceIs
<1>2. DataJoins(v, e.cl, off, m, n)
    BY DataJoin
<1> QED
    BY <1>1, <1>2 DEF DataJoins, LongerBy

LEMMA ReadFirstReads ==
    ASSUME QInv, RInv, VolumesSound, NEW p \in Procs, ReadFirst(p)
    PROVE  RInv'
<1>1. job[p].at = "first" /\ io[p].pc = "done" /\ UNCHANGED <<ideRest, info, count>>
    BY DEF ReadFirst, Got
<1>2. PICK v \in DOMAIN Volumes, i \in Slots, off \in Nat, len \in Nat :
          /\ v = job[p].vol /\ i = job[p].i /\ off = job[p].off /\ len = job[p].len /\ job[p].dir \in Nat
          /\ Known(i) /\ v = info[i].vol
          /\ \E e \in All(v) : e.t = "file" /\ ~ e.dir /\ e.cl = job[p].dir /\ off + len =< e.size
    BY <1>1, ReadingIs
<1>3. PICK e \in All(v) : e.t = "file" /\ ~ e.dir /\ e.cl = job[p].dir /\ off + len =< e.size
    BY <1>2
<1>4. PICK c \in Nat : c = job[p].dir /\ c = e.cl
    BY <1>2, <1>3
<1>5. PICK q \in Nat, s \in Nat, more \in Nat, r \in Nat, l \in Nat : Spread(v, e.cl, off, len, q, s, more, r, l)
    BY <1>3, IsSpread
<1>6. PICK spc \in Nat : spc = Volumes[v].spc /\ spc = B(i).spc
    BY <1>2, VolumesAre DEF B
<1>7. /\ off \div spc = q /\ off % spc = s /\ s < spc /\ off = Place(v, q, 0) + s
      /\ (s + len) \div spc = more /\ r < spc /\ s + len = Place(v, more, 0) + r
      /\ l = Len(Chain(v, e.cl)) /\ q + more =< l /\ (q + more = l => r = 0)
    BY <1>5, <1>6 DEF Spread
<1>8. job[p].op = "read" /\ AskRight(job[p], io[p]) /\ ReadingRight(job[p])
    BY <1>1, ReadingOp
<1>9. job[p].cl = Nth(v, c, q) /\ pos[i] = SectorOf(i, Nth(v, c, q)) /\ job[p].left = more
    BY <1>1, <1>2, <1>4, <1>6, <1>7, <1>8 DEF ReadingRight, More
<1>10. PICK room \in Nat : room = spc - s
    BY <1>7
<1>11. PICK n \in Int : n = Min({room, len}) /\ n =< room /\ n =< len /\ (n = room \/ n = len)
  <2>1. room \in Int /\ len \in Int
      OBVIOUS
  <2> QED
      BY <2>1, MinIsInt
<1>12. PICK size \in Nat : size = Place(v, more, 0) /\ (more = 0 => size = 0) /\ (more # 0 => spc =< size)
  <2>1. PICK size \in Nat : size = Place(v, more, 0)
      BY PlaceIsNat
  <2>2. more = 0 => size = 0
    <3> SUFFICES ASSUME more = 0 PROVE size = 0
        OBVIOUS
    <3>1. 0 * spc + 0 = 0
        OBVIOUS
    <3>2. Place(v, 0, 0) = 0
        BY <1>6, <3>1 DEF Place
    <3> QED
        BY <2>1, <3>2
  <2>3. more # 0 => spc =< size
    <3> SUFFICES ASSUME more # 0 PROVE spc =< size
        OBVIOUS
    <3>1. PICK none \in Nat : none = 0 /\ none < more
        OBVIOUS
    <3>2. Place(v, none, 0) \in Nat
        BY PlaceIsNat
    <3>3. Place(v, none, 0) + Volumes[v].spc =< Place(v, more, 0)
        BY <3>1, PlaceLess
    <3>4. PICK y \in Nat : y = Place(v, none, 0) /\ y + spc =< size
        BY <1>6, <2>1, <3>2, <3>3
    <3> QED
        BY <3>4
  <2> QED
      BY <2>1, <2>2, <2>3
<1>13. s + len = size + r
    BY <1>7, <1>12
<1>14. n \in Nat /\ s + n =< spc
    BY <1>7, <1>10, <1>11
<1>15. n = 0 \/ q < l
  <2>1. CASE more = 0 /\ q = l
    <3>1. r = 0
        BY <1>7, <2>1
    <3> QED
      <4>1. size = 0
          BY <1>12, <2>1
      <4>2. len = 0
          BY <1>13, <3>1, <4>1
      <4> QED
          BY <1>11, <1>14, <4>2
  <2>2. CASE ~ (more = 0 /\ q = l)
      BY <1>7, <2>2
  <2> QED
      BY <2>1, <2>2
<1>16. PICK out : out = Piece(io[p].got, s, n)
    OBVIOUS
<1>17. out = DataOf(v, c, off, n)
  <2>1. PieceAt(p, v, i, e, q, s, n, off)
      BY <1>1, <1>2, <1>3, <1>4, <1>6, <1>7, <1>8, <1>9, <1>14, <1>15 DEF PieceAt
  <2>2. Piece(io[p].got, s, n) = DataOf(v, e.cl, off, n)
      BY <1>14, <2>1, PieceIs
  <2> QED
      BY <1>4, <1>16, <2>2
<1>18. CASE more = 0
  <2>1. n = len
      BY <1>7, <1>10, <1>11, <1>12, <1>13, <1>18
  <2>2. Returns(p, out)
      BY <1>2, <1>6, <1>7, <1>9, <1>10, <1>11, <1>16, <1>18 DEF ReadFirst
  <2>3. out = DataOf(job[p].vol, job[p].dir, job[p].off, job[p].len)
      BY <1>2, <1>4, <1>17, <2>1
  <2> QED
      BY <1>1, <2>2, <2>3, ReturnsReads
<1>19. CASE more # 0
  <2>1. n = room
      BY <1>10, <1>11, <1>12, <1>13, <1>19
  <2>2. PICK next : next = GetFatValue(i, job[p].cl)
      OBVIOUS
  <2>3. OnTo(p, i, next, out)
      BY <1>2, <1>6, <1>7, <1>9, <1>10, <1>11, <1>16, <1>19, <2>2 DEF ReadFirst
  <2>4. q < l
      BY <1>7, <1>19
  <2>5. next = Nth(v, c, q + 1)
    <3>1. ChainSound(v, e.cl)
        BY <1>3, FileSound
    <3>2. ChainSound(v, c)
        BY <1>4, <3>1
    <3>3. Known(i) /\ v = info[i].vol
        BY <1>2
    <3>4. \A k \in Nat : GetFatValue(i, Nth(v, c, k)) = Nth(v, c, k + 1)
        BY <3>2, <3>3, NextOf
    <3> QED
        BY <1>9, <2>2, <3>4
  <2>6. PICK j : j = [job[p] EXCEPT !.at = "rest", !.cl = next, !.out = out]
      OBVIOUS
  <2>7. job' = [job EXCEPT ![p] = j] /\ ReadCluster(p, i, next)
      BY <2>3, <2>6, StateFields DEF OnTo
  <2>8. /\ j.op = job[p].op /\ j.vol = v /\ j.i = i /\ j.dir = c /\ j.off = off /\ j.len = len
        /\ j.at = "rest" /\ j.cl = next /\ j.left = more /\ j.out = out
      BY <1>1, <1>2, <1>4, <1>9, <2>6, AtWork, Fields
  <2>9. RestRight(j)
    <3>1. More(j) = more
        BY <1>6, <1>7, <2>8 DEF More
    <3>2. PICK one \in Nat, zero \in Int : one = 1 /\ zero = 0
        OBVIOUS
    <3>3. Place(v, 1, 0) = spc
        BY <1>6, <3>2, PlaceIs
    <3>4. out = DataOf(v, c, off, Place(v, 1, 0) - s)
        BY <1>10, <1>17, <2>1, <3>3
    <3>5. More(j) - j.left + 1 = 1 /\ j.left \in 1 .. More(j)
        BY <1>19, <2>8, <3>1
    <3> QED
        BY <1>6, <1>7, <2>5, <2>8, <3>4, <3>5 DEF RestRight
  <2>10. job[p].at \in {"first", "rest"} /\ ReadCluster(p, j.i, j.cl)
      BY <1>1, <2>7, <2>8
  <2> QED
      BY <1>1, <1>2, <1>4, <2>7, <2>8, <2>9, <2>10, OnwardReads
<1> QED
    BY <1>18, <1>19

LEMMA ReadRestReads ==
    ASSUME QInv, RInv, VolumesSound, NEW p \in Procs, ReadRest(p)
    PROVE  RInv'
<1>1. job[p].at = "rest" /\ io[p].pc = "done" /\ UNCHANGED <<ideRest, info, count>>
    BY DEF ReadRest, Got
<1>2. PICK v \in DOMAIN Volumes, i \in Slots, off \in Nat, len \in Nat :
          /\ v = job[p].vol /\ i = job[p].i /\ off = job[p].off /\ len = job[p].len /\ job[p].dir \in Nat
          /\ Known(i) /\ v = info[i].vol
          /\ \E e \in All(v) : e.t = "file" /\ ~ e.dir /\ e.cl = job[p].dir /\ off + len =< e.size
    BY <1>1, ReadingIs
<1>3. PICK e \in All(v) : e.t = "file" /\ ~ e.dir /\ e.cl = job[p].dir /\ off + len =< e.size
    BY <1>2
<1>4. PICK c \in Nat : c = job[p].dir /\ c = e.cl
    BY <1>2, <1>3
<1>5. PICK q \in Nat, s \in Nat, more \in Nat, r \in Nat, l \in Nat : Spread(v, e.cl, off, len, q, s, more, r, l)
    BY <1>3, IsSpread
<1>6. PICK spc \in Nat : spc = Volumes[v].spc /\ spc = B(i).spc
    BY <1>2, VolumesAre DEF B
<1>7. /\ s < spc /\ off = Place(v, q, 0) + s /\ r < spc /\ s + len = Place(v, more, 0) + r
      /\ l = Len(Chain(v, e.cl)) /\ q + more =< l /\ (q + more = l => r = 0)
    BY <1>5, <1>6 DEF Spread
<1>8. off \div spc = q /\ off % spc = s /\ (s + len) \div spc = more
    BY <1>5, <1>6 DEF Spread
<1>9. job[p].op = "read" /\ AskRight(job[p], io[p]) /\ ReadingRight(job[p])
    BY <1>1, ReadingOp
<1>10. More(job[p]) = more
    BY <1>2, <1>6, <1>8 DEF More
<1>11. RestRight(job[p]) /\ pos[i] = SectorOf(i, job[p].cl)
    BY <1>1, <1>2, <1>9 DEF ReadingRight
<1>12. PICK left \in Nat, b \in Nat : left = job[p].left /\ b = more - left + 1 /\ b > 0 /\ b =< more /\ left > 0
  <2>1. job[p].left \in 1 .. more
      BY <1>10, <1>11 DEF RestRight
  <2>2. PICK left \in Nat : left = job[p].left /\ left > 0 /\ left =< more
      BY <2>1
  <2>3. PICK b \in Nat : b = more - left + 1 /\ b > 0 /\ b =< more
      BY <2>2, more - left + 1 \in Nat
  <2> QED
      BY <2>2, <2>3
<1>13. PICK k \in Nat : k = q + b
    OBVIOUS
<1>14. job[p].cl = Nth(v, c, k) /\ job[p].out = DataOf(v, c, off, Place(v, b, 0) - s)
    BY <1>2, <1>4, <1>6, <1>8, <1>10, <1>11, <1>12, <1>13 DEF RestRight
(* What has been read so far: the sectors up to the start of cluster b.    *)
<1>15. PICK h \in Nat : h = Place(v, b, 0) /\ spc =< h
  <2>1. PICK none \in Nat : none = 0 /\ none < b
      BY <1>12
  <2>2. Place(v, none, 0) \in Nat /\ Place(v, b, 0) \in Nat
      BY PlaceIsNat
  <2>3. Place(v, none, 0) + Volumes[v].spc =< Place(v, b, 0)
      BY <2>1, PlaceLess
  <2>4. PICK x \in Nat, h \in Nat : x = Place(v, none, 0) /\ h = Place(v, b, 0)
      BY <2>2
  <2>5. x + spc =< h
      BY <1>6, <2>3, <2>4
  <2> QED
      BY <2>4, <2>5
<1>16. PICK m \in Nat : m = h - s /\ m = Place(v, b, 0) - s
    BY <1>7, <1>15, h - s \in Nat
<1>17. PICK from \in Nat : from = off + m /\ from = Place(v, k, 0) + 0
  <2>1. PICK x \in Nat, y \in Nat : x = Place(v, q, 0) /\ y = Place(v, k, 0)
      BY PlaceIsNat
  <2>2. Place(v, q + b, 0) = Place(v, q, 0) + Place(v, b, 0)
      BY PlaceSum
  <2>3. y = x + h
      BY <1>13, <1>15, <2>1, <2>2
  <2>4. off = x + s
      BY <1>7, <2>1
  <2>5. m = h - s
      BY <1>16
  <2>6. off + m = y
      BY <2>3, <2>4, <2>5
  <2> QED
      BY <2>1, <2>6
<1>18. job[p].out = DataOf(v, c, off, m)
    BY <1>14, <1>16
<1>19. ASSUME NEW n \in Nat, n =< spc, n = 0 \/ k < l
       PROVE  LongerBy(p, job[p].out, n) = DataOf(v, c, off, m + n)
  <2>1. PICK a \in Nat : a = 0 /\ a + n =< spc /\ from = Place(v, k, 0) + a
      BY <1>17, <1>19
  <2>2. pos[i] = SectorOf(i, Nth(v, e.cl, k))
      BY <1>4, <1>11, <1>14
  <2>3. PieceAt(p, v, i, e, k, a, n, from)
      BY <1>1, <1>2, <1>3, <1>6, <1>7, <1>9, <1>19, <2>1, <2>2 DEF PieceAt
  <2>4. LongerBy(p, DataOf(v, e.cl, off, m), n) = DataOf(v, e.cl, off, m + n)
      BY <1>17, <2>1, <2>3, PieceJoin
  <2> QED
      BY <1>4, <1>18, <2>4
<1>20. PICK next : next = GetFatValue(i, job[p].cl)
    OBVIOUS
<1>21. CASE left = 1
  <2>1. b = more
      BY <1>12, <1>21
  <2>2. s + len = h + r
      BY <1>7, <1>15, <2>1
  <2>3. len = m + r
      BY <1>7, <1>16, <2>2
  <2>4. Len(job[p].out) = m
    <3>1. DataJoins(v, c, off, m, r)
        BY DataJoin
    <3> QED
        BY <1>18, <3>1 DEF DataJoins
  <2>5. len - Len(job[p].out) = r
      BY <2>3, <2>4
  <2>6. PICK out : out = LongerBy(p, job[p].out, r)
      OBVIOUS
  <2>7. Returns(p, out)
      BY <1>2, <1>12, <1>21, <2>5, <2>6 DEF ReadRest, LongerBy
  <2>8. r =< spc /\ (r = 0 \/ k < l)
      BY <1>7, <1>13, <2>1
  <2>9. out = DataOf(v, c, off, len)
      BY <1>19, <2>3, <2>6, <2>8
  <2>10. out = DataOf(job[p].vol, job[p].dir, job[p].off, job[p].len)
      BY <1>2, <1>4, <2>9
  <2> QED
      BY <1>1, <2>7, <2>10, ReturnsReads
<1>22. CASE left # 1
  <2>1. b < more /\ k < l
    <3>1. b = more - left + 1 /\ left > 1
        BY <1>12, <1>22
    <3>2. b < more
        BY <3>1
    <3>3. q + more =< l
        BY <1>7
    <3> QED
        BY <1>13, <3>2, <3>3
  <2>2. PICK out : out = LongerBy(p, job[p].out, spc)
      OBVIOUS
  <2>3. out = DataOf(v, c, off, m + spc)
      BY <1>19, <2>1, <2>2
  <2>4. next = Nth(v, c, k + 1)
    <3>1. ChainSound(v, e.cl)
        BY <1>3, FileSound
    <3>2. ChainSound(v, c)
        BY <1>4, <3>1
    <3>3. Known(i) /\ v = info[i].vol
        BY <1>2
    <3>4. \A n \in Nat : GetFatValue(i, Nth(v, c, n)) = Nth(v, c, n + 1)
        BY <3>2, <3>3, NextOf
    <3> QED
        BY <1>14, <1>20, <3>4
  <2>5. PICK b1 \in Nat, h1 \in Nat : b1 = b + 1 /\ h1 = Place(v, b1, 0) /\ h1 = h + spc
    <3>1. PICK b1 \in Nat : b1 = b + 1
        OBVIOUS
    <3>2. PICK h1 \in Nat : h1 = Place(v, b1, 0)
        BY PlaceIsNat
    <3>3. PICK zero \in Int : zero = 0
        OBVIOUS
    <3>4. Place(v, b + 1, 0) = Place(v, b, 0) + Volumes[v].spc
        BY <3>3, PlaceIs
    <3> QED
        BY <1>6, <1>15, <3>1, <3>2, <3>4
  <2>6. m + spc = h1 - s
      BY <1>7, <1>15, <1>16, <2>5
  <2>7. CASE IsEnd(i, next)
    <3>1. next = Eoc
        BY <2>7 DEF IsEnd
    <3>2. ~ k + 1 < l
      <4> SUFFICES ASSUME k + 1 < l PROVE FALSE
          OBVIOUS
      <4>1. PICK t : t = Chain(v, e.cl)
          OBVIOUS
      <4>2. \A x \in 1 .. Len(t) : t[x] # Eoc
          BY <1>3, <4>1, SoundFile
      <4>3. PICK x \in 1 .. l : x = k + 1 + 1
          BY k + 1 + 1 \in 1 .. l
      <4>4. next = t[k + 1 + 1]
          BY <1>4, <1>7, <2>4, <4>1 DEF Nth
      <4> QED
          BY <1>7, <3>1, <4>1, <4>2, <4>3, <4>4
    <3>3. b1 = more /\ r = 0
        BY <1>7, <1>13, <2>1, <2>5, <3>2
    <3>4. len = m + spc
        BY <1>7, <2>5, <2>6, <3>3
    <3>5. Returns(p, out)
        BY <1>2, <1>6, <1>12, <1>20, <1>22, <2>2, <2>7 DEF ReadRest, LongerBy
    <3>6. out = DataOf(job[p].vol, job[p].dir, job[p].off, job[p].len)
        BY <1>2, <1>4, <2>3, <3>4
    <3> QED
        BY <1>1, <3>5, <3>6, ReturnsReads
  <2>8. CASE ~ IsEnd(i, next)
    <3>1. PICK one \in Nat : one = left - 1
        BY <1>12
    <3>2. PICK j : j = [job[p] EXCEPT !.cl = next, !.left = one, !.out = out]
        OBVIOUS
    <3>3. ReadCluster(p, i, next) /\ job' = [job EXCEPT ![p] = j]
      <4>1. /\ ReadCluster(p, i, next)
            /\ job' = [job EXCEPT ![p].cl = next, ![p].left = @ - 1, ![p].out = out]
          BY <1>2, <1>6, <1>12, <1>20, <1>22, <2>2, <2>8 DEF ReadRest, LongerBy
      <4> QED
          BY <1>12, <3>1, <3>2, <4>1, StateFields
    <3>4. /\ j.op = job[p].op /\ j.vol = v /\ j.i = i /\ j.dir = c /\ j.off = off /\ j.len = len
          /\ j.at = "rest" /\ j.cl = next /\ j.left = one /\ j.out = out
        BY <1>1, <1>2, <1>4, <3>2, AtWork, Fields
    <3>5. RestRight(j)
      <4>1. More(j) = more
          BY <1>6, <1>8, <3>4 DEF More
      <4>2. More(j) - j.left + 1 = b1 /\ j.left \in 1 .. More(j)
          BY <1>12, <1>22, <2>5, <3>1, <3>4, <4>1
      <4>3. out = DataOf(v, c, off, Place(v, b1, 0) - s)
          BY <2>3, <2>5, <2>6
      <4>4. next = Nth(v, c, q + b1)
        <5>1. k + 1 = q + b1
            BY <1>13, <2>5
        <5> QED
            BY <2>4, <5>1
      <4> QED
          BY <1>6, <1>8, <3>4, <4>2, <4>3, <4>4 DEF RestRight
    <3>6. job[p].at \in {"first", "rest"} /\ ReadCluster(p, j.i, j.cl)
        BY <1>1, <3>3, <3>4
    <3> QED
        BY <1>1, <1>2, <1>4, <3>3, <3>4, <3>5, <3>6, OnwardReads
  <2> QED
      BY <2>7, <2>8
<1> QED
    BY <1>21, <1>22
-----------------------------------------------------------------------------
(* The invariant of reads                                                  *)

LEMMA RInit == Init => RInv
<1> SUFFICES ASSUME Init PROVE RInv
    OBVIOUS
<1>1. /\ disk = [d \in Disks |-> [l \in 0 .. Size[d] - 1 |-> 0]]
      /\ io = [p \in Procs |-> NoIo] /\ info = [i \in Slots |-> None] /\ count = 0
      /\ job = [p \in Procs |-> NoJob]
    BY DEF Init, IdeInit
<1>2. Unwritten
    BY <1>1 DEF Unwritten
<1>3. \A i \in Slots : InfoRight(i)
    BY <1>1 DEF InfoRight
<1>4. ASSUME NEW p \in Procs PROVE DriverRight(job[p], io[p]) /\ WritesElsewhere(io[p])
  <2>1. job[p].op = "idle"
      BY <1>1 DEF NoJob
  <2>2. io[p].pc = "idle" /\ ~ io[p].write
      BY <1>1 DEF NoIo
  <2> QED
      BY <2>1, <2>2 DEF DriverRight, WritesElsewhere
<1> QED
    BY <1>1, <1>2, <1>3, <1>4 DEF RInv

LEMMA FatStepsReads ==
    ASSUME QInv, RInv, VolumesSound, NEW p \in Procs, FatSteps(p)
    PROVE  RInv'
<1>1. CASE MountBoot(p)
    BY <1>1, MountBootReads
<1>2. CASE MountFat(p)
    BY <1>2, MountFatReads
<1>3. CASE ReadFirst(p)
    BY <1>3, ReadFirstReads
<1>4. CASE ReadRest(p)
    BY <1>4, ReadRestReads
<1>5. CASE ListEnd(p)
    BY <1>5, ListEndReads
<1>6. CASE ListSkip(p)
    BY <1>6, ListSkipReads
<1>7. CASE ListFile(p)
    BY <1>7, ListFileReads
<1>8. CASE FindEnd(p)
    BY <1>8, FindEndReads
<1>9. CASE FindPart(p)
    BY <1>9, FindPartReads
<1>10. CASE FindFree(p) \/ FindOther(p)
    BY <1>10, FindNextReads
<1>11. CASE FindThis(p)
    BY <1>11, FindThisReads
<1>12. CASE Answered(p)
    BY <1>12, AnsweredReads
<1> QED
    BY <1>1, <1>2, <1>3, <1>4, <1>5, <1>6, <1>7, <1>8, <1>9, <1>10, <1>11, <1>12 DEF FatSteps

LEMMA RNext == VolumesSound /\ QInv /\ RInv /\ [QuietNext]_vars => RInv'
<1> SUFFICES ASSUME VolumesSound, QInv, RInv, [QuietNext]_vars PROVE RInv'
    OBVIOUS
<1>1. ASSUME NEW p \in Procs, NEW v \in DOMAIN Volumes, Quiet, Mount(p, v)
      PROVE  RInv'
    BY <1>1, MountReads
<1>2. ASSUME NEW p \in Procs, NEW i \in Slots, Known(i), Quiet,
             Reads(p, i) \/ QuietLists(p, i) \/ Finds(p, i)
      PROVE  RInv'
  <2>1. CASE Reads(p, i)
    <3>1. PICK a \in ReadArgs[info[i].vol] : Read(p, i, a[1], a[2], a[3])
        BY <2>1 DEF Reads
    <3> QED
        BY <1>2, <3>1, ReadReads
  <2>2. CASE QuietLists(p, i)
    <3>1. PICK a : List(p, i, a[1], a[2])
        BY <2>2 DEF QuietLists
    <3>2. PICK dir, dp : List(p, i, dir, dp)
        BY <3>1
    <3> QED
        BY <1>2, <3>2, ListReads
  <2>3. CASE Finds(p, i)
    <3>1. PICK a : Find(p, i, a[1], a[2])
        BY <2>3 DEF Finds
    <3>2. PICK dir, name : Find(p, i, dir, name)
        BY <3>1
    <3> QED
        BY <1>2, <3>2, FindReads
  <2> QED
      BY <1>2, <2>1, <2>2, <2>3
<1>3. ASSUME NEW p \in Procs, NEW d, NEW l, NEW w, Raw(p, w, d, l)
      PROVE  RInv'
    BY <1>3, RawReads
<1>4. ASSUME NEW p \in Procs, FatSteps(p) PROVE RInv'
    BY <1>4, FatStepsReads
<1>5. ASSUME NEW p \in Procs, Ask(p) PROVE RInv'
    BY <1>5, AskReads
<1>6. ASSUME NEW p \in Procs, QuietMoves(p), UNCHANGED fatVars PROVE RInv'
    BY <1>6, CommandReads, TakeReads, PutReads DEF QuietMoves
<1>7. ASSUME Closes PROVE RInv'
  <2>1. UNCHANGED <<ideVars, info, count, pos, job>>
      BY <1>7 DEF Closes, Close
  <2> QED
      BY <2>1, SameReads
<1>8. ASSUME UNCHANGED vars PROVE RInv'
  <2>1. UNCHANGED <<ideVars, info, count, pos, job>>
      BY <1>8 DEF vars, fatVars
  <2> QED
      BY <2>1, SameReads
<1> QED
    BY <1>1, <1>2, <1>3, <1>4, <1>5, <1>6, <1>7, <1>8 DEF QuietNext

LEMMA RInvReadRight == QInv /\ RInv => ReadRight
<1> SUFFICES ASSUME QInv, RInv, NEW p \in Procs, job[p].at = "ready"
             PROVE  LET b == Volumes[job[p].vol]
                        s == FileSectors[job[p].vol][job[p].dir]
                    IN  job[p].out = [j \in 1 .. job[p].len |-> <<b.disk, Lba(b.disk, b.part, s[job[p].off + j]), 0>>]
    BY DEF ReadRight
<1>1. job[p].op # "idle" /\ job[p].vol \in DOMAIN Volumes /\ job[p].dir \in Nat
    BY AtWork
<1>2. DriverRight(job[p], io[p])
    BY DEF RInv
<1>3. ReadingRight(job[p])
    BY <1>1, <1>2 DEF DriverRight, MountRight
<1>4. PICK v \in DOMAIN Volumes, c \in Nat, off \in Nat, len \in Nat :
          v = job[p].vol /\ c = job[p].dir /\ off = job[p].off /\ len = job[p].len
    BY <1>1, <1>3 DEF ReadingRight
<1>5. job[p].out = DataOf(v, c, off, len) /\ Asked(v, c, off, len)
    BY <1>3, <1>4 DEF ReadingRight
<1>6. FileSectors[v][c] = ChainSectors(v, c)
  <2>1. c \in {e.cl : e \in {f \in All(v) : f.t = "file"}}
      BY <1>5 DEF Asked
  <2> QED
      BY <2>1 DEF FileSectors
<1> QED
    BY <1>4, <1>5, <1>6 DEF DataOf, Content

(* What FAT_Read() returns is the sectors of the file from where it was    *)
(* asked to read, as many as asked, whichever clusters they are in, with   *)
(* the table read as FAT_Mount() read it; of volumes whose tables hold     *)
(* what the files of their directories need.                               *)
THEOREM ReadsAreRight == ASSUME VolumesSound PROVE QuietSpec => []ReadRight
<1>1. QInv /\ RInv => ReadRight
    BY RInvReadRight
<1>2. QInv /\ RInv /\ [QuietNext]_vars => (QInv /\ RInv)'
    BY QNext, RNext
<1>3. Init => QInv /\ RInv
    BY QInit, RInit
<1> QED
    BY <1>1, <1>2, <1>3, PTL DEF QuietSpec
-----------------------------------------------------------------------------
(* What a channel delivers and waits for is part of what it was told, and  *)
(* it does one of the two.                                                 *)
ChannelRight(c) ==
    /\ regs[c] = NoAddress \/ (regs[c].disk \in Disks /\ regs[c].n \in Nat)
    /\ \E S : stream[c] \in Seq(S)
    /\ \E S : asks[c] \in Seq(S)
    /\ Len(stream[c]) =< regs[c].n /\ Len(asks[c]) =< regs[c].n
    /\ stream[c] = <<>> \/ asks[c] = <<>>

LEMMA ChannelStep ==
    ASSUME QInv, \A c \in Channels : ChannelRight(c), NEW d \in Channels, ChannelRight(d)',
           \A c \in Channels : c # d => regs'[c] = regs[c] /\ stream'[c] = stream[c] /\ asks'[c] = asks[c]
    PROVE  \A c \in Channels : ChannelRight(c)'
<1>1. ASSUME NEW c \in Channels, c # d PROVE ChannelRight(c)'
  <2>1. PICK r, s, a : r = regs[c] /\ s = stream[c] /\ a = asks[c]
      OBVIOUS
  <2>2. regs'[c] = r /\ stream'[c] = s /\ asks'[c] = a
      BY <1>1, <2>1
  <2>3. ChannelRight(c)
      OBVIOUS
  <2> QED
      BY <2>1, <2>2, <2>3 DEF ChannelRight
<1> QED
    BY <1>1

LEMMA NoAddressIs == NoAddress.n = 0 /\ NoAddress.n \in Nat
    BY DEF NoAddress

LEMMA ChannelTyped ==
    ASSUME NEW c \in Channels, ChannelRight(c)
    PROVE  /\ regs[c].n \in Nat /\ Len(stream[c]) \in Nat /\ Len(asks[c]) \in Nat
           /\ stream[c] # <<>> => Len(stream[c]) > 0
BY NoAddressIs DEF ChannelRight

LEMMA CommandChannels ==
    ASSUME QInv, \A c \in Channels : ChannelRight(c), NEW p \in Procs, Command(p)
    PROVE  \A c \in Channels : ChannelRight(c)'
<1>1. PICK x : x = io[p]
    OBVIOUS
<1>2. x.pc = "setup" /\ x.disk \in Disks /\ x.n \in Nat
    BY <1>1 DEF QInv, IoRight, Command
<1>3. PICK d \in Channels : d = Channel(x.disk)
    BY <1>2, DisksAre
<1>4. PICK a : a = [disk |-> x.disk, lba |-> x.lba, n |-> x.n]
    OBVIOUS
<1>5. a.disk = x.disk /\ a.lba = x.lba /\ a.n = x.n
    BY <1>4
<1>6. regs' = [regs EXCEPT ![d] = a] /\ regs'[d] = a
    BY <1>1, <1>3, <1>4 DEF Command, Addressed, QInv, StateTypeOK
<1>7. Starts(p, a)
    BY <1>1, <1>3, <1>6 DEF Command
<1>8. PICK s, w : /\ s = (IF x.write THEN <<>> ELSE Sectors(a))
                  /\ w = (IF x.write THEN [j \in 1 .. a.n |-> <<a.disk, a.lba + j - 1>>] ELSE <<>>)
    OBVIOUS
<1>9. stream' = [stream EXCEPT ![d] = s] /\ asks' = [asks EXCEPT ![d] = w]
    BY <1>1, <1>3, <1>7, <1>8 DEF Starts
<1>10. stream'[d] = s /\ asks'[d] = w
    BY <1>9 DEF QInv, StateTypeOK
<1>11. (\E S : s \in Seq(S)) /\ Len(s) =< x.n
  <2>1. CASE x.write
      BY <1>2, <1>8, <2>1
  <2>2. CASE ~ x.write
    <3>1. PICK n \in Nat : n = x.n
        BY <1>2
    <3>2. PICK S : S = {Sectors(a)[j] : j \in 1 .. n}
        OBVIOUS
    <3>3. Sectors(a) = [j \in 1 .. n |-> Sectors(a)[j]]
        BY <1>5, <3>1 DEF Sectors
    <3>4. s \in Seq(S) /\ Len(s) = n
        BY <1>8, <2>2, <3>2, <3>3
    <3> QED
        BY <3>1, <3>4
  <2> QED
      BY <2>1, <2>2
<1>12. (\E S : w \in Seq(S)) /\ Len(w) =< x.n
  <2>1. CASE ~ x.write
      BY <1>2, <1>8, <2>1
  <2>2. CASE x.write
    <3>1. PICK n \in Nat : n = x.n
        BY <1>2
    <3>2. PICK S : S = {w[j] : j \in 1 .. n}
        OBVIOUS
    <3>3. w = [j \in 1 .. n |-> w[j]]
        BY <1>5, <1>8, <2>2, <3>1
    <3>4. w \in Seq(S) /\ Len(w) = n
        BY <3>2, <3>3
    <3> QED
        BY <3>1, <3>4
  <2> QED
      BY <2>1, <2>2
<1>13. ChannelRight(d)'
    BY <1>2, <1>5, <1>6, <1>8, <1>10, <1>11, <1>12 DEF ChannelRight
<1>14. \A c \in Channels : c # d => regs'[c] = regs[c] /\ stream'[c] = stream[c] /\ asks'[c] = asks[c]
    BY <1>6, <1>9 DEF QInv, StateTypeOK
<1> QED
    BY <1>13, <1>14, ChannelStep

LEMMA TailIs ==
    ASSUME NEW S, NEW s \in Seq(S), s # <<>>
    PROVE  Tail(s) \in Seq(S) /\ Len(Tail(s)) = Len(s) - 1 /\ Len(s) \in Nat
OBVIOUS

LEMMA TakeChannels ==
    ASSUME QInv, \A c \in Channels : ChannelRight(c), NEW p \in Procs, Take(p)
    PROVE  \A c \in Channels : ChannelRight(c)'
<1>1. PICK x : x = io[p]
    OBVIOUS
<1>2. IoRight(x) /\ x.pc = "take"
    BY <1>1 DEF QInv, Take
<1>3. PICK d \in Channels : d = Channel(x.disk)
    BY <1>2, DisksAre DEF IoRight
<1>4. ChannelRight(d)
    OBVIOUS
<1>5. PICK S : stream[d] \in Seq(S)
    BY <1>4 DEF ChannelRight
<1>6. stream[d] # <<>>
  <2>1. PICK n \in Nat : n = x.n - Len(x.got) /\ n > 0
      BY <1>2 DEF IoRight
  <2>2. stream[d] = [j \in 1 .. n |-> Holds(x.disk, x.lba + Len(x.got) + j - 1)]
      BY <1>2, <1>3, <2>1 DEF IoRight
  <2>3. DOMAIN stream[d] = 1 .. n
      BY <2>2
  <2>4. 1 \in DOMAIN stream[d]
      BY <2>1, <2>3
  <2> QED
      BY <2>4
<1>7. asks[d] = <<>>
    BY <1>4, <1>6 DEF ChannelRight
<1>8. PICK t : t = Tail(stream[d])
    OBVIOUS
<1>9. t \in Seq(S) /\ Len(t) = Len(stream[d]) - 1 /\ Len(stream[d]) \in Nat
    BY <1>5, <1>6, <1>8, TailIs
<1>10. stream' = [stream EXCEPT ![d] = t] /\ asks' = asks
    BY <1>1, <1>3, <1>6, <1>8 DEF Take
<1>11. stream'[d] = t /\ asks'[d] = <<>>
    BY <1>7, <1>10 DEF QInv, StateTypeOK
<1>12. regs' = [regs EXCEPT ![d] = IF t = <<>> THEN NoAddress ELSE regs[d]]
    BY <1>1, <1>3, <1>11 DEF Take
<1>13. regs'[d] = IF t = <<>> THEN NoAddress ELSE regs[d]
    BY <1>12 DEF QInv, StateTypeOK
<1>14. regs'[d] = NoAddress \/ (regs'[d].disk \in Disks /\ regs'[d].n \in Nat)
    BY <1>4, <1>13 DEF ChannelRight
<1>15. Len(t) =< regs'[d].n /\ 0 =< regs'[d].n
    BY <1>4, <1>9, <1>13, NoAddressIs, ChannelTyped DEF ChannelRight
<1>16. ChannelRight(d)'
  <2>1. \E T : asks'[d] \in Seq(T)
      BY <1>11
  <2>2. Len(asks'[d]) = 0
      BY <1>11
  <2> QED
      BY <1>9, <1>11, <1>14, <1>15, <2>1, <2>2 DEF ChannelRight
<1>17. \A c \in Channels : c # d => regs'[c] = regs[c] /\ stream'[c] = stream[c] /\ asks'[c] = asks[c]
    BY <1>10, <1>12 DEF QInv, StateTypeOK
<1> QED
    BY <1>16, <1>17, ChannelStep

LEMMA PutChannels ==
    ASSUME QInv, \A c \in Channels : ChannelRight(c), NEW p \in Procs, Put(p)
    PROVE  \A c \in Channels : ChannelRight(c)'
<1>1. PICK d \in Channels : d = 0
    BY DEF Channels
<1>2. io[p].pc = "put" /\ asks[d] = <<<<io[p].disk, io[p].lba>>>>
    BY <1>1 DEF QInv, IoRight, Put
<1>3. ChannelRight(d)
    OBVIOUS
<1>4. asks[d] # <<>> /\ Tail(asks[d]) = <<>>
    BY <1>2
<1>5. stream[d] = <<>>
    BY <1>3, <1>4 DEF ChannelRight
<1>6. asks' = [asks EXCEPT ![d] = <<>>] /\ stream' = stream
    BY <1>1, <1>4 DEF Put, Port
<1>7. asks'[d] = <<>> /\ stream'[d] = <<>>
    BY <1>5, <1>6 DEF QInv, StateTypeOK
<1>8. regs' = [regs EXCEPT ![d] = NoAddress]
    BY <1>1, <1>7 DEF Put, Port
<1>9. regs'[d] = NoAddress
    BY <1>8 DEF QInv, StateTypeOK
<1>10. ChannelRight(d)'
  <2>1. \E T : <<>> \in Seq(T)
      OBVIOUS
  <2>2. Len(<<>>) = 0
      OBVIOUS
  <2> QED
      BY <1>7, <1>9, <2>1, <2>2, NoAddressIs DEF ChannelRight
<1>11. \A c \in Channels : c # d => regs'[c] = regs[c] /\ stream'[c] = stream[c] /\ asks'[c] = asks[c]
    BY <1>6, <1>8 DEF QInv, StateTypeOK
<1> QED
    BY <1>10, <1>11, ChannelStep
-----------------------------------------------------------------------------
(* An entry that is taken out of a list.                                   *)
LEMMA RemoveAtFacts ==
    ASSUME NEW S, NEW s \in Seq(S), NEW k \in 1 .. Len(s)
    PROVE  /\ RemoveAt(s, k) \in Seq(S)
           /\ Len(RemoveAt(s, k)) = Len(s) - 1
           /\ \A i \in 1 .. Len(s) - 1 : RemoveAt(s, k)[i] = IF i < k THEN s[i] ELSE s[i + 1]
<1>1. Len(s) \in Nat /\ k \in Nat /\ k >= 1 /\ k <= Len(s)
    OBVIOUS
<1> DEFINE a == SubSeq(s, 1, k - 1)
           b == SubSeq(s, k + 1, Len(s))
<1>2. a \in Seq(S) /\ Len(a) = k - 1 /\ \A i \in 1 .. k - 1 : a[i] = s[i]
    BY <1>1
<1>3. b \in Seq(S) /\ Len(b) = Len(s) - k /\ \A i \in 1 .. Len(s) - k : b[i] = s[k + i]
    BY <1>1
<1>4. RemoveAt(s, k) = a \o b
    BY DEF RemoveAt
<1> HIDE DEF a, b
<1>5. a \o b \in Seq(S) /\ Len(a \o b) = Len(s) - 1
  <2>1. a \in Seq(S) /\ b \in Seq(S)
      BY <1>2, <1>3
  <2>2. a \o b \in Seq(S) /\ Len(a \o b) = Len(a) + Len(b)
      BY <2>1, ConcatProperties
  <2> QED
      BY <1>1, <1>2, <1>3, <2>2
<1>6. ASSUME NEW i \in 1 .. Len(s) - 1 PROVE (a \o b)[i] = IF i < k THEN s[i] ELSE s[i + 1]
  <2>1. CASE i < k
      BY <1>1, <1>2, <1>3, <2>1
  <2>2. CASE ~ (i < k)
    <3>1. (a \o b)[i] = b[i - (k - 1)]
        BY <1>1, <1>2, <1>3, <2>2
    <3>2. b[i - (k - 1)] = s[i + 1]
      <4>1. i - (k - 1) \in 1 .. Len(s) - k /\ k + (i - (k - 1)) = i + 1
          BY <1>1, <2>2
      <4> QED
          BY <1>3, <4>1
    <3> QED
        BY <2>2, <3>1, <3>2
  <2> QED
      BY <2>1, <2>2
<1>7. Len(RemoveAt(s, k)) = Len(s) - 1 /\ RemoveAt(s, k) \in Seq(S)
    BY <1>4, <1>5
<1>8. \A i \in 1 .. Len(s) - 1 : RemoveAt(s, k)[i] = IF i < k THEN s[i] ELSE s[i + 1]
    BY <1>4, <1>6, Zenon
<1> QED
    BY <1>7, <1>8

LEMMA PrependFacts ==
    ASSUME NEW S, NEW s \in Seq(S), NEW x, NEW t, t = <<x>> \o s
    PROVE  /\ t \in Seq(S \cup {x}) /\ Len(t) = Len(s) + 1 /\ Len(s) \in Nat
           /\ t[1] = x /\ \A k \in 2 .. Len(t) : k - 1 \in 1 .. Len(s) /\ t[k] = s[k - 1]
<1>1. PICK T : T = S \cup {x}
    OBVIOUS
<1>2. s \in Seq(T) /\ <<x>> \in Seq(T) /\ Len(<<x>>) = 1 /\ <<x>>[1] = x
    BY <1>1
<1>3. PICK u \in Seq(T) : u = <<x>> /\ Len(u) = 1 /\ u[1] = x
    BY <1>2
<1>4. /\ u \o s \in Seq(T) /\ Len(u \o s) = Len(u) + Len(s)
      /\ \A k \in 1 .. Len(u) + Len(s) : (u \o s)[k] = IF k =< Len(u) THEN u[k] ELSE s[k - Len(u)]
    BY <1>2, ConcatProperties
<1>5. t = u \o s
    BY <1>3
<1>6. /\ t \in Seq(T) /\ Len(t) = 1 + Len(s)
      /\ \A k \in 1 .. 1 + Len(s) : t[k] = IF k =< 1 THEN u[k] ELSE s[k - 1]
    BY <1>3, <1>4, <1>5
<1>7. PICK n \in Nat : n = Len(s)
    OBVIOUS
<1> QED
    BY <1>1, <1>3, <1>6, <1>7

(* A directory has one buffer, and a cluster one node.                     *)
IsBuffer(e) == e = [i |-> e.i, dir |-> e.dir, name |-> e.name]
SameBuffer(e, f) == e.i = f.i /\ e.dir = f.dir
SameNode(e, f) == e.i = f.i /\ e.cl = f.cl
BuffersRight(s) ==
    /\ \E S : s \in Seq(S)
    /\ \A k \in 1 .. Len(s) : IsBuffer(s[k])
    /\ \A k, m \in 1 .. Len(s) : k # m => ~ SameBuffer(s[k], s[m])
NodesRight(s) ==
    /\ \E S : s \in Seq(S)
    /\ \A k, m \in 1 .. Len(s) : k # m => ~ SameNode(s[k], s[m])

LEMMA BuffersLess ==
    ASSUME NEW s, BuffersRight(s), NEW k \in 1 .. Len(s)
    PROVE  BuffersRight(RemoveAt(s, k))
<1>1. PICK S : s \in Seq(S)
    BY DEF BuffersRight
<1>2. PICK t : t = RemoveAt(s, k)
    OBVIOUS
<1>3. /\ t \in Seq(S) /\ Len(t) = Len(s) - 1 /\ Len(s) \in Nat
      /\ \A m \in 1 .. Len(s) - 1 : t[m] = IF m < k THEN s[m] ELSE s[m + 1]
  <2>1. /\ RemoveAt(s, k) \in Seq(S) /\ Len(RemoveAt(s, k)) = Len(s) - 1
        /\ \A m \in 1 .. Len(s) - 1 : RemoveAt(s, k)[m] = IF m < k THEN s[m] ELSE s[m + 1]
      BY <1>1, RemoveAtFacts
  <2>2. Len(s) \in Nat
      BY <1>1
  <2> QED
      BY <1>2, <2>1, <2>2
<1>4. \A m \in 1 .. Len(t) : \E x \in 1 .. Len(s) : t[m] = s[x] /\ x = IF m < k THEN m ELSE m + 1
    BY <1>3
<1>5. \A m \in 1 .. Len(t) : IsBuffer(t[m])
    BY <1>4 DEF BuffersRight
<1>6. ASSUME NEW m \in 1 .. Len(t), NEW n \in 1 .. Len(t), m # n PROVE ~ SameBuffer(t[m], t[n])
  <2>1. PICK x \in 1 .. Len(s) : t[m] = s[x] /\ x = IF m < k THEN m ELSE m + 1
      BY <1>4
  <2>2. PICK y \in 1 .. Len(s) : t[n] = s[y] /\ y = IF n < k THEN n ELSE n + 1
      BY <1>4
  <2>3. x # y
      BY <1>6, <2>1, <2>2
  <2> QED
      BY <2>1, <2>2, <2>3 DEF BuffersRight
<1> QED
    BY <1>2, <1>3, <1>5, <1>6 DEF BuffersRight

LEMMA NodesLess ==
    ASSUME NEW s, NodesRight(s), NEW k \in 1 .. Len(s)
    PROVE  NodesRight(RemoveAt(s, k))
<1>1. PICK S : s \in Seq(S)
    BY DEF NodesRight
<1>2. PICK t : t = RemoveAt(s, k)
    OBVIOUS
<1>3. /\ t \in Seq(S) /\ Len(t) = Len(s) - 1 /\ Len(s) \in Nat
      /\ \A m \in 1 .. Len(s) - 1 : t[m] = IF m < k THEN s[m] ELSE s[m + 1]
  <2>1. /\ RemoveAt(s, k) \in Seq(S) /\ Len(RemoveAt(s, k)) = Len(s) - 1
        /\ \A m \in 1 .. Len(s) - 1 : RemoveAt(s, k)[m] = IF m < k THEN s[m] ELSE s[m + 1]
      BY <1>1, RemoveAtFacts
  <2>2. Len(s) \in Nat
      BY <1>1
  <2> QED
      BY <1>2, <2>1, <2>2
<1>4. \A m \in 1 .. Len(t) : \E x \in 1 .. Len(s) : t[m] = s[x] /\ x = IF m < k THEN m ELSE m + 1
    BY <1>3
<1>5. ASSUME NEW m \in 1 .. Len(t), NEW n \in 1 .. Len(t), m # n PROVE ~ SameNode(t[m], t[n])
  <2>1. PICK x \in 1 .. Len(s) : t[m] = s[x] /\ x = IF m < k THEN m ELSE m + 1
      BY <1>4
  <2>2. PICK y \in 1 .. Len(s) : t[n] = s[y] /\ y = IF n < k THEN n ELSE n + 1
      BY <1>4
  <2>3. x # y
      BY <1>5, <2>1, <2>2
  <2> QED
      BY <2>1, <2>2, <2>3 DEF NodesRight
<1> QED
    BY <1>2, <1>3, <1>5 DEF NodesRight

LEMMA NewBufferRight ==
    ASSUME BuffersRight(lfn), NEW i, NEW dir
    PROVE  BuffersRight(WithBuffer(i, dir))
<1>1. CASE Of(i, dir) # {}
    BY <1>1 DEF WithBuffer
<1>2. CASE Of(i, dir) = {}
  <2>1. PICK S : lfn \in Seq(S)
      BY DEF BuffersRight
  <2>2. PICK e : e = [i |-> i, dir |-> dir, name |-> <<>>]
      OBVIOUS
  <2>3. e.i = i /\ e.dir = dir /\ IsBuffer(e)
      BY <2>2 DEF IsBuffer
  <2>4. PICK t : t = <<e>> \o lfn
      OBVIOUS
  <2>5. /\ t \in Seq(S \cup {e}) /\ Len(t) = Len(lfn) + 1 /\ Len(lfn) \in Nat
        /\ t[1] = e /\ \A k \in 2 .. Len(t) : k - 1 \in 1 .. Len(lfn) /\ t[k] = lfn[k - 1]
      BY <2>1, <2>4, PrependFacts
  <2>6. \A k \in 1 .. Len(lfn) : ~ SameBuffer(lfn[k], e)
      BY <1>2, <2>1, <2>3 DEF Of, SameBuffer
  <2>7. \A k \in 1 .. Len(t) : k = 1 \/ k \in 2 .. Len(t)
      BY <2>5
  <2>8. ASSUME NEW k \in 1 .. Len(t) PROVE IsBuffer(t[k])
      BY <2>3, <2>5, <2>7 DEF BuffersRight
  <2>9. ASSUME NEW k \in 1 .. Len(t), NEW m \in 1 .. Len(t), k # m PROVE ~ SameBuffer(t[k], t[m])
    <3>1. CASE k = 1
      <4>1. m \in 2 .. Len(t)
          BY <2>7, <2>9, <3>1
      <4> QED
          BY <2>5, <2>6, <3>1, <4>1 DEF SameBuffer
    <3>2. CASE m = 1
      <4>1. k \in 2 .. Len(t)
          BY <2>7, <2>9, <3>2
      <4> QED
          BY <2>5, <2>6, <3>2, <4>1 DEF SameBuffer
    <3>3. CASE k # 1 /\ m # 1
      <4>1. k \in 2 .. Len(t) /\ m \in 2 .. Len(t)
          BY <2>7, <3>3
      <4>2. k - 1 # m - 1
          BY <2>9, <4>1
      <4> QED
          BY <2>5, <4>1, <4>2 DEF BuffersRight
    <3> QED
        BY <3>1, <3>2, <3>3
  <2>10. BuffersRight(t)
      BY <2>5, <2>8, <2>9 DEF BuffersRight
  <2> QED
      BY <1>2, <2>2, <2>4, <2>10 DEF WithBuffer, NewBuffer
<1> QED
    BY <1>1, <1>2

LEMMA NotedRight ==
    ASSUME BuffersRight(lfn), NEW i, NEW dir, NEW name
    PROVE  BuffersRight(Noted(i, dir, name))
<1>1. PICK s : s = WithBuffer(i, dir)
    OBVIOUS
<1>2. BuffersRight(s)
    BY <1>1, NewBufferRight
<1>3. PICK S : s \in Seq(S)
    BY <1>2 DEF BuffersRight
<1>4. PICK n \in Nat : n = Len(s) /\ DOMAIN s = 1 .. n
    BY <1>3
<1>5. PICK t : t = Noted(i, dir, name)
    OBVIOUS
<1>6. t = [k \in 1 .. n |-> IF s[k].i = i /\ s[k].dir = dir THEN [s[k] EXCEPT !.name = name] ELSE s[k]]
    BY <1>1, <1>4, <1>5 DEF Noted
<1>7. PICK T : T = {t[k] : k \in 1 .. n}
    OBVIOUS
<1>8. t \in Seq(T) /\ Len(t) = n
  <2>1. t = [k \in 1 .. n |-> t[k]]
      BY <1>6
  <2>2. t \in [1 .. n -> T]
      BY <1>7, <2>1
  <2> QED
      BY <1>4, <2>2
<1>9. ASSUME NEW k \in 1 .. n PROVE IsBuffer(t[k]) /\ SameBuffer(t[k], s[k])
  <2>1. PICK e : e = s[k]
      OBVIOUS
  <2>2. e = [i |-> e.i, dir |-> e.dir, name |-> e.name]
      BY <1>2, <1>4, <2>1 DEF BuffersRight, IsBuffer
  <2>3. t[k] = [e EXCEPT !.name = name] \/ t[k] = e
      BY <1>6, <2>1
  <2>4. [e EXCEPT !.name = name] = [i |-> e.i, dir |-> e.dir, name |-> name]
      BY <2>2
  <2>5. CASE t[k] = e
      BY <2>1, <2>2, <2>5 DEF IsBuffer, SameBuffer
  <2>6. CASE t[k] = [i |-> e.i, dir |-> e.dir, name |-> name]
      BY <2>1, <2>6 DEF IsBuffer, SameBuffer
  <2> QED
      BY <2>3, <2>4, <2>5, <2>6
<1>10. ASSUME NEW k \in 1 .. n, NEW m \in 1 .. n, k # m PROVE ~ SameBuffer(t[k], t[m])
  <2>1. ~ SameBuffer(s[k], s[m])
      BY <1>2, <1>4, <1>10 DEF BuffersRight
  <2>2. SameBuffer(t[k], s[k]) /\ SameBuffer(t[m], s[m])
      BY <1>9
  <2> QED
      BY <2>1, <2>2 DEF SameBuffer
<1> QED
    BY <1>5, <1>8, <1>9, <1>10 DEF BuffersRight

LEMMA EmptyRight == BuffersRight(<<>>) /\ NodesRight(<<>>)
<1>1. <<>> \in Seq({}) /\ Len(<<>>) = 0
    OBVIOUS
<1> QED
    BY <1>1 DEF BuffersRight, NodesRight

LEMMA WithoutBufferRight ==
    ASSUME BuffersRight(lfn), NEW i, NEW dir
    PROVE  BuffersRight(WithoutBuffer(i, dir))
<1>1. PICK S : lfn \in Seq(S)
    BY DEF BuffersRight
<1>2. PICK n \in Nat : n = Len(lfn) /\ DOMAIN lfn = 1 .. n
    BY <1>1
<1>3. PICK at : at = {k \in Of(i, dir) : k < Len(lfn)}
    OBVIOUS
<1>4. WithoutBuffer(i, dir) = IF n = 1 THEN <<>> ELSE IF at = {} THEN lfn ELSE RemoveAt(lfn, Min(at) + 1)
    BY <1>2, <1>3 DEF WithoutBuffer
<1>5. CASE n = 1
    BY <1>4, <1>5, EmptyRight
<1>6. CASE n # 1 /\ at = {}
    BY <1>4, <1>6
<1>7. CASE n # 1 /\ at # {}
  <2>1. at \subseteq Nat /\ \A k \in at : k \in 1 .. n /\ k < n
      BY <1>2, <1>3 DEF Of
  <2>2. Min(at) \in at
      BY <1>7, <2>1, LeastOf
  <2>3. PICK a \in Nat : a = Min(at) /\ a < n
      BY <2>1, <2>2
  <2>4. PICK k \in 1 .. Len(lfn) : k = a + 1
      BY <1>2, <2>3
  <2>5. BuffersRight(RemoveAt(lfn, k))
      BY BuffersLess
  <2> QED
      BY <1>4, <1>7, <2>3, <2>4, <2>5
<1> QED
    BY <1>5, <1>6, <1>7

LEMMA WithoutNodeRight ==
    ASSUME NEW s, NodesRight(s), NEW i, NEW c
    PROVE  NodesRight(WithoutNode(s, i, c))
<1>1. PICK S : s \in Seq(S)
    BY DEF NodesRight
<1>2. PICK n \in Nat : n = Len(s) /\ DOMAIN s = 1 .. n
    BY <1>1
<1>3. PICK at : at = At(s, i, c) \ {1}
    OBVIOUS
<1>4. WithoutNode(s, i, c) = IF at = {} THEN s ELSE RemoveAt(s, Min(at))
    BY <1>3 DEF WithoutNode
<1>5. CASE at # {}
  <2>1. at \subseteq Nat /\ at \subseteq 1 .. n
      BY <1>2, <1>3 DEF At
  <2>2. PICK k \in 1 .. Len(s) : k = Min(at)
      BY <1>2, <1>5, <2>1, LeastOf
  <2>3. NodesRight(RemoveAt(s, k))
      BY NodesLess
  <2> QED
      BY <1>4, <1>5, <2>2, <2>3
<1> QED
    BY <1>4, <1>5

LEMMA WithNodeRight ==
    ASSUME NodesRight(nodes), NEW i, NEW e, NEW name
    PROVE  NodesRight(WithNode(i, e, name))
<1>1. CASE At(nodes, i, e.cl) # {}
    BY <1>1 DEF WithNode
<1>2. CASE At(nodes, i, e.cl) = {}
  <2>1. PICK S : nodes \in Seq(S)
      BY DEF NodesRight
  <2>2. PICK called : called = IF name # <<>> THEN name ELSE <<e.name>>
      OBVIOUS
  <2>3. PICK d : d = [i |-> i, cl |-> e.cl, dir |-> e.dir, name |-> called]
      OBVIOUS
  <2>4. d.i = i /\ d.cl = e.cl
      BY <2>3
  <2>5. PICK t : t = <<d>> \o nodes
      OBVIOUS
  <2>6. /\ t \in Seq(S \cup {d}) /\ Len(t) = Len(nodes) + 1 /\ Len(nodes) \in Nat
        /\ t[1] = d /\ \A k \in 2 .. Len(t) : k - 1 \in 1 .. Len(nodes) /\ t[k] = nodes[k - 1]
      BY <2>1, <2>5, PrependFacts
  <2>7. \A k \in 1 .. Len(nodes) : ~ SameNode(nodes[k], d)
      BY <1>2, <2>1, <2>4 DEF At, SameNode
  <2>8. \A k \in 1 .. Len(t) : k = 1 \/ k \in 2 .. Len(t)
      BY <2>6
  <2>9. ASSUME NEW k \in 1 .. Len(t), NEW m \in 1 .. Len(t), k # m PROVE ~ SameNode(t[k], t[m])
    <3>1. CASE k = 1
      <4>1. m \in 2 .. Len(t)
          BY <2>8, <2>9, <3>1
      <4> QED
          BY <2>6, <2>7, <3>1, <4>1 DEF SameNode
    <3>2. CASE m = 1
      <4>1. k \in 2 .. Len(t)
          BY <2>8, <2>9, <3>2
      <4> QED
          BY <2>6, <2>7, <3>2, <4>1 DEF SameNode
    <3>3. CASE k # 1 /\ m # 1
      <4>1. k \in 2 .. Len(t) /\ m \in 2 .. Len(t)
          BY <2>8, <3>3
      <4>2. k - 1 # m - 1
          BY <2>9, <4>1
      <4> QED
          BY <2>6, <4>1, <4>2 DEF NodesRight
    <3> QED
        BY <3>1, <3>2, <3>3
  <2>10. NodesRight(t)
      BY <2>6, <2>9 DEF NodesRight
  <2> QED
      BY <1>2, <2>2, <2>3, <2>5, <2>10 DEF WithNode
<1> QED
    BY <1>1, <1>2

KeysRight == BuffersRight(lfn) /\ NodesRight(nodes)

LEMMA FatStepKeys ==
    ASSUME KeysRight, NEW p, FatSteps(p)
    PROVE  BuffersRight(lfn') /\ NodesRight(nodes')
<1>1. BuffersRight(lfn) /\ NodesRight(nodes)
    BY DEF KeysRight
<1>2. CASE ListSkip(p)
  <2>1. lfn' = lfn \/ (\E name : lfn' = Noted(job[p].i, job[p].dir, name)) \/ lfn' = WithBuffer(job[p].i, job[p].dir)
      BY <1>2 DEF ListSkip
  <2>2. nodes' = nodes
      BY <1>2 DEF ListSkip
  <2> QED
      BY <1>1, <2>1, <2>2, NewBufferRight, NotedRight
<1>3. CASE ListFile(p)
  <2>1. \E c : lfn' = WithoutBuffer(job[p].i, c) \/ lfn' = WithBuffer(job[p].i, job[p].dir)
               \/ lfn' = Noted(job[p].i, job[p].dir, <<>>)
      BY <1>3 DEF ListFile
  <2>2. \E e, name, c : nodes' = WithoutNode(WithNode(job[p].i, e, name), job[p].i, c)
      BY <1>3 DEF ListFile
  <2> QED
      BY <1>1, <2>1, <2>2, NewBufferRight, NotedRight, WithoutBufferRight, WithNodeRight, WithoutNodeRight
<1>4. CASE FindPart(p) \/ FindOther(p) \/ FindThis(p)
  <2>1. \E name : lfn' = Noted(job[p].i, job[p].dir, name)
      BY <1>4 DEF FindPart, FindOther, FindThis
  <2>2. nodes' = nodes \/ \E e, name : nodes' = WithNode(job[p].i, e, name)
      BY <1>4 DEF FindPart, FindOther, FindThis
  <2> QED
      BY <1>1, <2>1, <2>2, NotedRight, WithNodeRight
<1>5. CASE \/ MountBoot(p) \/ MountFat(p) \/ ReadFirst(p) \/ ReadRest(p) \/ ListEnd(p) \/ FindEnd(p) \/ FindFree(p)
           \/ Answered(p)
    BY <1>1, <1>5 DEF MountBoot, MountFat, ReadFirst, ReadRest, ListEnd, FindEnd, FindFree, Answered
<1> QED
    BY <1>2, <1>3, <1>4, <1>5 DEF FatSteps

LEMMA KeysNext == KeysRight /\ [QuietNext]_vars => KeysRight'
<1> SUFFICES ASSUME KeysRight, [QuietNext]_vars PROVE KeysRight'
    OBVIOUS
<1>1. BuffersRight(lfn) /\ NodesRight(nodes)
    BY DEF KeysRight
<1>2. SUFFICES BuffersRight(lfn') /\ NodesRight(nodes')
    BY DEF KeysRight, NodesRight, BuffersRight, IsBuffer, SameBuffer, SameNode
<1>3. ASSUME NEW p \in Procs, FatSteps(p) PROVE BuffersRight(lfn') /\ NodesRight(nodes')
    BY <1>3, FatStepKeys
<1>4. ASSUME NEW p \in Procs, NEW i \in Slots, Reads(p, i) \/ QuietLists(p, i)
      PROVE  BuffersRight(lfn') /\ NodesRight(nodes')
    BY <1>1, <1>4 DEF Reads, QuietLists, Read, List
<1>5. ASSUME NEW p \in Procs, NEW i \in Slots, Finds(p, i)
      PROVE  BuffersRight(lfn') /\ NodesRight(nodes')
  <2>1. \E dir : lfn' = WithBuffer(i, dir) /\ nodes' = nodes
      BY <1>5 DEF Finds, Find
  <2> QED
      BY <1>1, <2>1, NewBufferRight
<1>6. ASSUME Closes PROVE BuffersRight(lfn') /\ NodesRight(nodes')
  <2>1. PICK i, n : Close(i, n)
      BY <1>6 DEF Closes
  <2> QED
      BY <1>1, <2>1, WithoutNodeRight, WithoutBufferRight DEF Close
<1>7. ASSUME \/ UNCHANGED vars
             \/ \E p \in Procs : \/ \E v \in DOMAIN Volumes : Mount(p, v)
                                 \/ \E w, d, l : Raw(p, w, d, l)
                                 \/ Ask(p)
                                 \/ UNCHANGED fatVars
      PROVE  BuffersRight(lfn') /\ NodesRight(nodes')
    BY <1>1, <1>7 DEF vars, fatVars, Mount, Raw, Ask
<1> QED
    BY <1>3, <1>4, <1>5, <1>6, <1>7 DEF QuietNext
-----------------------------------------------------------------------------
(* The handles are in front of their volumes nowhere, what is known of the *)
(* volumes goes by the root, and a listing or a search is in a directory.  *)
Handles == \A i \in Slots : pos[i] \in Nat
RootsKnown == \A i \in Slots : info[i] \in Info => info[i].root = Root(info[i].vol)
Pcs == {"idle", "ask", "setup", "issue", "take", "put", "done", "put_done"}
Searching == {"list", "find"}

WalkRight(j) ==
    /\ Known(j.i) /\ j.dir \in Dirs(j.vol)
    /\ j.at = "find" => IF Fixed(j.vol, j.dir) THEN j.cl = j.dir ELSE \E k \in Nat : j.cl = Nth(j.vol, j.dir, k)
WalksRight ==
    /\ count =< Cardinality(DOMAIN Volumes)
    /\ Handles
    /\ RootsKnown
    /\ \A p \in Procs : io[p].pc \in Pcs /\ (job[p].op \in Searching => WalkRight(job[p]))

LEMMA WalkStep ==
    ASSUME QInv, WalksRight, NEW p \in Procs, NEW j, NEW r,
           job' = [job EXCEPT ![p] = j], io' = [io EXCEPT ![p] = r],
           (\A q \in Procs : q # p => job[q].op = "idle") \/ UNCHANGED <<info, count>>,
           count' =< Cardinality(DOMAIN Volumes), Handles', RootsKnown',
           r.pc \in Pcs, j.op \in Searching => WalkRight(j)'
    PROVE  WalksRight'
<1>1. job = [q \in Procs |-> job[q]] /\ io = [q \in Procs |-> io[q]]
    BY StateFields
<1>2. ASSUME NEW q \in Procs PROVE io'[q].pc \in Pcs /\ (job'[q].op \in Searching => WalkRight(job[q])')
  <2>1. CASE q = p
    <3>1. job'[q] = j /\ io'[q] = r
        BY <1>1, <2>1
    <3> QED
        BY <3>1
  <2>2. CASE q # p
    <3>1. PICK x, y : x = job[q] /\ y = io[q]
        OBVIOUS
    <3>2. job'[q] = x /\ io'[q] = y
        BY <1>1, <2>2, <3>1
    <3>3. y.pc \in Pcs /\ (x.op \in Searching => WalkRight(x))
        BY <3>1 DEF WalksRight
    <3>4. CASE x.op = "idle"
        BY <3>2, <3>3, <3>4 DEF Searching
    <3>5. CASE UNCHANGED <<info, count>>
      <4>1. x.op \in Searching => WalkRight(x)'
          BY <3>3, <3>5 DEF WalkRight, Known
      <4> QED
          BY <3>2, <3>3, <4>1
    <3> QED
        BY <2>2, <3>1, <3>4, <3>5
  <2> QED
      BY <2>1, <2>2
<1> QED
    BY <1>2 DEF WalksRight, Pcs

(* A step that touches nothing known of the volumes.                       *)
LEMMA WalkOn ==
    ASSUME QInv, WalksRight, NEW p \in Procs, NEW j, NEW r,
           job' = [job EXCEPT ![p] = j], io' = [io EXCEPT ![p] = r],
           UNCHANGED <<info, count>>, Handles', r.pc \in Pcs, j.op \in Searching => WalkRight(j)
    PROVE  WalksRight'
<1>1. RootsKnown'
    BY DEF WalksRight, RootsKnown, Info
<1>2. count' =< Cardinality(DOMAIN Volumes)
    BY DEF WalksRight
<1>3. j.op \in Searching => WalkRight(j)'
    BY DEF WalkRight, Known
<1> QED
    BY <1>1, <1>2, <1>3, WalkStep

LEMMA HandleMoves ==
    ASSUME QInv, Handles, NEW i, NEW s \in Nat, pos' = [pos EXCEPT ![i] = s]
    PROVE  Handles'
BY StateFields DEF Handles

LEMMA HandlesSame ==
    ASSUME Handles, UNCHANGED pos
    PROVE  Handles'
BY DEF Handles

LEMMA AfterIsNat ==
    ASSUME QInv, Handles, NEW p \in Procs, job[p].at # ""
    PROVE  After(p) \in Nat
<1>1. PICK i \in Slots : i = job[p].i
    BY AtWork
<1>2. PICK a \in Nat, n \in Nat : a = pos[i] /\ n = io[p].n
    BY <1>1, AtWork DEF Handles
<1>3. a + n \in Nat
    BY NatArith
<1> QED
    BY <1>1, <1>2, <1>3 DEF After

AskedFor(r) == \E v, n : r = Request(FALSE, Volumes[v].disk, 0, n, "ask")

LEMMA AskedPc ==
    ASSUME NEW r, AskedFor(r)
    PROVE  r.pc \in Pcs
<1>1. PICK v, n : r = Request(FALSE, Volumes[v].disk, 0, n, "ask")
    BY DEF AskedFor
<1>2. r.pc = "ask"
    BY <1>1 DEF Request, NoIo
<1> QED
    BY <1>2 DEF Pcs

LEMMA SeekReadWalk ==
    ASSUME QInv, Handles, NEW p \in Procs, NEW v, NEW i, NEW s \in Nat, NEW n, SeekRead(p, v, i, s, n)
    PROVE  Handles' /\ \E r : io' = [io EXCEPT ![p] = r] /\ r.pc \in Pcs
<1>1. PICK r : r = Request(FALSE, Volumes[v].disk, 0, n, "ask")
    OBVIOUS
<1>2. io' = [io EXCEPT ![p] = r] /\ pos' = [pos EXCEPT ![i] = s]
    BY <1>1 DEF SeekRead, Asks, Becomes
<1>3. r.pc \in Pcs
    BY <1>1, AskedPc DEF AskedFor
<1> QED
    BY <1>2, <1>3, HandleMoves

LEMMA ReadOnWalk ==
    ASSUME QInv, Handles, NEW p \in Procs, job[p].at # "", NEW n, ReadOn(p, n)
    PROVE  Handles' /\ \E r : io' = [io EXCEPT ![p] = r] /\ r.pc \in Pcs
<1>1. PICK r : r = Request(FALSE, Volumes[job[p].vol].disk, 0, n, "ask")
    OBVIOUS
<1>2. PICK s \in Nat : s = After(p)
    BY AfterIsNat
<1>3. io' = [io EXCEPT ![p] = r] /\ pos' = [pos EXCEPT ![job[p].i] = s]
    BY <1>1, <1>2 DEF ReadOn, Asks, Becomes
<1>4. r.pc \in Pcs
    BY <1>1, AskedPc DEF AskedFor
<1> QED
    BY <1>3, <1>4, HandleMoves

LEMMA NoIoPc == NoIo.pc \in Pcs /\ NoJob.op \notin Searching
    BY DEF NoIo, Pcs, NoJob, Searching

LEMMA EndsWalk ==
    ASSUME QInv, Handles, NEW p \in Procs, job[p].at # "", Ends(p)
    PROVE  Handles' /\ io' = [io EXCEPT ![p] = NoIo]
<1>1. PICK s \in Nat : s = After(p)
    BY AfterIsNat
<1>2. io' = [io EXCEPT ![p] = NoIo] /\ pos' = [pos EXCEPT ![job[p].i] = s]
    BY <1>1 DEF Ends, Becomes
<1> QED
    BY <1>2, HandleMoves

(* A search that stays in its cluster, or is over.                         *)
LEMMA WalkSame ==
    ASSUME NEW j, NEW k, j.op \in Searching => WalkRight(j), Same(j, k), k.at = "find" => j.at = "find" /\ k.cl = j.cl
    PROVE  k.op \in Searching => WalkRight(k)
BY DEF WalkRight, Same

(* Every cluster of a chain, and what ends it, is behind the first two     *)
(* numbers.                                                                *)
LEMMA NthIs ==
    ASSUME VolumesSound, NEW v \in DOMAIN Volumes, NEW c, ChainSound(v, c), NEW k \in Nat
    PROVE  Nth(v, c, k) \in Nat /\ Nth(v, c, k) >= 2
<1>1. PICK n \in Nat, e \in Nat : n = Count(Volumes[v]) /\ e = Eoc /\ n + 1 < e
    BY VolumeLayout, FatConstants DEF VolumesSound
<1>2. PICK s : s = Chain(v, c)
    OBVIOUS
<1>3. PICK l \in Nat : l = Len(s) /\ \A m \in 1 .. l : s[m] \in 2 .. n + 1
    BY <1>1, <1>2, SoundChain
<1>4. CASE k < l
  <2>1. k + 1 \in 1 .. l
      BY <1>4
  <2>2. s[k + 1] \in 2 .. n + 1
      BY <1>3, <2>1
  <2>3. Nth(v, c, k) = s[k + 1]
      BY <1>2, <1>3, <1>4 DEF Nth
  <2> QED
      BY <2>2, <2>3
<1>5. CASE ~ (k < l)
  <2>1. Nth(v, c, k) = e
      BY <1>1, <1>2, <1>3, <1>5 DEF Nth
  <2> QED
      BY <1>1, <2>1
<1> QED
    BY <1>4, <1>5

LEMMA NthFirst ==
    ASSUME NEW v \in DOMAIN Volumes, NEW c, ChainSound(v, c)
    PROVE  Nth(v, c, 0) = c
<1>1. PICK s : s = Chain(v, c)
    OBVIOUS
<1>2. Len(s) \in Nat /\ (Len(s) > 0 => s[1] = c) /\ (Len(s) = 0 => c = Eoc)
    BY <1>1, SoundChain
<1>3. 0 < Len(s) \/ Len(s) = 0
    BY <1>2
<1> QED
    BY <1>1, <1>2, <1>3 DEF Nth

LEMMA SectorIsNat ==
    ASSUME NEW i, info[i] \in Info, NEW c \in Nat, c >= 2
    PROVE  SectorOf(i, c) \in Nat
<1>1. info[i].data \in Nat /\ info[i].vol \in DOMAIN Volumes
    BY DEF Info
<1>2. PICK d \in Nat, s \in Nat : d = info[i].data /\ s = B(i).spc
    BY <1>1, VolumesAre DEF B
<1>3. PICK m \in Nat : m = c - 2
    OBVIOUS
<1>4. m * s \in Nat
    BY <1>3
<1>5. d + m * s \in Nat
    BY <1>4
<1> QED
    BY <1>2, <1>3, <1>5 DEF SectorOf

(* The root of FAT12 and FAT16 is where the volume says.                   *)
LEMMA RootIsFixed ==
    ASSUME RootsKnown, NEW i \in Slots, info[i] \in Info, NEW dir
    PROVE  IsRoot(i, dir) <=> Fixed(info[i].vol, dir)
BY DEF RootsKnown, IsRoot, Fixed, B

LEMMA DirSectorIsNat ==
    ASSUME QInv, RInv, RootsKnown, VolumesSound, DirectoriesSound, NEW i \in Slots, Known(i),
           NEW dir \in Dirs(info[i].vol), NEW dp \in Nat, DirSector(i, dir, dp) # None
    PROVE  DirSector(i, dir, dp) \in Nat
<1>1. PICK v \in DOMAIN Volumes : v = info[i].vol
    BY KnownInfo
<1>2. PICK spc \in Nat, resv \in Nat : spc = B(i).spc /\ resv = B(i).resv /\ spc > 0
    BY <1>1, VolumesAre DEF B
<1>3. PICK sect \in Nat : sect = dp \div PerSector
  <2>1. PerSector \in Nat /\ PerSector > 0
      BY FatConstants
  <2> QED
      BY <2>1, NatArith
<1>4. PICK n \in Nat, m \in Nat : n = sect \div spc /\ m = sect % spc
  <2>1. sect \div spc \in Nat /\ sect % spc \in Nat
      BY <1>2, NatArith
  <2> QED
      BY <2>1
<1>5. PICK c : c = IF IsRoot(i, dir) THEN dir ELSE Skip(i, dir, n)
    OBVIOUS
<1>6. c \in Nat /\ (IsRoot(i, c) \/ c >= 2)
  <2>1. dir \in Nat
      BY <1>1, DirsAre
  <2>2. CASE IsRoot(i, dir)
      BY <1>5, <2>1, <2>2
  <2>3. CASE ~ IsRoot(i, dir)
    <3>1. ~ Fixed(v, dir)
        BY <1>1, <2>3, RootIsFixed, KnownInfo
    <3>2. ChainSound(v, dir)
        BY <1>1, <3>1 DEF DirectoriesSound
    <3>3. c = Nth(v, dir, n)
        BY <1>1, <1>5, <2>1, <2>3, <3>2, SkipIsNth
    <3> QED
        BY <3>2, <3>3, NthIs
  <2> QED
      BY <2>2, <2>3
<1>7. PICK base : base = IF IsRoot(i, c) THEN resv + c * spc ELSE SectorOf(i, c)
    OBVIOUS
<1>8. base \in Nat
  <2>1. resv + c * spc \in Nat
    <3>1. c * spc \in Nat
        BY <1>2, <1>6
    <3> QED
        BY <1>2, <3>1
  <2>2. ~ IsRoot(i, c) => SectorOf(i, c) \in Nat
      BY <1>6, KnownInfo, SectorIsNat
  <2> QED
      BY <1>7, <2>1, <2>2
<1>9. base + (IF spc = 1 THEN sect ELSE m) \in Nat
    BY <1>2, <1>3, <1>4, <1>8
<1>10. DirSector(i, dir, dp) = IF IsEnd(i, c) \/ c > Count(B(i)) + 2 THEN None
                               ELSE base + (IF spc = 1 THEN sect ELSE m)
    BY <1>2, <1>3, <1>4, <1>5, <1>7 DEF DirSector
<1> QED
    BY <1>9, <1>10

LEMMA ListFromWalk ==
    ASSUME QInv, RInv, WalksRight, VolumesSound, DirectoriesSound, NEW p \in Procs, NEW i \in Slots, Known(i),
           NEW dir \in Dirs(info[i].vol), NEW dp \in Nat, NEW j, DOMAIN j = DOMAIN NoJob, ListFrom(p, i, dir, dp, j)
    PROVE  Handles' /\ \E k, r : /\ job' = [job EXCEPT ![p] = k] /\ io' = [io EXCEPT ![p] = r]
                                 /\ Same(j, k) /\ k.at # "find" /\ r.pc \in Pcs
<1>1. Handles /\ RootsKnown
    BY DEF WalksRight
<1>2. PICK s : s = DirSector(i, dir, dp)
    OBVIOUS
<1>3. CASE s = None
  <2>1. PICK k : k = [j EXCEPT !.at = "listed", !.dp = dp, !.out = NoNode]
      OBVIOUS
  <2>2. job' = [job EXCEPT ![p] = k] /\ io' = [io EXCEPT ![p] = NoIo] /\ pos' = pos
      BY <1>2, <1>3, <2>1 DEF ListFrom, Moved, Becomes
  <2>3. Same(j, k) /\ k.at # "find"
      BY <2>1, Fields DEF Same
  <2>4. Handles'
      BY <1>1, <2>2, HandlesSame
  <2> QED
      BY <2>2, <2>3, <2>4, NoIoPc
<1>4. CASE s # None
  <2>1. PICK k : k = [j EXCEPT !.at = "list", !.dp = dp]
      OBVIOUS
  <2>2. SeekRead(p, info[i].vol, i, s, 1) /\ job' = [job EXCEPT ![p] = k]
      BY <1>2, <1>4, <2>1 DEF ListFrom, Moved
  <2>3. PICK t \in Nat : t = s
      BY <1>1, <1>2, <1>4, DirSectorIsNat
  <2>4. SeekRead(p, info[i].vol, i, t, 1)
      BY <2>2, <2>3
  <2>5. Handles' /\ \E r : io' = [io EXCEPT ![p] = r] /\ r.pc \in Pcs
      BY <1>1, <2>4, SeekReadWalk
  <2>6. Same(j, k) /\ k.at # "find"
      BY <2>1, Fields DEF Same
  <2> QED
      BY <2>2, <2>5, <2>6
<1> QED
    BY <1>3, <1>4

LEMMA ListWalk ==
    ASSUME QInv, RInv, WalksRight, VolumesSound, DirectoriesSound, NEW p \in Procs, NEW i \in Slots, Known(i),
           NEW dir \in Dirs(info[i].vol), NEW dp \in Nat, List(p, i, dir, dp)
    PROVE  WalksRight'
<1>1. PICK j : j = [NoJob EXCEPT !.op = "list", !.vol = info[i].vol, !.i = i, !.dir = dir, !.off = dp]
    OBVIOUS
<1>2. DOMAIN j = DOMAIN NoJob /\ j.op = "list" /\ j.vol = info[i].vol /\ j.i = i /\ j.dir = dir /\ j.at = ""
    BY <1>1, Fields DEF NoJob
<1>3. ListFrom(p, i, dir, dp, j) /\ UNCHANGED <<info, count>>
    BY <1>1 DEF List
<1>4. Handles'
    BY <1>2, <1>3, ListFromWalk
<1>5. PICK k, r : /\ job' = [job EXCEPT ![p] = k] /\ io' = [io EXCEPT ![p] = r]
                  /\ Same(j, k) /\ k.at # "find" /\ r.pc \in Pcs
    BY <1>2, <1>3, ListFromWalk
<1>6. WalkRight(j)
    BY <1>2 DEF WalkRight
<1>7. k.op \in Searching => WalkRight(k)
    BY <1>5, <1>6, WalkSame
<1> QED
    BY <1>3, <1>4, <1>5, <1>7, WalkOn

(* What a listing or a search is in the middle of.                         *)
LEMMA SearchIs ==
    ASSUME QInv, RInv, WalksRight, NEW p \in Procs, job[p].at \in {"list", "find"}
    PROVE  \E v \in DOMAIN Volumes, i \in Slots, dir \in Nat, dp \in Nat :
              /\ dir \in Dirs(v) /\ v = job[p].vol /\ i = job[p].i /\ dir = job[p].dir /\ dp = job[p].dp
              /\ Known(i) /\ v = info[i].vol /\ job[p].op \in Searching /\ WalkRight(job[p])
              /\ DOMAIN job[p] = DOMAIN NoJob /\ Handles /\ RootsKnown
<1>1. job[p].op \in Searching
    BY ListingOp DEF Searching
<1>2. WalkRight(job[p]) /\ Handles /\ RootsKnown
    BY <1>1 DEF WalksRight
<1>3. Known(job[p].i) /\ job[p].dir \in Dirs(job[p].vol)
    BY <1>2 DEF WalkRight
<1>4. /\ job[p].vol \in DOMAIN Volumes /\ job[p].i \in Slots /\ job[p].dp \in Nat /\ job[p].vol = info[job[p].i].vol
      /\ DOMAIN job[p] = DOMAIN NoJob /\ job[p].dir \in Nat
    BY AtWork
<1> QED
    BY <1>1, <1>2, <1>3, <1>4

LEMMA ListSkipWalk ==
    ASSUME QInv, RInv, WalksRight, VolumesSound, DirectoriesSound, NEW p \in Procs, ListSkip(p)
    PROVE  WalksRight'
<1>1. job[p].at = "list" /\ UNCHANGED <<ideRest, info, count>>
    BY DEF ListSkip, Got
<1>2. PICK v \in DOMAIN Volumes, i \in Slots, dir \in Nat, dp \in Nat :
          /\ dir \in Dirs(v) /\ v = job[p].vol /\ i = job[p].i /\ dir = job[p].dir /\ dp = job[p].dp
          /\ Known(i) /\ v = info[i].vol /\ job[p].op \in Searching /\ WalkRight(job[p])
          /\ DOMAIN job[p] = DOMAIN NoJob /\ Handles /\ RootsKnown
    BY <1>1, SearchIs
<1>3. PICK j : j = job[p]
    OBVIOUS
<1>4. PICK next \in Nat : next = dp + 1
    OBVIOUS
<1>5. ListFrom(p, i, dir, next, j) /\ DOMAIN j = DOMAIN NoJob /\ WalkRight(j)
    BY <1>2, <1>3, <1>4 DEF ListSkip
<1>6. dir \in Dirs(info[i].vol)
    BY <1>2
<1>7. Handles'
    BY <1>2, <1>5, <1>6, ListFromWalk
<1>8. PICK k, r : /\ job' = [job EXCEPT ![p] = k] /\ io' = [io EXCEPT ![p] = r]
                  /\ Same(j, k) /\ k.at # "find" /\ r.pc \in Pcs
    BY <1>2, <1>5, <1>6, ListFromWalk
<1>9. k.op \in Searching => WalkRight(k)
    BY <1>5, <1>8, WalkSame
<1> QED
    BY <1>1, <1>7, <1>8, <1>9, WalkOn

LEMMA SearchEnds ==
    ASSUME QInv, RInv, WalksRight, NEW p \in Procs, job[p].at \in {"list", "find"}, UNCHANGED <<info, count>>,
           Ends(p), NEW j, job' = [job EXCEPT ![p] = j], Same(job[p], j), j.at # "find"
    PROVE  WalksRight'
<1>1. WalkRight(job[p]) /\ Handles /\ job[p].at # ""
    BY SearchIs
<1>2. Handles' /\ io' = [io EXCEPT ![p] = NoIo]
    BY <1>1, EndsWalk
<1>3. j.op \in Searching => WalkRight(j)
    BY <1>1, WalkSame
<1>4. NoIo.pc \in Pcs
    BY NoIoPc
<1> QED
    BY <1>2, <1>3, <1>4, WalkOn

LEMMA AnswersWalk ==
    ASSUME QInv, RInv, WalksRight, NEW p \in Procs, ListEnd(p) \/ ListFile(p) \/ FindEnd(p) \/ FindThis(p)
    PROVE  WalksRight'
<1>1. job[p].at \in {"list", "find"} /\ UNCHANGED <<info, count>> /\ Ends(p)
    BY DEF ListEnd, ListFile, FindEnd, FindThis, Got
<1>2. DOMAIN job[p] = DOMAIN NoJob
    BY <1>1, AtWork
<1>3. \E at \in {"listed", "found"} : \E dp, out : job' = [job EXCEPT ![p] = [job[p] EXCEPT !.at = at, !.dp = dp, !.out = out]]
  <2>1. CASE ListEnd(p)
    <3>1. job' = [job EXCEPT ![p] = [job[p] EXCEPT !.at = "listed", !.out = NoNode]]
        BY <2>1, StateFields DEF ListEnd
    <3>2. [job[p] EXCEPT !.at = "listed", !.out = NoNode]
              = [job[p] EXCEPT !.at = "listed", !.dp = job[p].dp, !.out = NoNode]
        BY <1>2, Fields
    <3> QED
        BY <3>1, <3>2
  <2>2. CASE ListFile(p)
    <3>1. PICK out : job' = [job EXCEPT ![p].at = "listed", ![p].dp = @ + 1, ![p].out = out]
        BY <2>2 DEF ListFile
    <3>2. job' = [job EXCEPT ![p] = [job[p] EXCEPT !.at = "listed", !.dp = job[p].dp + 1, !.out = out]]
        BY <3>1, StateFields
    <3> QED
        BY <3>2
  <2>3. CASE FindEnd(p) \/ FindThis(p)
    <3>1. PICK out : job' = [job EXCEPT ![p].at = "found", ![p].out = out]
        BY <2>3 DEF FindEnd, FindThis
    <3>2. job' = [job EXCEPT ![p] = [job[p] EXCEPT !.at = "found", !.out = out]]
        BY <3>1, StateFields
    <3>3. [job[p] EXCEPT !.at = "found", !.out = out] = [job[p] EXCEPT !.at = "found", !.dp = job[p].dp, !.out = out]
        BY <1>2, Fields
    <3> QED
        BY <3>2, <3>3
  <2> QED
      BY <2>1, <2>2, <2>3
<1>4. PICK at, dp, out :
          at # "find" /\ job' = [job EXCEPT ![p] = [job[p] EXCEPT !.at = at, !.dp = dp, !.out = out]]
    BY <1>3
<1>5. PICK j : j = [job[p] EXCEPT !.at = at, !.dp = dp, !.out = out]
    OBVIOUS
<1>6. job' = [job EXCEPT ![p] = j]
    BY <1>4, <1>5
<1>7. Same(job[p], j) /\ j.at # "find"
    BY <1>2, <1>4, <1>5, Fields DEF Same
<1> QED
    BY <1>1, <1>6, <1>7, SearchEnds

LEMMA FindWalk ==
    ASSUME QInv, RInv, WalksRight, VolumesSound, DirectoriesSound, NEW p \in Procs, NEW i \in Slots, Known(i),
           NEW dir \in Dirs(info[i].vol), NEW name, Find(p, i, dir, name)
    PROVE  WalksRight'
<1>1. PICK v \in DOMAIN Volumes : v = info[i].vol
    BY KnownInfo
<1>2. Handles /\ RootsKnown /\ dir \in Nat
    BY <1>1, DirsAre DEF WalksRight
<1>3. PICK s : s = IF IsRoot(i, dir) THEN B(i).resv + dir * B(i).spc ELSE SectorOf(i, dir)
    OBVIOUS
<1>4. ~ Fixed(v, dir) => ChainSound(v, dir) /\ Nth(v, dir, 0) = dir /\ Nth(v, dir, 0) >= 2
    BY <1>1, NthFirst, NthIs DEF DirectoriesSound
<1>5. s \in Nat
  <2>1. PICK a \in Nat, b \in Nat : a = B(i).resv /\ b = B(i).spc
      BY <1>1, VolumesAre DEF B
  <2>2. dir * b \in Nat
      BY <1>2, <2>1
  <2>3. a + dir * b \in Nat
      BY <2>1, <2>2, NatArith
  <2>4. CASE IsRoot(i, dir)
      BY <1>3, <2>1, <2>3, <2>4
  <2>5. CASE ~ IsRoot(i, dir)
    <3>1. ~ Fixed(v, dir)
        BY <1>1, <1>2, <2>5, RootIsFixed, KnownInfo
    <3>2. dir >= 2 /\ info[i] \in Info
        BY <1>4, <3>1, KnownInfo
    <3>3. SectorOf(i, dir) \in Nat
        BY <1>2, <3>2, SectorIsNat
    <3> QED
        BY <1>3, <2>5, <3>3
  <2> QED
      BY <2>4, <2>5
<1>6. PICK j : j = [NoJob EXCEPT !.op = "find", !.at = "find", !.vol = info[i].vol, !.i = i, !.dir = dir, !.name = name,
                                 !.cl = dir, !.id = -1]
    OBVIOUS
<1>7. j.op = "find" /\ j.at = "find" /\ j.vol = v /\ j.i = i /\ j.dir = dir /\ j.cl = dir
    BY <1>1, <1>6, Fields DEF NoJob
<1>8. SeekRead(p, v, i, s, 1) /\ job' = [job EXCEPT ![p] = j] /\ UNCHANGED <<info, count>>
    BY <1>1, <1>3, <1>6 DEF Find, Moved
<1>9. Handles'
    BY <1>2, <1>5, <1>8, SeekReadWalk
<1>10. PICK r : io' = [io EXCEPT ![p] = r] /\ r.pc \in Pcs
    BY <1>2, <1>5, <1>8, SeekReadWalk
<1>11. WalkRight(j)
  <2>1. ~ Fixed(v, dir) => \E k \in Nat : dir = Nth(v, dir, k)
      BY <1>4
  <2> QED
      BY <1>1, <1>7, <2>1 DEF WalkRight
<1> QED
    BY <1>8, <1>9, <1>10, <1>11, WalkOn

LEMMA FindOnWalk ==
    ASSUME QInv, RInv, WalksRight, VolumesSound, DirectoriesSound, NEW p \in Procs, job[p].at = "find",
           UNCHANGED <<info, count>>, NEW j, Same(job[p], j), j.at = "find", j.cl = job[p].cl, FindOn(p, j)
    PROVE  WalksRight'
<1>1. PICK v \in DOMAIN Volumes, i \in Slots, dir \in Nat, dq \in Nat :
          /\ dir \in Dirs(v) /\ v = job[p].vol /\ i = job[p].i /\ dir = job[p].dir /\ dq = job[p].dp
          /\ Known(i) /\ v = info[i].vol /\ job[p].op \in Searching /\ WalkRight(job[p])
          /\ DOMAIN job[p] = DOMAIN NoJob /\ Handles /\ RootsKnown
    BY SearchIs
<1>2. PICK dp : dp = j.dp + 1
    OBVIOUS
<1>3. PICK c : c = j.cl
    OBVIOUS
<1>4. PICK next : next = GetFatValue(i, c)
    OBVIOUS
<1>5. j.i = i /\ j.vol = v /\ j.dir = dir /\ DOMAIN j = DOMAIN NoJob /\ j.op \in Searching /\ WalkRight(j)
    BY <1>1, WalkSame DEF Same
<1>6. PICK k : k = [j EXCEPT !.dp = dp]
    OBVIOUS
<1>7. PICK m : m = [j EXCEPT !.dp = dp, !.cl = next]
    OBVIOUS
<1>8. Same(j, k) /\ k.cl = c
    BY <1>3, <1>5, <1>6, Fields DEF Same
<1>9. k.op \in Searching => WalkRight(k)
    BY <1>3, <1>5, <1>8, WalkSame
<1>10. job[p].at # ""
    OBVIOUS
<1>11. CASE dp % PerSector # 0
  <2>1. job' = [job EXCEPT ![p] = k] /\ pos' = pos /\ io' = io
      BY <1>2, <1>6, <1>11 DEF FindOn, Moved
  <2>2. PICK r : r = io[p]
      OBVIOUS
  <2>3. io' = [io EXCEPT ![p] = r]
      BY <2>1, <2>2, StateFields
  <2>4. r.pc \in Pcs /\ Handles'
      BY <1>1, <2>1, <2>2, HandlesSame DEF WalksRight
  <2> QED
      BY <1>9, <2>1, <2>3, <2>4, WalkOn
<1>12. CASE ~ (dp % PerSector # 0) /\ ((dp \div PerSector) % B(i).spc # 0 \/ IsRoot(i, c))
  <2>1. job' = [job EXCEPT ![p] = k] /\ ReadOn(p, 1)
      BY <1>2, <1>3, <1>5, <1>6, <1>12 DEF FindOn, Moved
  <2>2. Handles'
      BY <1>1, <1>10, <2>1, ReadOnWalk
  <2>3. PICK r : io' = [io EXCEPT ![p] = r] /\ r.pc \in Pcs
      BY <1>1, <1>10, <2>1, ReadOnWalk
  <2> QED
      BY <1>9, <2>1, <2>2, <2>3, WalkOn
<1>13. CASE ~ (dp % PerSector # 0) /\ ~ ((dp \div PerSector) % B(i).spc # 0 \/ IsRoot(i, c))
  <2>1. job' = [job EXCEPT ![p] = m] /\ SeekRead(p, v, i, SectorOf(i, next), 1)
      BY <1>2, <1>3, <1>4, <1>5, <1>7, <1>13 DEF FindOn, Moved
  <2>2. m.op = j.op /\ m.i = i /\ m.vol = v /\ m.dir = dir /\ m.cl = next
      BY <1>5, <1>7, Fields
  <2>3. ~ (Fixed(v, dir) /\ c = dir)
    <3>1. ~ IsRoot(i, c)
        BY <1>13
    <3>2. ~ Fixed(v, c)
        BY <1>1, <3>1, RootIsFixed, KnownInfo
    <3> QED
        BY <3>2
  <2>4. ~ Fixed(v, dir) /\ \E x \in Nat : c = Nth(v, dir, x)
      BY <1>3, <1>5, <2>3 DEF WalkRight
  <2>5. ChainSound(v, dir)
      BY <1>1, <2>4 DEF DirectoriesSound
  <2>6. PICK x \in Nat : c = Nth(v, dir, x)
      BY <2>4
  <2>7. PICK y \in Nat : y = x + 1
      BY NatArith
  <2>8. next = Nth(v, dir, y)
      BY <1>1, <1>4, <2>5, <2>6, <2>7, NextOf
  <2>9. next \in Nat /\ next >= 2
      BY <2>5, <2>8, NthIs
  <2>10. PICK s \in Nat : s = SectorOf(i, next)
      BY <1>1, <2>9, KnownInfo, SectorIsNat
  <2>11. SeekRead(p, v, i, s, 1)
      BY <2>1, <2>10
  <2>12. Handles'
      BY <1>1, <2>11, SeekReadWalk
  <2>13. PICK r : io' = [io EXCEPT ![p] = r] /\ r.pc \in Pcs
      BY <1>1, <2>11, SeekReadWalk
  <2>14. WalkRight(m)
      BY <1>1, <2>2, <2>4, <2>8 DEF WalkRight
  <2> QED
      BY <2>1, <2>12, <2>13, <2>14, WalkOn
<1> QED
    BY <1>11, <1>12, <1>13

LEMMA FindStepsWalk ==
    ASSUME QInv, RInv, WalksRight, VolumesSound, DirectoriesSound, NEW p \in Procs,
           FindPart(p) \/ FindFree(p) \/ FindOther(p)
    PROVE  WalksRight'
<1>1. job[p].at = "find" /\ UNCHANGED <<info, count>>
    BY DEF FindPart, FindFree, FindOther, Got
<1>2. DOMAIN job[p] = DOMAIN NoJob
    BY <1>1, AtWork
<1>3. CASE FindPart(p)
  <2>1. PICK tail, id : FindOn(p, [job[p] EXCEPT !.tail = tail, !.id = id])
      BY <1>3 DEF FindPart
  <2>2. PICK j : j = [job[p] EXCEPT !.tail = tail, !.id = id]
      OBVIOUS
  <2>3. Same(job[p], j) /\ j.at = "find" /\ j.cl = job[p].cl /\ FindOn(p, j)
      BY <1>1, <1>2, <2>1, <2>2, Fields DEF Same
  <2> QED
      BY <1>1, <2>3, FindOnWalk
<1>4. CASE FindFree(p) \/ FindOther(p)
  <2>1. PICK j : j = job[p]
      OBVIOUS
  <2>2. Same(job[p], j) /\ j.at = "find" /\ j.cl = job[p].cl /\ FindOn(p, j)
      BY <1>1, <1>2, <1>4, <2>1 DEF FindFree, FindOther, Same
  <2> QED
      BY <1>1, <2>2, FindOnWalk
<1> QED
    BY <1>3, <1>4

(* Mounting                                                                *)

LEMMA MountWalk ==
    ASSUME QInv, WalksRight, NEW p \in Procs, NEW v, Mount(p, v)
    PROVE  WalksRight'
<1>1. PICK j : j = [NoJob EXCEPT !.op = "mount", !.at = "boot", !.vol = v, !.i = count]
    OBVIOUS
<1>2. j.op = "mount"
    BY <1>1, Fields
<1>3. PICK s \in Nat : s = 0
    OBVIOUS
<1>4. job' = [job EXCEPT ![p] = j] /\ SeekRead(p, v, count, s, 1) /\ UNCHANGED <<info, count>> /\ Handles
    BY <1>1, <1>3 DEF Mount, Moved, WalksRight
<1>5. Handles'
    BY <1>4, SeekReadWalk
<1>6. PICK r : io' = [io EXCEPT ![p] = r] /\ r.pc \in Pcs
    BY <1>4, SeekReadWalk
<1>7. j.op \notin Searching
    BY <1>2 DEF Searching
<1> QED
    BY <1>4, <1>5, <1>6, <1>7, WalkOn

LEMMA RootsKept ==
    ASSUME QInv, RootsKnown, NEW i \in Slots, NEW e, info' = [info EXCEPT ![i] = e], e.root = Root(e.vol)
    PROVE  RootsKnown'
BY StateFields DEF RootsKnown, Info

LEMMA MountBootWalk ==
    ASSUME QInv, RInv, WalksRight, NEW p \in Procs, MountBoot(p)
    PROVE  WalksRight'
<1>1. job[p].at = "boot"
    BY DEF MountBoot, Got
<1>2. PICK v \in DOMAIN Volumes, i \in Slots : v = job[p].vol /\ i = job[p].i
    BY <1>1, AtWork
<1>3. job[p].op = "mount" /\ \A q \in Procs : q # p => job[q].op = "idle"
    BY <1>1, MountingOp
<1>4. PICK e : e = [vol |-> v, root |-> RootOffset(Volumes[v]), data |-> FirstData(Volumes[v]), fat |-> <<>>]
    OBVIOUS
<1>5. e.vol = v /\ e.root = Root(v)
    BY <1>4 DEF Root
<1>6. info' = [info EXCEPT ![i] = e] /\ count' = count
    BY <1>2, <1>4 DEF MountBoot
<1>7. RootsKnown' /\ Handles /\ count' =< Cardinality(DOMAIN Volumes)
    BY <1>5, <1>6, RootsKept DEF WalksRight
<1>8. PICK s \in Nat : s = Volumes[v].resv
    BY VolumesAre
<1>9. SeekRead(p, v, i, s, Chunk(Volumes[v]))
    BY <1>2, <1>8 DEF MountBoot
<1>10. Handles'
    BY <1>7, <1>9, SeekReadWalk
<1>11. PICK r : io' = [io EXCEPT ![p] = r] /\ r.pc \in Pcs
    BY <1>7, <1>9, SeekReadWalk
<1>12. PICK j : j = [job[p] EXCEPT !.at = "fat"]
    OBVIOUS
<1>13. job' = [job EXCEPT ![p] = j]
    BY <1>12, StateFields DEF MountBoot
<1>14. j.op \notin Searching
    BY <1>1, <1>3, <1>12, AtWork, Fields DEF Searching
<1> QED
    BY <1>3, <1>7, <1>10, <1>11, <1>13, <1>14, WalkStep

LEMMA VolumesCounted == Cardinality(DOMAIN Volumes) \in Nat
    BY FatConstants, FS_CardinalityType

LEMMA MountFatWalk ==
    ASSUME QInv, RInv, WalksRight, NEW p \in Procs, MountFat(p)
    PROVE  WalksRight'
<1>1. job[p].at = "fat"
    BY DEF MountFat, Got
<1>2. PICK v \in DOMAIN Volumes, i \in Slots, dp \in Nat : v = job[p].vol /\ i = job[p].i /\ dp = job[p].dp
    BY <1>1, AtWork
<1>3. /\ job[p].op = "mount" /\ MountRight(job[p]) /\ DOMAIN job[p] = DOMAIN NoJob
      /\ \A q \in Procs : q # p => job[q].op = "idle"
    BY <1>1, MountingOp, AtWork
<1>4. PICK x \in Info : x = info[i] /\ x.vol = v
    BY <1>1, <1>2, AtWork
<1>5. PICK more : more = Chunk(Volumes[v]) * Values
    OBVIOUS
<1>6. PICK f : info' = [info EXCEPT ![i].fat = @ \o f]
    BY <1>2 DEF MountFat
<1>7. PICK e : e = [x EXCEPT !.fat = x.fat \o f]
    OBVIOUS
<1>8. e.vol = x.vol /\ e.root = x.root
    BY <1>4, <1>7 DEF Info
<1>9. info' = [info EXCEPT ![i] = e]
    BY <1>4, <1>6, <1>7, StateFields
<1>10. Handles /\ RootsKnown
    BY DEF WalksRight
<1>11. e.root = Root(e.vol)
    BY <1>4, <1>8, <1>10 DEF RootsKnown
<1>12. RootsKnown'
    BY <1>9, <1>10, <1>11, RootsKept
<1>13. job[p].at # ""
    BY <1>1
<1>14. CASE dp + more =< Cached(Volumes[v])
  <2>1. ReadOn(p, Chunk(Volumes[v])) /\ job' = [job EXCEPT ![p].dp = @ + more] /\ count' = count
      BY <1>2, <1>5, <1>14 DEF MountFat
  <2>2. Handles'
      BY <1>10, <1>13, <2>1, ReadOnWalk
  <2>3. PICK r : io' = [io EXCEPT ![p] = r] /\ r.pc \in Pcs
      BY <1>10, <1>13, <2>1, ReadOnWalk
  <2>4. PICK j : j = [job[p] EXCEPT !.dp = dp + more]
      OBVIOUS
  <2>5. job' = [job EXCEPT ![p] = j]
      BY <1>2, <2>1, <2>4, StateFields
  <2>6. j.op \notin Searching
      BY <1>3, <2>4, Fields DEF Searching
  <2>7. count' =< Cardinality(DOMAIN Volumes)
      BY <2>1 DEF WalksRight
  <2> QED
      BY <1>3, <1>12, <2>2, <2>3, <2>5, <2>6, <2>7, WalkStep
<1>15. CASE ~ (dp + more =< Cached(Volumes[v]))
  <2>1. Ends(p) /\ job' = [job EXCEPT ![p] = NoJob] /\ count' = count + 1
      BY <1>2, <1>5, <1>15 DEF MountFat, Moved
  <2>2. Handles' /\ io' = [io EXCEPT ![p] = NoIo]
      BY <1>10, <1>13, <2>1, EndsWalk
  <2>3. count' =< Cardinality(DOMAIN Volumes)
    <3>1. count = i
        BY <1>2, <1>3 DEF MountRight
    <3>2. PICK n \in Nat : n = Cardinality(DOMAIN Volumes)
        BY VolumesCounted
    <3>3. i \in 0 .. n - 1
        BY <3>2 DEF Slots
    <3> QED
        BY <2>1, <3>1, <3>2, <3>3
  <2> QED
      BY <1>3, <1>12, <2>1, <2>2, <2>3, NoIoPc, WalkStep
<1> QED
    BY <1>14, <1>15

(* Reading: the cluster that is read is one of the file.                   *)

ReadsInside == \A p \in Procs : job[p].at \in {"first", "rest"} => pos[job[p].i] \in Nat

LEMMA ClustersInside == VolumesSound /\ QInv /\ RInv => ReadsInside
<1> SUFFICES ASSUME VolumesSound, QInv, RInv, NEW p \in Procs, job[p].at \in {"first", "rest"}
             PROVE  pos[job[p].i] \in Nat
    BY DEF ReadsInside
<1>1. PICK v \in DOMAIN Volumes, i \in Slots, off \in Nat, len \in Nat :
          /\ v = job[p].vol /\ i = job[p].i /\ off = job[p].off /\ len = job[p].len /\ job[p].dir \in Nat
          /\ Known(i) /\ v = info[i].vol
          /\ \E e \in All(v) : e.t = "file" /\ ~ e.dir /\ e.cl = job[p].dir /\ off + len =< e.size
    BY ReadingIs
<1>2. PICK e \in All(v) : e.t = "file" /\ ~ e.dir /\ e.cl = job[p].dir /\ off + len =< e.size
    BY <1>1
<1>3. PICK c : c = job[p].dir /\ c = e.cl
    BY <1>2
<1>4. ChainSound(v, c)
  <2>1. ChainSound(v, e.cl)
      BY <1>2, FileSound
  <2> QED
      BY <1>3, <2>1
<1>5. ReadingRight(job[p])
    BY ReadingOp
<1>6. PICK spc \in Nat : spc = Volumes[v].spc /\ spc > 0
    BY VolumesAre
<1>7. PICK q \in Nat : q = off \div spc
    BY <1>6, NatArith
<1>8. \E k \in Nat : job[p].cl = Nth(v, c, k)
  <2>1. CASE job[p].at = "first"
      BY <1>1, <1>3, <1>5, <1>6, <1>7, <2>1 DEF ReadingRight
  <2>2. CASE job[p].at = "rest"
    <3>1. RestRight(job[p])
        BY <1>5, <2>2 DEF ReadingRight
    <3>2. PICK more \in Nat : more = More(job[p])
      <4>1. (off % spc) + len \in Nat
          BY <1>6, NatArith
      <4>2. ((off % spc) + len) \div spc \in Nat
          BY <1>6, <4>1, NatArith
      <4> QED
          BY <1>1, <1>6, <4>2 DEF More
    <3>3. PICK begun \in Nat : begun = more - job[p].left + 1
        BY <3>1, <3>2 DEF RestRight
    <3>4. q + begun \in Nat
        BY NatArith
    <3>5. job[p].cl = Nth(v, c, q + begun)
        BY <1>1, <1>3, <1>6, <1>7, <3>1, <3>2, <3>3 DEF RestRight
    <3> QED
        BY <3>4, <3>5
  <2> QED
      BY <2>1, <2>2
<1>9. job[p].cl \in Nat /\ job[p].cl >= 2
    BY <1>4, <1>8, NthIs
<1>10. pos[i] = SectorOf(i, job[p].cl)
    BY <1>1, <1>5 DEF ReadingRight
<1>11. SectorOf(i, job[p].cl) \in Nat
    BY <1>1, <1>9, KnownInfo, SectorIsNat
<1> QED
    BY <1>1, <1>10, <1>11

LEMMA ReadingWalks ==
    ASSUME QInv, WalksRight, ReadsInside', NEW p \in Procs, NEW i \in Slots, NEW c, UNCHANGED <<info, count>>,
           ReadCluster(p, i, c), NEW j, job' = [job EXCEPT ![p] = j], j.op = "read", j.at \in {"first", "rest"}, j.i = i
    PROVE  WalksRight'
<1>1. job'[p] = j
    BY StateFields
<1>2. PICK s : s = SectorOf(i, c)
    OBVIOUS
<1>3. pos' = [pos EXCEPT ![i] = s]
    BY <1>2 DEF ReadCluster, SeekRead
<1>4. pos'[i] = s
    BY <1>3, StateFields
<1>5. s \in Nat
    BY <1>1, <1>4 DEF ReadsInside
<1>6. SeekRead(p, info[i].vol, i, s, B(i).spc) /\ Handles
    BY <1>2 DEF ReadCluster, WalksRight
<1>7. Handles'
    BY <1>5, <1>6, SeekReadWalk
<1>8. PICK r : io' = [io EXCEPT ![p] = r] /\ r.pc \in Pcs
    BY <1>5, <1>6, SeekReadWalk
<1>9. j.op \notin Searching
    BY DEF Searching
<1> QED
    BY <1>7, <1>8, <1>9, WalkOn

LEMMA ReadWalk ==
    ASSUME QInv, WalksRight, ReadsInside', NEW p \in Procs, NEW i \in Slots, NEW c, NEW off, NEW len,
           Read(p, i, c, off, len)
    PROVE  WalksRight'
<1>1. PICK first, left : /\ ReadCluster(p, i, first)
                         /\ Moved(p, [NoJob EXCEPT !.op = "read", !.at = "first", !.vol = info[i].vol, !.i = i,
                                                   !.dir = c, !.off = off, !.len = len, !.cl = first,
                                                   !.left = left, !.out = <<>>])
    BY DEF Read
<1>2. PICK j : j = [NoJob EXCEPT !.op = "read", !.at = "first", !.vol = info[i].vol, !.i = i, !.dir = c, !.off = off,
                                 !.len = len, !.cl = first, !.left = left, !.out = <<>>]
    OBVIOUS
<1>3. j.op = "read" /\ j.at \in {"first", "rest"} /\ j.i = i
    BY <1>2, Fields
<1>4. job' = [job EXCEPT ![p] = j] /\ UNCHANGED <<info, count>>
    BY <1>1, <1>2 DEF Moved, Read
<1> QED
    BY <1>1, <1>3, <1>4, ReadingWalks

LEMMA ReturnsWalk ==
    ASSUME QInv, WalksRight, NEW p \in Procs, job[p].at # "", job[p].op = "read", NEW out, Returns(p, out),
           UNCHANGED <<info, count>>
    PROVE  WalksRight'
<1>1. PICK j : j = [job[p] EXCEPT !.at = "ready", !.out = out]
    OBVIOUS
<1>2. job' = [job EXCEPT ![p] = j]
    BY <1>1, StateFields DEF Returns
<1>3. j.op \notin Searching
    BY <1>1, AtWork, Fields DEF Searching
<1>4. Handles' /\ io' = [io EXCEPT ![p] = NoIo]
    BY EndsWalk DEF Returns, WalksRight
<1> QED
    BY <1>2, <1>3, <1>4, NoIoPc, WalkOn

LEMMA ReadOnWalks ==
    ASSUME QInv, RInv, WalksRight, ReadsInside', NEW p \in Procs, ReadFirst(p) \/ ReadRest(p)
    PROVE  WalksRight'
<1>1. job[p].at \in {"first", "rest"} /\ UNCHANGED <<info, count>>
    BY DEF ReadFirst, ReadRest, Got
<1>2. job[p].op = "read" /\ DOMAIN job[p] = DOMAIN NoJob
    BY <1>1, ReadingOp, AtWork
<1>3. PICK i \in Slots : i = job[p].i
    BY <1>1, AtWork
<1>4. ASSUME NEW out, Returns(p, out) PROVE WalksRight'
    BY <1>1, <1>2, <1>4, ReturnsWalk
<1>5. ASSUME NEW c, NEW out, OnTo(p, i, c, out) PROVE WalksRight'
  <2>1. PICK j : j = [job[p] EXCEPT !.at = "rest", !.cl = c, !.out = out]
      OBVIOUS
  <2>2. job' = [job EXCEPT ![p] = j] /\ ReadCluster(p, i, c)
      BY <1>5, <2>1, StateFields DEF OnTo
  <2>3. j.op = "read" /\ j.at \in {"first", "rest"} /\ j.i = i
      BY <1>2, <1>3, <2>1, Fields
  <2> QED
      BY <1>1, <2>2, <2>3, ReadingWalks
<1>6. ASSUME NEW c, NEW left, NEW out, ReadCluster(p, i, c),
             job' = [job EXCEPT ![p] = [job[p] EXCEPT !.cl = c, !.left = left, !.out = out]]
      PROVE  WalksRight'
  <2>1. PICK j : j = [job[p] EXCEPT !.cl = c, !.left = left, !.out = out]
      OBVIOUS
  <2>2. job' = [job EXCEPT ![p] = j]
      BY <1>6, <2>1
  <2>3. j.op = "read" /\ j.at \in {"first", "rest"} /\ j.i = i
      BY <1>1, <1>2, <1>3, <2>1, Fields
  <2> QED
      BY <1>1, <1>6, <2>2, <2>3, ReadingWalks
<1>7. CASE ReadFirst(p)
  <2>1. \E c, out : Returns(p, out) \/ OnTo(p, i, c, out)
      BY <1>3, <1>7 DEF ReadFirst
  <2> QED
      BY <1>4, <1>5, <2>1
<1>8. CASE ReadRest(p)
  <2>1. \E c, out : \/ Returns(p, out)
                    \/ /\ ReadCluster(p, i, c)
                       /\ job' = [job EXCEPT ![p].cl = c, ![p].left = @ - 1, ![p].out = out]
      BY <1>3, <1>8 DEF ReadRest
  <2>2. PICK c, out : \/ Returns(p, out)
                      \/ /\ ReadCluster(p, i, c)
                         /\ job' = [job EXCEPT ![p].cl = c, ![p].left = @ - 1, ![p].out = out]
      BY <2>1
  <2>3. PICK left : left = job[p].left - 1
      OBVIOUS
  <2>4. CASE ReadCluster(p, i, c) /\ job' = [job EXCEPT ![p].cl = c, ![p].left = @ - 1, ![p].out = out]
    <3>1. job' = [job EXCEPT ![p] = [job[p] EXCEPT !.cl = c, !.left = left, !.out = out]]
        BY <2>3, <2>4, StateFields
    <3> QED
        BY <1>6, <2>4, <3>1
  <2> QED
      BY <1>4, <2>2, <2>4
<1> QED
    BY <1>7, <1>8

(* The other steps                                                         *)

LEMMA TransferWalk ==
    ASSUME QInv, WalksRight, NEW p \in Procs, UNCHANGED fatVars, NEW r, io' = [io EXCEPT ![p] = r], r.pc \in Pcs
    PROVE  WalksRight'
<1>1. PICK j : j = job[p]
    OBVIOUS
<1>2. job' = [job EXCEPT ![p] = j] /\ UNCHANGED <<info, count, pos>>
    BY <1>1, StateFields DEF fatVars
<1>3. Handles'
    BY <1>2, HandlesSame DEF WalksRight
<1>4. j.op \in Searching => WalkRight(j)
    BY <1>1 DEF WalksRight
<1> QED
    BY <1>2, <1>3, <1>4, WalkOn

LEMMA AskWalk ==
    ASSUME QInv, WalksRight, NEW p \in Procs, Ask(p)
    PROVE  WalksRight'
<1>1. PICK d, l, n, m : \/ io' = [io EXCEPT ![p] = Request(FALSE, d, 0, 0, "done")]
                        \/ io' = [io EXCEPT ![p] = Request(FALSE, d, l, n, "setup")]
    BY DEF Ask, Becomes
<1>2. UNCHANGED fatVars
    BY DEF Ask
<1>3. PICK r, s : r = Request(FALSE, d, 0, 0, "done") /\ s = Request(FALSE, d, l, n, "setup")
    OBVIOUS
<1>4. r.pc = "done" /\ s.pc = "setup"
    BY <1>3 DEF Request, NoIo
<1>5. r.pc \in Pcs /\ s.pc \in Pcs
    BY <1>4 DEF Pcs
<1> QED
    BY <1>1, <1>2, <1>3, <1>5, TransferWalk

LEMMA RawWalk ==
    ASSUME QInv, WalksRight, NEW p \in Procs, NEW w, NEW d, NEW l, Raw(p, w, d, l)
    PROVE  WalksRight'
<1>1. PICK r : r = Request(w, d, Lba(d, 0, l), 1, "setup")
    OBVIOUS
<1>2. io' = [io EXCEPT ![p] = r] /\ UNCHANGED fatVars
    BY <1>1 DEF Raw, Becomes
<1>3. r.pc = "setup"
    BY <1>1 DEF Request, NoIo
<1>4. r.pc \in Pcs
    BY <1>3 DEF Pcs
<1> QED
    BY <1>2, <1>4, TransferWalk

LEMMA AnsweredWalk ==
    ASSUME QInv, WalksRight, NEW p \in Procs, Answered(p)
    PROVE  WalksRight'
<1>1. /\ io' = [io EXCEPT ![p] = NoIo] /\ job' = [job EXCEPT ![p] = NoJob]
      /\ UNCHANGED <<info, count, pos>>
    BY DEF Answered, Becomes, Moved
<1>2. Handles'
    BY <1>1, HandlesSame DEF WalksRight
<1> QED
    BY <1>1, <1>2, NoIoPc, WalkOn

LEMMA MovesWalk ==
    ASSUME QInv, WalksRight, NEW p \in Procs, QuietMoves(p), UNCHANGED fatVars
    PROVE  WalksRight'
<1>1. PICK x : x = io[p]
    OBVIOUS
<1>2. IsIo(x)
    BY <1>1 DEF QInv, IoRight, IsIo
<1>3. CASE Command(p)
  <2>1. PICK pc : pc = IF io[p].write THEN "put" ELSE "take"
      OBVIOUS
  <2>2. io' = [io EXCEPT ![p].pc = pc]
      BY <1>3, <2>1 DEF Command, Starts
  <2>3. PICK r : r = [x EXCEPT !.pc = pc]
      OBVIOUS
  <2>4. io' = [io EXCEPT ![p] = r] /\ r.pc = pc
      BY <1>1, <1>2, <2>2, <2>3, StateFields DEF IsIo
  <2>5. r.pc \in Pcs
      BY <2>1, <2>4 DEF Pcs
  <2> QED
      BY <2>4, <2>5, TransferWalk
<1>4. CASE Take(p)
  <2>1. PICK got, pc : pc \in {"done", "take"} /\ io' = [io EXCEPT ![p].got = got, ![p].pc = pc]
      BY <1>4 DEF Take
  <2>2. PICK r : r = [x EXCEPT !.got = got, !.pc = pc]
      OBVIOUS
  <2>3. io' = [io EXCEPT ![p] = r]
      BY <1>1, <2>1, <2>2, StateFields
  <2>4. r.pc = pc
      BY <1>2, <2>2, ReceiveLemma
  <2>5. r.pc \in Pcs
      BY <2>1, <2>4 DEF Pcs
  <2> QED
      BY <2>3, <2>5, TransferWalk
<1>5. CASE Put(p)
  <2>1. PICK pc : pc = IF io[p].n = 1 THEN "put_done" ELSE "put"
      OBVIOUS
  <2>2. io' = [io EXCEPT ![p].n = @ - 1, ![p].lba = @ + 1, ![p].pc = pc]
      BY <1>5, <2>1 DEF Put
  <2>3. PICK n, l : n = x.n - 1 /\ l = x.lba + 1
      OBVIOUS
  <2>4. PICK r : r = [x EXCEPT !.n = n, !.lba = l, !.pc = pc]
      OBVIOUS
  <2>5. io' = [io EXCEPT ![p] = r]
      BY <1>1, <2>2, <2>3, <2>4, StateFields
  <2>6. r.pc = pc
      BY <1>2, <2>4, SendLemma
  <2>7. r.pc \in Pcs
      BY <2>1, <2>6 DEF Pcs
  <2> QED
      BY <2>5, <2>7, TransferWalk
<1> QED
    BY <1>3, <1>4, <1>5 DEF QuietMoves

LEMMA SameWalks ==
    ASSUME WalksRight, UNCHANGED <<ideVars, info, count, pos, job>>
    PROVE  WalksRight'
<1>1. ASSUME NEW x PROVE WalkRight(x)' <=> WalkRight(x)
    BY DEF WalkRight, Known
<1> QED
    BY <1>1 DEF WalksRight, Handles, RootsKnown, Info, ideVars

LEMMA WalksInit == Init => WalksRight
<1> SUFFICES ASSUME Init PROVE WalksRight
    OBVIOUS
<1>1. count = 0 /\ pos = [i \in Slots |-> 0] /\ info = [i \in Slots |-> None]
    BY DEF Init
<1>2. io = [p \in Procs |-> NoIo] /\ job = [p \in Procs |-> NoJob]
    BY DEF Init, IdeInit
<1>3. count =< Cardinality(DOMAIN Volumes)
    BY <1>1, VolumesCounted
<1>4. Handles
    BY <1>1 DEF Handles
<1>5. RootsKnown
    BY <1>1, FatConstants DEF RootsKnown
<1> QED
    BY <1>2, <1>3, <1>4, <1>5, NoIoPc DEF WalksRight
-----------------------------------------------------------------------------
(* The types                                                               *)

(* Only the channel's own steps touch its registers and sectors.           *)
LEMMA ChannelsNext ==
    ASSUME QInv, \A c \in Channels : ChannelRight(c), [QuietNext]_vars
    PROVE  \A c \in Channels : ChannelRight(c)'
<1>1. ASSUME UNCHANGED <<regs, stream, asks>> PROVE \A c \in Channels : ChannelRight(c)'
    BY <1>1 DEF ChannelRight
<1>2. ASSUME NEW p \in Procs, FatSteps(p) PROVE UNCHANGED <<regs, stream, asks>>
    BY <1>2 DEF FatSteps, MountBoot, MountFat, ReadFirst, ReadRest, ListEnd, ListSkip, ListFile, FindEnd, FindPart,
                FindFree, FindOther, FindThis, Answered, ideRest
<1>3. ASSUME NEW p \in Procs, NEW v, Mount(p, v) PROVE UNCHANGED <<regs, stream, asks>>
    BY <1>3 DEF Mount, ideRest
<1>4. ASSUME NEW p \in Procs, NEW i, Reads(p, i) \/ QuietLists(p, i) \/ Finds(p, i)
      PROVE  UNCHANGED <<regs, stream, asks>>
    BY <1>4 DEF Reads, QuietLists, Finds, Read, List, Find, ideRest
<1>5. ASSUME NEW p \in Procs, NEW w, NEW d, NEW l, Raw(p, w, d, l) PROVE UNCHANGED <<regs, stream, asks>>
    BY <1>5 DEF Raw, ideRest
<1>6. ASSUME NEW p \in Procs, Ask(p) PROVE UNCHANGED <<regs, stream, asks>>
    BY <1>6 DEF Ask
<1>7. ASSUME NEW p \in Procs, QuietMoves(p) PROVE \A c \in Channels : ChannelRight(c)'
    BY <1>7, CommandChannels, TakeChannels, PutChannels DEF QuietMoves
<1>8. ASSUME Closes \/ UNCHANGED vars PROVE UNCHANGED <<regs, stream, asks>>
    BY <1>8 DEF Closes, Close, vars, ideVars
<1> QED
    BY <1>1, <1>2, <1>3, <1>4, <1>5, <1>6, <1>7, <1>8 DEF QuietNext

LEMMA ChannelsInit == Init => \A c \in Channels : ChannelRight(c)
<1> SUFFICES ASSUME Init, NEW c \in Channels PROVE ChannelRight(c)
    OBVIOUS
<1>1. regs[c] = NoAddress /\ stream[c] = <<>> /\ asks[c] = <<>>
    BY DEF Init, IdeInit
<1>2. <<>> \in Seq({}) /\ Len(<<>>) = 0
    OBVIOUS
<1> QED
    BY <1>1, <1>2, NoAddressIs DEF ChannelRight

LEMMA KeysInit == Init => KeysRight
<1> SUFFICES ASSUME Init PROVE KeysRight
    OBVIOUS
<1>1. lfn = <<>> /\ nodes = <<>>
    BY DEF Init
<1> QED
    BY <1>1, EmptyRight DEF KeysRight

LEMMA ListedFrom ==
    ASSUME NEW v \in DOMAIN Volumes, NEW a \in ListArgs[v]
    PROVE  a[1] \in Dirs(v) /\ a[2] \in Nat
<1>1. a[1] \in Dirs(v)
    BY DEF ListArgs
<1> QED
    BY <1>1, ListArg

LEMMA FoundIn ==
    ASSUME NEW v \in DOMAIN Volumes, NEW a \in FindArgs[v]
    PROVE  a[1] \in Dirs(v)
BY DEF FindArgs

LEMMA FatStepsWalks ==
    ASSUME QInv, RInv, WalksRight, VolumesSound, DirectoriesSound, ReadsInside', NEW p \in Procs, FatSteps(p)
    PROVE  WalksRight'
<1>1. CASE MountBoot(p)
    BY <1>1, MountBootWalk
<1>2. CASE MountFat(p)
    BY <1>2, MountFatWalk
<1>3. CASE ReadFirst(p) \/ ReadRest(p)
    BY <1>3, ReadOnWalks
<1>4. CASE ListEnd(p) \/ ListFile(p) \/ FindEnd(p) \/ FindThis(p)
    BY <1>4, AnswersWalk
<1>5. CASE ListSkip(p)
    BY <1>5, ListSkipWalk
<1>6. CASE FindPart(p) \/ FindFree(p) \/ FindOther(p)
    BY <1>6, FindStepsWalk
<1>7. CASE Answered(p)
    BY <1>7, AnsweredWalk
<1> QED
    BY <1>1, <1>2, <1>3, <1>4, <1>5, <1>6, <1>7 DEF FatSteps

LEMMA WalksNext ==
    ASSUME QInv, RInv, WalksRight, VolumesSound, DirectoriesSound, ReadsInside', [QuietNext]_vars
    PROVE  WalksRight'
<1>1. ASSUME NEW p \in Procs, NEW v, Mount(p, v) PROVE WalksRight'
    BY <1>1, MountWalk
<1>2. ASSUME NEW p \in Procs, NEW i \in Slots, Known(i), Reads(p, i) \/ QuietLists(p, i) \/ Finds(p, i)
      PROVE  WalksRight'
  <2>1. PICK v \in DOMAIN Volumes : v = info[i].vol
      BY <1>2, KnownInfo
  <2>2. CASE Reads(p, i)
    <3>1. PICK a \in ReadArgs[v] : Read(p, i, a[1], a[2], a[3])
        BY <2>1, <2>2 DEF Reads
    <3>2. PICK c, off, len : Read(p, i, c, off, len)
        BY <3>1
    <3> QED
        BY <1>2, <3>2, ReadWalk
  <2>3. CASE QuietLists(p, i)
    <3>1. PICK a \in ListArgs[v] : List(p, i, a[1], a[2])
        BY <2>1, <2>3 DEF QuietLists
    <3>2. PICK dir, dp : dir \in Dirs(info[i].vol) /\ dp \in Nat /\ List(p, i, dir, dp)
        BY <2>1, <3>1, ListedFrom
    <3> QED
        BY <1>2, <3>2, ListWalk
  <2>4. CASE Finds(p, i)
    <3>1. PICK a \in FindArgs[v] : Find(p, i, a[1], a[2])
        BY <2>1, <2>4 DEF Finds
    <3>2. PICK dir, name : dir \in Dirs(info[i].vol) /\ Find(p, i, dir, name)
        BY <2>1, <3>1, FoundIn
    <3> QED
        BY <1>2, <3>2, FindWalk
  <2> QED
      BY <1>2, <2>2, <2>3, <2>4
<1>3. ASSUME NEW p \in Procs, NEW d, NEW l, NEW w, Raw(p, w, d, l) PROVE WalksRight'
    BY <1>3, RawWalk
<1>4. ASSUME NEW p \in Procs, FatSteps(p) PROVE WalksRight'
    BY <1>4, FatStepsWalks
<1>5. ASSUME NEW p \in Procs, Ask(p) PROVE WalksRight'
    BY <1>5, AskWalk
<1>6. ASSUME NEW p \in Procs, QuietMoves(p), UNCHANGED fatVars PROVE WalksRight'
    BY <1>6, MovesWalk
<1>7. ASSUME Closes \/ UNCHANGED vars PROVE WalksRight'
  <2>1. UNCHANGED <<ideVars, info, count, pos, job>>
      BY <1>7 DEF Closes, Close, vars, fatVars
  <2> QED
      BY <2>1, SameWalks
<1> QED
    BY <1>1, <1>2, <1>3, <1>4, <1>5, <1>6, <1>7 DEF QuietNext

(* The inductive invariant of the types: reads are right, channels have    *)
(* what they are asked for, directories are walked along their chains, and *)
(* no name or node is kept twice.                                          *)
TInv ==
    /\ QInv /\ RInv
    /\ \A c \in Channels : ChannelRight(c)
    /\ WalksRight
    /\ KeysRight

LEMMA TInit == Init => TInv
BY QInit, RInit, ChannelsInit, WalksInit, KeysInit DEF TInv

LEMMA TNext == VolumesSound /\ DirectoriesSound /\ TInv /\ [QuietNext]_vars => TInv'
<1> SUFFICES ASSUME VolumesSound, DirectoriesSound, TInv, [QuietNext]_vars PROVE TInv'
    OBVIOUS
<1>1. QInv /\ RInv /\ WalksRight /\ KeysRight /\ \A c \in Channels : ChannelRight(c)
    BY DEF TInv
<1>2. QInv' /\ RInv'
    BY <1>1, QNext, RNext
<1>3. VolumesSound'
    BY DEF VolumesSound, All, ChainSound, Chain
<1>4. ReadsInside'
    BY <1>2, <1>3, ClustersInside, PTL
<1>5. WalksRight'
    BY <1>1, <1>4, WalksNext
<1>6. KeysRight'
    BY <1>1, KeysNext
<1>7. \A c \in Channels : ChannelRight(c)'
    BY <1>1, ChannelsNext
<1> QED
    BY <1>2, <1>5, <1>6, <1>7 DEF TInv

LEMMA CachedAtMost ==
    ASSUME VolumesSound, NEW v \in DOMAIN Volumes
    PROVE  Cached(Volumes[v]) =< Count(Volumes[v]) /\ Cached(Volumes[v]) \in Int /\ Count(Volumes[v]) \in Int
<1>1. PICK n \in Int : n = Count(Volumes[v])
    BY VolumeNumbers
<1>2. 2 * (n \div 2) =< n /\ 2 * (n \div 2) \in Int
    OBVIOUS
<1>3. Cached(Volumes[v]) = 2 * (n \div 2) \/ Cached(Volumes[v]) = n
    BY <1>1 DEF Cached
<1> QED
    BY <1>1, <1>2, <1>3

(* No more of a table is kept than there are clusters.                     *)
LEMMA TableFits ==
    ASSUME VolumesSound, QInv, RInv, NEW i \in Slots, info[i] # None
    PROVE  info[i].vol \in DOMAIN Volumes /\ Len(info[i].fat) <= Count(Volumes[info[i].vol])
<1>1. info[i] \in Info
    BY DEF QInv, StateTypeOK, InfoTypeOK
<1>2. PICK v \in DOMAIN Volumes, t \in Seq(Nat) : info[i].vol = v /\ info[i].fat = t
    BY <1>1 DEF Info
<1>3. Len(t) =< Cached(Volumes[v])
    BY <1>2 DEF RInv, InfoRight, TableKept, B
<1>4. Cached(Volumes[v]) =< Count(Volumes[v]) /\ Cached(Volumes[v]) \in Int /\ Count(Volumes[v]) \in Int
    BY CachedAtMost
<1>5. PICK l \in Nat, c \in Int, n \in Int : l = Len(t) /\ c = Cached(Volumes[v]) /\ n = Count(Volumes[v])
    BY <1>4
<1>6. l <= n
    BY <1>3, <1>4, <1>5
<1> QED
    BY <1>2, <1>5, <1>6

LEMMA TInvTypeOK == ASSUME VolumesSound, TInv PROVE TypeOK
<1>1. QInv /\ RInv /\ WalksRight /\ KeysRight /\ \A c \in Channels : ChannelRight(c)
    BY DEF TInv
<1>2. IdeTypeOK
  <2>1. \A d \in Disks : disk[d] \in [0 .. Size[d] - 1 -> Data]
      BY <1>1 DEF QInv, StateTypeOK
  <2>2. \A c \in Channels :
            /\ regs[c] = NoAddress \/ regs[c].disk \in Disks
            /\ Len(stream[c]) <= regs[c].n /\ Len(asks[c]) <= regs[c].n
      BY <1>1 DEF ChannelRight
  <2>3. \A p \in Procs : io[p].pc \in Pcs /\ (io[p].pc # "idle" => io[p].disk \in Disks)
      BY <1>1 DEF WalksRight, QInv, IoRight
  <2> QED
      BY <2>1, <2>2, <2>3 DEF IdeTypeOK, Pcs
<1>3. count \in 0 .. Cardinality(DOMAIN Volumes)
  <2>1. count \in Nat /\ count =< Cardinality(DOMAIN Volumes)
      BY <1>1 DEF RInv, WalksRight
  <2> QED
      BY <2>1, VolumesCounted
<1>4. \A i \in Slots :
          info[i] # None => info[i].vol \in DOMAIN Volumes /\ Len(info[i].fat) <= Count(Volumes[info[i].vol])
    BY <1>1, TableFits
<1>5. \A i \in Slots : pos[i] \in Nat
    BY <1>1 DEF WalksRight, Handles
<1>6. \A k, m \in DOMAIN lfn : k # m => lfn[k].i # lfn[m].i \/ lfn[k].dir # lfn[m].dir
  <2>1. DOMAIN lfn = 1 .. Len(lfn)
      BY <1>1 DEF KeysRight, BuffersRight
  <2> QED
      BY <1>1, <2>1 DEF KeysRight, BuffersRight, SameBuffer
<1>7. \A k, m \in DOMAIN nodes : k # m => nodes[k].i # nodes[m].i \/ nodes[k].cl # nodes[m].cl
  <2>1. DOMAIN nodes = 1 .. Len(nodes)
      BY <1>1 DEF KeysRight, NodesRight
  <2> QED
      BY <1>1, <2>1 DEF KeysRight, NodesRight, SameNode
<1>8. \A p \in Procs :
          /\ job[p].op \in {"idle", "mount", "read", "list", "find"}
          /\ job[p].op # "idle" => job[p].i \in Slots
    BY <1>1 DEF RInv, DriverRight, QInv, JobRight
<1> QED
    BY <1>2, <1>3, <1>4, <1>5, <1>6, <1>7, <1>8 DEF TypeOK

(* What the driver keeps is what its code relies on: no more volumes are   *)
(* mounted than there are, no more of a table is kept than the volume has  *)
(* clusters, the handle is never moved before the start of the device, a   *)
(* directory has one buffer for a long name and a file one node, and a     *)
(* channel has no more to deliver than its registers say; of volumes whose *)
(* chains of clusters are sound, those of their directories too.           *)
THEOREM FatTyped == ASSUME VolumesSound, DirectoriesSound PROVE QuietSpec => []TypeOK
<1>1. TInv => TypeOK
    BY TInvTypeOK
<1>2. TInv /\ [QuietNext]_vars => TInv'
    BY TNext
<1>3. Init => TInv
    BY TInit
<1> QED
    BY <1>1, <1>2, <1>3, PTL DEF QuietSpec
=============================================================================
