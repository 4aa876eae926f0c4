-------------------------------- MODULE Ide --------------------------------
(***************************************************************************)
(* The IDE driver (CommonCode/drv_ide.c): its nodes under /Devices/ide and *)
(* the transfers of sectors.  Two disks share a channel and its registers, *)
(* and no lock keeps processes apart.                                      *)
(*                                                                         *)
(* Data is counted in sectors.  What a sector of a disk holds is a triple: *)
(* the disk, the sector, and what was written there since (0 is nothing).  *)
(***************************************************************************)
EXTENDS Naturals, Sequences, FiniteSetsExt, SequencesExt

CONSTANTS
    Procs,          \* processes
    Disks,          \* the disks that answer hdd_ping(), in 0 .. 3
    Size,           \* Size[d]: the sectors of disk d
    Parts           \* Parts[d]: its partitions, [lba, length]

ASSUME IdeConstants ==
    /\ Disks \subseteq 0 .. 3
    /\ \A d \in Disks : Size[d] \in Nat /\ Parts[d] \in Seq([lba : Nat, length : Nat])
    /\ \A d \in Disks : \A k \in 1 .. Len(Parts[d]) : Parts[d][k].lba + Parts[d][k].length <= Size[d]

VARIABLES
    disk,           \* disk[d]: what was written to each sector of disk d
    regs,           \* regs[c]: the address registers of channel c
    stream,         \* stream[c]: sectors the channel is about to deliver
    asks,           \* asks[c]: sectors it waits for
    io              \* what each process does here

ideVars == <<disk, regs, stream, asks, io>>

Channel(d) == d \div 2
Channels == 0 .. 1
Data == 0 .. 1
NoIo == [pc |-> "idle", write |-> FALSE, disk |-> 0, lba |-> 0, n |-> 0, got |-> <<>>]
Holds(d, l) == <<d, l, disk[d][l]>>
Junk == <<>>
NoAddress == [disk |-> 0, lba |-> 0, n |-> 0]

IdeInit ==
    /\ disk = [d \in Disks |-> [l \in 0 .. Size[d] - 1 |-> 0]]
    /\ regs = [c \in Channels |-> NoAddress]
    /\ stream = [c \in Channels |-> <<>>]
    /\ asks = [c \in Channels |-> <<>>]
    /\ io = [p \in Procs |-> NoIo]
-----------------------------------------------------------------------------
(* Nodes                                                                   *)

(* hdd_readFS() and hdd_writeFS() on partition k of disk d, or on all of it*)
(* for k = 0, where nothing is checked: no request at all, or one.         *)
Fits(d, k, off, n) == k # 0 => k <= Len(Parts[d]) /\ off + n <= Parts[d][k].length
Lba(d, k, off) == IF k = 0 THEN off ELSE Parts[d][k].lba + off

(* setup_disks(): the partitions of a disk and the ones before it, counted *)
(* for the disks that answer.                                              *)
Counts(parts) ==
    [d \in 0 .. 3 |-> IF d \notin DOMAIN parts THEN 0
                      ELSE MapThenSumSet(LAMBDA e : parts[e], {e \in DOMAIN parts : e <= d})]

(* hdd_installFS(): how many nodes, and the disk and partition each is for.*)
NodeCount(gi) ==
    LET some == {d \in 0 .. 3 : gi[d] > 0}
    IN  IF some = {} THEN 0 ELSE Max(some) + 1 + gi[Max(some)]

NodeAt(gi, i) ==
    LET d == Min({e \in 0 .. 3 : i < gi[e] + e + 1})
        before == IF d = 0 THEN 0 ELSE gi[d - 1] + d
    IN  [disk |-> d, part |-> i - before]

(* What unaligned reads copy, byte by byte, with sectors of B bytes: where *)
(* in the device byte j of the buffer comes from.  Every piece is copied   *)
(* from the same place in its sector, and beyond the sector comes whatever *)
(* lies there.                                                             *)
Unaligned(B, off, len, j) ==
    LET piece == IF len <= B THEN 0 ELSE j \div B
        last == piece > 0 /\ piece = (len + B - 1) \div B - 1
        from == (IF piece = 0 \/ last THEN off % B ELSE 0) + j - piece * B
    IN  IF from < B THEN <<(off \div B + piece) * B + from>> ELSE Junk
-----------------------------------------------------------------------------
(* Transfers                                                               *)

Becomes(p, r) == io' = [io EXCEPT ![p] = r]
Request(w, d, l, n, pc) == [NoIo EXCEPT !.pc = pc, !.write = w, !.disk = d, !.lba = l, !.n = n]

(* hdd_read() and hdd_write(): the address, ...                            *)
Addressed(p) == [regs EXCEPT ![Channel(io[p].disk)] = [disk |-> io[p].disk, lba |-> io[p].lba, n |-> io[p].n]]

Setup(p) ==
    /\ io[p].pc = "setup"
    /\ regs' = Addressed(p)
    /\ io' = [io EXCEPT ![p].pc = "issue"]
    /\ UNCHANGED <<disk, stream, asks>>

(* ... and the command, for the address that is there by now.  A drive     *)
(* takes a new command whatever it was about (external).                   *)
Sectors(r) == [j \in 1 .. r.n |-> IF r.lba + j - 1 < Size[r.disk] THEN Holds(r.disk, r.lba + j - 1) ELSE Junk]

Starts(p, r) ==
    LET c == Channel(io[p].disk)
    IN  /\ stream' = [stream EXCEPT ![c] = IF io[p].write THEN <<>> ELSE Sectors(r)]
        /\ asks' = [asks EXCEPT ![c] = IF io[p].write THEN [j \in 1 .. r.n |-> <<r.disk, r.lba + j - 1>>] ELSE <<>>]
        /\ io' = [io EXCEPT ![p].pc = IF io[p].write THEN "put" ELSE "take"]

Issue(p) ==
    /\ io[p].pc = "issue"
    /\ Starts(p, regs[Channel(io[p].disk)])
    /\ UNCHANGED <<disk, regs>>

(* Both at once.                                                           *)
Command(p) ==
    /\ io[p].pc = "setup"
    /\ regs' = Addressed(p)
    /\ Starts(p, regs'[Channel(io[p].disk)])
    /\ UNCHANGED disk

(* A read waits until there is data, once, then takes all it wants.  (The  *)
(* drive has the next sector at once, and its registers mean nothing when  *)
(* it has delivered the last: external.)                                   *)
Take(p) ==
    LET c == Channel(io[p].disk)
        got == Append(io[p].got, IF stream[c] = <<>> THEN Junk ELSE Head(stream[c]))
    IN  /\ io[p].pc = "take"
        /\ io[p].got = <<>> => stream[c] # <<>>
        /\ stream' = [stream EXCEPT ![c] = IF @ = <<>> THEN @ ELSE Tail(@)]
        /\ io' = [io EXCEPT ![p].got = got, ![p].pc = IF Len(got) = io[p].n THEN "done" ELSE "take"]
        /\ regs' = [regs EXCEPT ![c] = IF stream'[c] = <<>> THEN NoAddress ELSE @]
        /\ UNCHANGED <<disk, asks>>

SecondPort(d) == 1

(* A write sends its sectors to the data port of the first channel,        *)
(* whichever channel has the disk.                                         *)
Port(d) == 0

Put(p) ==
    LET c == Port(io[p].disk)
        next == IF asks[c] = <<>> THEN Junk ELSE Head(asks[c])
    IN  /\ io[p].pc = "put"
        /\ disk' = IF next = Junk \/ next[1] \notin Disks \/ next[2] >= Size[next[1]] THEN disk
                   ELSE [disk EXCEPT ![next[1]][next[2]] = 1]
        /\ asks' = [asks EXCEPT ![c] = IF @ = <<>> THEN @ ELSE Tail(@)]
        /\ io' = [io EXCEPT ![p].n = @ - 1, ![p].lba = @ + 1, ![p].pc = IF io[p].n = 1 THEN "put_done" ELSE "put"]
        /\ regs' = [regs EXCEPT ![c] = IF asks'[c] = <<>> THEN NoAddress ELSE @]
        /\ UNCHANGED stream

Moves(p) == Setup(p) \/ Issue(p) \/ Take(p) \/ Put(p)
QuietMoves(p) == Command(p) \/ Take(p) \/ Put(p)
-----------------------------------------------------------------------------
IdeTypeOK ==
    /\ \A d \in Disks : disk[d] \in [0 .. Size[d] - 1 -> Data]
    /\ \A c \in Channels :
          /\ regs[c] = NoAddress \/ regs[c].disk \in Disks
          /\ Len(stream[c]) <= regs[c].n /\ Len(asks[c]) <= regs[c].n
    /\ \A p \in Procs :
          /\ io[p].pc \in {"idle", "ask", "setup", "issue", "take", "put", "done", "put_done"}
          /\ io[p].pc # "idle" => io[p].disk \in Disks

(* What a process has read so far is what the disk it asked holds where it *)
(* asked, sector by sector, and what it has written is there, whatever     *)
(* other processes read and write in between.                              *)
TransfersRight ==
    \A p \in Procs :
        /\ io[p].pc \in {"take", "done"} =>
              \A j \in 1 .. Len(io[p].got) : io[p].got[j] = Holds(io[p].disk, io[p].lba + j - 1)
        /\ io[p].pc = "put_done" => disk[io[p].disk][io[p].lba - 1] = 1
=============================================================================
