---------------------------- MODULE FloppyProofs ----------------------------
(***************************************************************************)
(* Proofs about the floppy driver (Floppy), for any number of readers,     *)
(* timers, cache entries and tries.                                        *)
(*                                                                         *)
(* DriveInv is about the two locks and the interrupt and holds for any     *)
(* drives and sectors.  DataInv, about what the arm, the DMA buffer and the*)
(* cache hold, needs sectors on one side of the disk and off cylinder 1, on*)
(* which the driver believes the arm to be at the start.                   *)
(***************************************************************************)
EXTENDS Floppy, FiniteSetTheorems, WellFoundedInduction, TLAPS

-----------------------------------------------------------------------------
(* The locks and the interrupt                                             *)

Pcs == {"idle", "cache", "cacheset", "lookup", "done", "remove", "motor", "start", "find", "set",
        "spin", "lock", "lockset", "seek", "seeking", "read", "reading", "copy", "findoff", "setoff",
        "keep", "keepset", "key", "data"}

Data == Nat \cup {Nothing}
JobType == [pc : Pcs, disk : Disks \cup {Nothing}, lba : Sectors \cup {Nothing}, buf : Data,
            slot : TimerIds \cup 1 .. CacheSize \cup {NoTimer}, tries : 0 .. SeekTimeout]
EntryType == [disk : Disks \cup {Nothing}, lba : Sectors \cup {Nothing}, data : Data]
CommandType == [do : {"seek", "read"}, disk : Disks, at : {Dims(lba) : lba \in Sectors}]

Typed ==
    /\ timers \in [TimerIds -> Calls \cup {NoTimer}]
    /\ motor \in [Disks -> 0 .. 2]
    /\ timer \in [Disks -> TimerIds \cup {NoTimer}]
    /\ track \in [Disks -> [Heads -> Cyls \cup {-1}]]
    /\ arm \in [Disks -> Cyls]
    /\ inUse \in BOOLEAN /\ cacheInUse \in BOOLEAN /\ irq6 \in BOOLEAN
    /\ cache \in [1 .. CacheSize -> EntryType]
    /\ command \in CommandType \cup {Nothing}
    /\ status \in {"ok", "failed"}
    /\ dma \in Data
    /\ job \in [Readers -> JobType]

(* Where a reader is inside of a lock, and between its test and its store. *)
Driving == {"seek", "seeking", "read", "reading", "copy"}
ToDrive == Driving \cup {"lockset"}
Caching == {"lookup", "key", "data"}
ToCache == Caching \cup {"cacheset", "keepset"}
Setting == {"set", "setoff"}

(* Only one reader at a time.                                              *)
Alone(S) == \A r, q \in Readers : job[r].pc \in S /\ job[q].pc \in S => r = q

Locks ==
    /\ Alone(ToDrive) /\ Alone(ToCache) /\ Alone(Setting)
    /\ inUse <=> \E r \in Readers : job[r].pc \in Driving
    /\ cacheInUse <=> \E r \in Readers : job[r].pc \in Caching

(* The timer in hand is still free when it is set.                         *)
JobOK(r) ==
    /\ job[r].pc # "idle" => job[r].disk \in Disks /\ job[r].lba \in Sectors
    /\ job[r].pc \in Setting =>
          /\ job[r].slot \in TimerIds \cup {NoTimer}
          /\ job[r].slot # NoTimer => timers[job[r].slot] = NoTimer
    /\ job[r].pc = "data" => job[r].slot \in 1 .. CacheSize

Waiting == {"seeking", "reading"}
Told(r) == [do |-> IF job[r].pc = "seeking" THEN "seek" ELSE "read",
            disk |-> job[r].disk, at |-> Dims(job[r].lba)]

(* The controller does what the one who waits has told it, or has done it. *)
Answers ==
    /\ \A r \in Readers : job[r].pc \in Waiting =>
          \/ irq6 /\ command = Nothing
          \/ ~ irq6 /\ command = Told(r)
    /\ (\A r \in Readers : job[r].pc \notin Waiting) => command = Nothing /\ ~ irq6

DriveInv == Typed /\ Locks /\ (\A r \in Readers : JobOK(r)) /\ Answers
-----------------------------------------------------------------------------
(* Numbers                                                                 *)

LessNat == {ss \in Nat \X Nat : ss[1] < ss[2]}

(* Any numbers have a least one, and bounded ones a greatest.              *)
LEMMA LeastExists ==
    ASSUME NEW S \in SUBSET Nat, S # {}
    PROVE  \E x \in S : \A y \in S : x <= y
<1>1. IsWellFoundedOn(LessNat, Nat)
  BY NatLessThanWellFounded DEF OpToRel, LessNat
<1>2. \E x \in S : \A y \in S : ~ (<<y, x>> \in LessNat)
  BY <1>1, WFMin, Zenon
<1>3. PICK x \in S : \A y \in S : ~ (<<y, x>> \in LessNat)
  BY <1>2
<1>4. \A y \in S : x <= y
  <2>1. SUFFICES ASSUME NEW y \in S, y < x PROVE FALSE
    OBVIOUS
  <2>2. <<y, x>> \in Nat \X Nat
    BY <2>1
  <2>3. <<y, x>>[1] < <<y, x>>[2]
    BY <2>1
  <2> QED
    BY <1>3, <2>2, <2>3 DEF LessNat
<1> QED
  BY <1>4

LEMMA GreatestExists ==
    ASSUME NEW n \in Nat, NEW S \in SUBSET (0 .. n), S # {}
    PROVE  \E x \in S : \A y \in S : y <= x
<1> DEFINE T == {n - x : x \in S}
<1>1. T \in SUBSET Nat /\ T # {}
  <2>1. \A x \in S : n - x \in Nat
    OBVIOUS
  <2> QED
    BY <2>1
<1>2. PICK t \in T : \A u \in T : t <= u
  BY <1>1, LeastExists
<1>3. PICK x \in S : t = n - x
  OBVIOUS
<1>4. \A y \in S : n - y \in T
  OBVIOUS
<1>5. \A y \in S : t <= n - y
  BY <1>2, <1>4
<1>6. \A y \in S : y \in Int
  OBVIOUS
<1> HIDE DEF T
<1>7. \A y \in S : y <= x
  BY <1>3, <1>5, <1>6
<1> QED
  BY <1>7

LEMMA Constants ==
    /\ TimerCount \in Nat /\ NoTimer \notin Nat /\ NoTimer \notin Calls
    /\ Nothing \notin Nat /\ Sectors \subseteq Nat /\ PerTrack \in Nat /\ PerTrack >= 1
    /\ CacheSize \in Nat /\ CacheSize >= 1 /\ SeekTimeout \in Nat /\ MaxCyl \in Nat /\ MaxCyl >= 1
    /\ Calls = [fn : {"on", "off"}, disk : Disks]
<1>1. (MaxCyl + 1) * 2 * PerTrack \in Int
  BY FloppyConstants
<1>2. Sectors \subseteq Nat
  BY <1>1, FloppyConstants
<1> QED
  BY <1>2, TimersConstants, FloppyConstants

(* get_dims() finds a cylinder and a head of the disk.                     *)
LEMMA DimsTyped ==
    ASSUME NEW lba \in Sectors
    PROVE  /\ Dims(lba).cyl \in Cyls /\ Dims(lba).head \in Heads
           /\ Dims(lba).cyl \in Nat /\ Dims(lba).head \in Nat /\ Dims(lba).sec \in Nat
           /\ At(Dims(lba)) \in Nat
<1>1. lba \in Nat /\ lba < (MaxCyl + 1) * 2 * PerTrack
  BY FloppyConstants
<1> DEFINE t == 2 * PerTrack
           c == lba \div t
<1>2. t \in Nat /\ t >= 1 /\ (MaxCyl + 1) * 2 * PerTrack = (MaxCyl + 1) * t
  BY FloppyConstants
<1>3. c \in Nat /\ c * t <= lba
  BY <1>1, <1>2
<1> HIDE DEF c, t
<1>4. c <= MaxCyl
  <2>1. SUFFICES ASSUME MaxCyl + 1 <= c PROVE FALSE
    BY <1>3, Constants
  <2>2. (MaxCyl + 1) * t <= c * t
    BY <1>2, <1>3, <2>1, Constants
  <2>3. (MaxCyl + 1) * t <= lba
    BY <1>1, <1>2, <1>3, <2>2, Constants
  <2> QED
    BY <1>1, <1>2, <2>3, Constants
<1>5. (lba \div PerHead) % 2 \in 0 .. 1 /\ lba % PerTrack \in Nat
  BY <1>1, FloppyConstants
<1>6. Dims(lba).cyl = c /\ Dims(lba).head = (lba \div PerHead) % 2 /\ Dims(lba).sec = lba % PerTrack
  BY DEF Dims, c, t
<1>7. Dims(lba).cyl \in Cyls /\ Dims(lba).head \in Heads
  BY <1>3, <1>4, <1>5, <1>6, Constants DEF Cyls, Heads
<1>8. Dims(lba).cyl \in Nat /\ Dims(lba).head \in Nat /\ Dims(lba).sec \in Nat
  BY <1>3, <1>5, <1>6
<1>9. PICK x \in Nat, y \in Nat, z \in Nat : x = Dims(lba).cyl /\ y = Dims(lba).head /\ z = Dims(lba).sec
  BY <1>8
<1>10. (2 * x + y) * PerTrack + z \in Nat
  BY <1>9, Constants
<1> QED
  BY <1>7, <1>8, <1>9, <1>10 DEF At

(* time_createTimer() and the search of the cache find what they look for. *)
LEMMA FoundTimerTyped ==
    /\ FoundTimer \in TimerIds \cup {NoTimer}
    /\ FoundTimer # NoTimer => timers[FoundTimer] = NoTimer
    /\ FoundTimer = NoTimer => Unset = {}
<1>1. CASE Unset = {}
  BY <1>1 DEF FoundTimer
<1>2. CASE Unset # {}
  <2>1. PICK n \in Nat : n = TimerCount - 1
    BY <1>2, Constants DEF Unset, TimerIds
  <2>2. Unset \in SUBSET (0 .. n)
    BY <2>1 DEF Unset, TimerIds
  <2>3. \E x \in Unset : \A y \in Unset : y <= x
    BY <1>2, <2>2, GreatestExists
  <2>4. FoundTimer \in Unset
    BY <1>2, <2>3 DEF FoundTimer
  <2> QED
    BY <2>4, Constants DEF Unset, TimerIds
<1> QED
  BY <1>1, <1>2

LEMMA ReplaceableTyped ==
    ASSUME Typed
    PROVE  Replaceable \subseteq 1 .. CacheSize
<1> DEFINE empty == {i \in DOMAIN cache : cache[i].lba = Nothing}
<1>1. DOMAIN cache = 1 .. CacheSize
  BY DEF Typed
<1>2. CASE empty = {}
  BY <1>1, <1>2 DEF Replaceable
<1>3. CASE empty # {}
  <2>1. empty \in SUBSET Nat
    BY <1>1
  <2> HIDE DEF empty
  <2>2. \E x \in empty : \A y \in empty : x <= y
    BY <1>3, <2>1, LeastExists
  <2>3. (CHOOSE i \in empty : \A j \in empty : i <= j) \in empty
    BY <2>2
  <2>4. Replaceable = {CHOOSE i \in empty : \A j \in empty : i <= j}
    BY <1>3 DEF Replaceable, empty
  <2> QED
    BY <1>1, <2>3, <2>4 DEF empty
<1> QED
  BY <1>2, <1>3

-----------------------------------------------------------------------------
(* A reader's step                                                         *)

LEMMA JobMoves ==
    ASSUME Typed, NEW r \in Readers, NEW j \in JobType, job' = [job EXCEPT ![r] = j]
    PROVE  /\ job' \in [Readers -> JobType]
           /\ job'[r] = j
           /\ \A q \in Readers : q # r => job'[q] = job[q]
BY DEF Typed

(* What a step of r from job[r] to j has to show, when it is alone in the  *)
(* locks it goes into, and sets and clears their flags.                    *)
LEMMA ReaderStep ==
    ASSUME DriveInv, NEW r \in Readers, NEW j \in JobType, job' = [job EXCEPT ![r] = j],
           Typed', Answers', JobOK(r)',
           j.pc \in ToDrive /\ job[r].pc \notin ToDrive => \A q \in Readers : job[q].pc \notin ToDrive,
           j.pc \in ToCache /\ job[r].pc \notin ToCache => \A q \in Readers : job[q].pc \notin ToCache,
           j.pc \in Setting => \A q \in Readers \ {r} : job[q].pc \notin Setting,
           \/ inUse' = inUse /\ (j.pc \in Driving <=> job[r].pc \in Driving)
           \/ inUse' = TRUE /\ j.pc \in Driving
           \/ inUse' = FALSE /\ j.pc \notin Driving /\ job[r].pc \in Driving,
           \/ cacheInUse' = cacheInUse /\ (j.pc \in Caching <=> job[r].pc \in Caching)
           \/ cacheInUse' = TRUE /\ j.pc \in Caching
           \/ cacheInUse' = FALSE /\ j.pc \notin Caching /\ job[r].pc \in Caching,
           \A i \in TimerIds : timers[i] = NoTimer => timers'[i] = NoTimer \/ job[r].pc \in Setting
    PROVE  DriveInv'
<1>1. job'[r] = j /\ \A q \in Readers : q # r => job'[q] = job[q]
  BY JobMoves DEF DriveInv
<1>2. Driving \subseteq ToDrive /\ Caching \subseteq ToCache
  BY DEF ToDrive, ToCache
<1>3. Alone(ToDrive)' /\ Alone(ToCache)' /\ Alone(Setting)'
  BY <1>1 DEF DriveInv, Locks, Alone
<1>4. (inUse <=> \E q \in Readers : job[q].pc \in Driving)'
  BY <1>1, <1>2 DEF DriveInv, Locks, Alone
<1>5. (cacheInUse <=> \E q \in Readers : job[q].pc \in Caching)'
  BY <1>1, <1>2 DEF DriveInv, Locks, Alone
<1>6. ASSUME NEW q \in Readers, q # r PROVE JobOK(q)'
  <2>1. JobOK(q) /\ job'[q] = job[q]
    BY <1>1, <1>6 DEF DriveInv
  <2>2. ASSUME job[q].pc \in Setting, job[q].slot # NoTimer
        PROVE  timers'[job[q].slot] = NoTimer
    <3>1. job[r].pc \notin Setting
      BY <1>6, <2>2 DEF DriveInv, Locks, Alone
    <3>2. job[q].slot \in TimerIds /\ timers[job[q].slot] = NoTimer
      BY <2>1, <2>2 DEF JobOK
    <3> QED
      BY <3>1, <3>2
  <2> QED
    BY <2>1, <2>2 DEF JobOK
<1>7. \A q \in Readers : JobOK(q)'
  BY <1>6
<1> QED
  BY <1>3, <1>4, <1>5, <1>7 DEF DriveInv, Locks

LEMMA AnswersSame ==
    ASSUME DriveInv, NEW r \in Readers, NEW j \in JobType, job' = [job EXCEPT ![r] = j],
           j.pc \notin Waiting, job[r].pc \notin Waiting, irq6' = irq6, command' = command
    PROVE  Answers'
<1>1. job'[r] = j /\ \A q \in Readers : q # r => job'[q] = job[q]
  BY JobMoves DEF DriveInv
<1>2. \A q \in Readers : /\ job'[q].pc \in Waiting <=> job[q].pc \in Waiting
                         /\ job'[q].pc \in Waiting => job'[q] = job[q]
  BY <1>1
<1> QED
  BY <1>2 DEF DriveInv, Answers, Told

(* Most steps of a reader only move it on.                                 *)
LEMMA GotoStep ==
    ASSUME DriveInv, NEW r \in Readers, NEW pc \in Pcs, Goto(r, pc), pc # "idle", pc # "data",
           Typed', job[r].pc # "idle",
           irq6' = irq6, command' = command, timers' = timers \/ timers' = Removed(timer[job[r].disk]),
           pc \notin Waiting, job[r].pc \notin Waiting, pc \notin Setting,
           pc \in ToDrive /\ job[r].pc \notin ToDrive => \A q \in Readers : job[q].pc \notin ToDrive,
           pc \in ToCache /\ job[r].pc \notin ToCache => \A q \in Readers : job[q].pc \notin ToCache,
           \/ inUse' = inUse /\ (pc \in Driving <=> job[r].pc \in Driving)
           \/ inUse' = TRUE /\ pc \in Driving,
           \/ cacheInUse' = cacheInUse /\ (pc \in Caching <=> job[r].pc \in Caching)
           \/ cacheInUse' = TRUE /\ pc \in Caching
           \/ cacheInUse' = FALSE /\ pc \notin Caching /\ job[r].pc \in Caching
    PROVE  DriveInv'
<1>1. PICK j : j = [job[r] EXCEPT !.pc = pc]
  OBVIOUS
<1>2. job[r] \in JobType
  BY DEF DriveInv, Typed
<1>3. j \in JobType /\ j.pc = pc /\ j.disk = job[r].disk /\ j.lba = job[r].lba
  BY <1>1, <1>2 DEF JobType
<1>4. job' = [job EXCEPT ![r] = j]
  BY <1>1 DEF Goto, DriveInv, Typed
<1>5. Answers'
  BY <1>3, <1>4, AnswersSame
<1>6. JobOK(r)'
  <2>1. job'[r] = j
    BY <1>3, <1>4, JobMoves DEF DriveInv
  <2> QED
    BY <1>3, <2>1 DEF DriveInv, JobOK
<1>7. \A i \in TimerIds : timers[i] = NoTimer => timers'[i] = NoTimer
  BY DEF Removed
<1> QED
  BY <1>3, <1>4, <1>5, <1>6, <1>7, ReaderStep

(* So does the typing of a step that does not touch the variables it does  *)
(* not name.                                                               *)
LEMMA GotoTyped ==
    ASSUME Typed, NEW r \in Readers, NEW pc \in Pcs, Goto(r, pc)
    PROVE  job' \in [Readers -> JobType]
<1>1. [job[r] EXCEPT !.pc = pc] \in JobType
  BY DEF Typed, JobType
<1> QED
  BY <1>1 DEF Typed, Goto

-----------------------------------------------------------------------------
(* The steps of a reader: the cache                                        *)

LEMMA StartKeeps ==
    ASSUME DriveInv, NEW r \in Readers, NEW d \in Disks, NEW lba \in Sectors, Start(r, d, lba)
    PROVE  DriveInv'
<1>1. PICK i, j : i = Idle /\ j = [i EXCEPT !.pc = "cache", !.disk = d, !.lba = lba]
  OBVIOUS
<1>2. j \in JobType /\ j.pc = "cache" /\ j.disk = d /\ j.lba = lba
  <2>1. 0 \in 0 .. SeekTimeout
    BY Constants
  <2>2. i \in JobType
    BY <1>1, <2>1 DEF Idle, JobType, Pcs, Data
  <2> QED
    BY <1>1, <2>2 DEF JobType, Pcs
<1>3. job' = [job EXCEPT ![r] = j]
  BY <1>1 DEF Start
<1>4. job'[r] = j /\ job' \in [Readers -> JobType]
  BY <1>2, <1>3, JobMoves DEF DriveInv
<1>5. Typed'
  BY <1>4 DEF Start, DriveInv, Typed, driver, hardware
<1>6. job[r].pc = "idle"
  BY DEF Start, Is
<1>7. Answers'
  BY <1>2, <1>3, <1>6, AnswersSame DEF Start, driver, hardware, Waiting
<1>8. JobOK(r)'
  BY <1>2, <1>4 DEF JobOK, Setting
<1> QED
  BY <1>2, <1>3, <1>5, <1>6, <1>7, <1>8, ReaderStep
     DEF Start, driver, ToDrive, ToCache, Driving, Caching, Setting

LEMMA CacheTestKeeps ==
    ASSUME DriveInv, NEW r \in Readers, CacheTest(r), ~ Others(r, {"cacheset", "keepset"})
    PROVE  DriveInv'
<1>1. PICK pc \in {"cacheset", "keepset"} : Goto(r, pc)
  BY DEF CacheTest
<1>2. job[r].pc \in {"cache", "keep"}
  BY DEF CacheTest, Is
<1>3. Typed'
  BY <1>1, GotoTyped DEF CacheTest, DriveInv, Typed, driver, hardware, Pcs
<1>4. \A q \in Readers : job[q].pc \notin ToCache
  BY <1>2 DEF CacheTest, DriveInv, Locks, Others, ToCache, Caching
<1> QED
  BY <1>1, <1>2, <1>3, <1>4, GotoStep
     DEF CacheTest, driver, hardware, Waiting, ToDrive, ToCache, Driving, Caching, Setting, Pcs

LEMMA CacheSetKeeps ==
    ASSUME DriveInv, NEW r \in Readers, CacheSet(r)
    PROVE  DriveInv'
<1>1. PICK pc \in {"lookup", "key"} : Goto(r, pc)
  BY DEF CacheSet
<1>2. job[r].pc \in {"cacheset", "keepset"}
  BY DEF CacheSet, Is
<1>3. Typed'
  BY <1>1, GotoTyped DEF CacheSet, DriveInv, Typed, driver, hardware, Pcs
<1> QED
  BY <1>1, <1>2, <1>3, GotoStep
     DEF CacheSet, driver, hardware, Waiting, ToDrive, ToCache, Driving, Caching, Setting, Pcs

LEMMA LookupKeeps ==
    ASSUME DriveInv, NEW r \in Readers, Lookup(r)
    PROVE  DriveInv'
<1>1. job[r].pc = "lookup" /\ cacheInUse' = FALSE /\ irq6' = irq6 /\ command' = command
      /\ inUse' = inUse /\ timers' = timers
  BY DEF Lookup, Is, hardware
<1>2. CASE Holding(r) = {}
  <2>1. Goto(r, "remove")
    BY <1>2 DEF Lookup
  <2>2. Typed'
    BY <2>1, GotoTyped DEF Lookup, DriveInv, Typed, hardware, Pcs
  <2> QED
    BY <1>1, <2>1, <2>2, GotoStep DEF Waiting, ToDrive, ToCache, Driving, Caching, Setting, Pcs
<1>3. CASE Holding(r) # {}
  <2>1. PICK i \in Holding(r) : job' = [job EXCEPT ![r].pc = "done", ![r].buf = cache[i].data]
    BY <1>3 DEF Lookup
  <2>2. PICK j : j = [job[r] EXCEPT !.pc = "done", !.buf = cache[i].data]
    OBVIOUS
  <2>3. job[r] \in JobType /\ cache[i].data \in Data
    BY DEF DriveInv, Typed, Holding, EntryType
  <2>4. j \in JobType /\ j.pc = "done" /\ j.disk = job[r].disk /\ j.lba = job[r].lba
    BY <2>2, <2>3 DEF JobType, Pcs
  <2>5. job' = [job EXCEPT ![r] = j]
    BY <2>1, <2>2 DEF DriveInv, Typed
  <2>6. job'[r] = j /\ job' \in [Readers -> JobType]
    BY <2>4, <2>5, JobMoves DEF DriveInv
  <2>7. Typed'
    BY <2>6 DEF Lookup, DriveInv, Typed, hardware
  <2>8. Answers'
    BY <1>1, <2>4, <2>5, AnswersSame DEF Waiting
  <2>9. JobOK(r)'
    BY <1>1, <2>4, <2>6 DEF DriveInv, JobOK, Setting
  <2> QED
    BY <1>1, <2>4, <2>5, <2>7, <2>8, <2>9, ReaderStep DEF ToDrive, ToCache, Driving, Caching, Setting
<1> QED
  BY <1>2, <1>3

LEMMA KeepKeyKeeps ==
    ASSUME DriveInv, NEW r \in Readers, KeepKey(r)
    PROVE  DriveInv'
<1>1. PICK i \in Replaceable :
        /\ Is(r, "key")
        /\ cache' = [cache EXCEPT ![i].disk = job[r].disk, ![i].lba = job[r].lba]
        /\ job' = [job EXCEPT ![r].pc = "data", ![r].slot = i]
        /\ UNCHANGED <<timers, motor, timer, track, inUse, cacheInUse, irq6, hardware>>
  BY DEF KeepKey
<1>2. i \in 1 .. CacheSize
  BY ReplaceableTyped DEF DriveInv
<1>3. PICK j : j = [job[r] EXCEPT !.pc = "data", !.slot = i]
  OBVIOUS
<1>4. job[r] \in JobType /\ cache \in [1 .. CacheSize -> EntryType]
  BY DEF DriveInv, Typed
<1>5. j \in JobType /\ j.pc = "data" /\ j.disk = job[r].disk /\ j.lba = job[r].lba /\ j.slot = i
  BY <1>2, <1>3, <1>4 DEF JobType, Pcs
<1>6. job' = [job EXCEPT ![r] = j]
  BY <1>1, <1>3 DEF DriveInv, Typed
<1>7. job'[r] = j /\ job' \in [Readers -> JobType]
  BY <1>5, <1>6, JobMoves DEF DriveInv
<1>8. job[r].disk \in Disks /\ job[r].lba \in Sectors
  BY <1>1 DEF DriveInv, JobOK, Is
<1>9. cache' \in [1 .. CacheSize -> EntryType]
  BY <1>1, <1>2, <1>4, <1>8 DEF EntryType
<1>10. Typed'
  BY <1>1, <1>7, <1>9 DEF DriveInv, Typed, hardware
<1>11. Answers'
  BY <1>1, <1>5, <1>6, AnswersSame DEF Waiting, Is, hardware
<1>12. JobOK(r)'
  BY <1>2, <1>5, <1>7, <1>8 DEF JobOK, Setting
<1> QED
  BY <1>1, <1>5, <1>6, <1>10, <1>11, <1>12, ReaderStep DEF Is, ToDrive, ToCache, Driving, Caching, Setting

LEMMA KeepDataKeeps ==
    ASSUME DriveInv, NEW r \in Readers, KeepData(r)
    PROVE  DriveInv'
<1>1. job[r].pc = "data" /\ job[r].slot \in 1 .. CacheSize /\ job[r] \in JobType
  BY DEF KeepData, Is, DriveInv, JobOK, Typed
<1>2. cache' \in [1 .. CacheSize -> EntryType]
  BY <1>1 DEF KeepData, DriveInv, Typed, EntryType, JobType
<1>3. Typed'
  BY <1>2, GotoTyped DEF KeepData, DriveInv, Typed, hardware, Pcs
<1> QED
  BY <1>1, <1>3, GotoStep
     DEF KeepData, hardware, Waiting, ToDrive, ToCache, Driving, Caching, Setting, Pcs

LEMMA ReturnKeeps ==
    ASSUME DriveInv, NEW r \in Readers, Return(r)
    PROVE  DriveInv'
<1>1. PICK j : j = [pc |-> "idle", disk |-> Nothing, lba |-> Nothing, buf |-> Nothing, slot |-> NoTimer, tries |-> 0]
  OBVIOUS
<1>2. j \in JobType /\ j.pc = "idle"
  <2>1. 0 \in 0 .. SeekTimeout
    BY Constants
  <2> QED
    BY <1>1, <2>1 DEF JobType, Pcs, Data
<1>3. job' = [job EXCEPT ![r] = j]
  BY <1>1 DEF Return, Idle
<1>4. job'[r] = j /\ job' \in [Readers -> JobType]
  BY <1>2, <1>3, JobMoves DEF DriveInv
<1>5. Typed'
  BY <1>4 DEF Return, DriveInv, Typed, driver, hardware
<1>6. job[r].pc = "done"
  BY DEF Return, Is
<1>7. Answers'
  BY <1>2, <1>3, <1>6, AnswersSame DEF Return, driver, hardware, Waiting
<1>8. JobOK(r)'
  BY <1>2, <1>4 DEF JobOK, Setting
<1> QED
  BY <1>2, <1>3, <1>5, <1>6, <1>7, <1>8, ReaderStep
     DEF Return, driver, ToDrive, ToCache, Driving, Caching, Setting

-----------------------------------------------------------------------------
(* ... the motor                                                           *)

LEMMA RemoveTimerKeeps ==
    ASSUME DriveInv, NEW r \in Readers, RemoveTimer(r)
    PROVE  DriveInv'
<1>1. job[r].pc = "remove" /\ Goto(r, "motor") /\ timers' = Removed(timer[job[r].disk])
  BY DEF RemoveTimer, Is
<1>2. timers' \in [TimerIds -> Calls \cup {NoTimer}]
  BY <1>1 DEF DriveInv, Typed, Removed
<1>3. Typed'
  BY <1>1, <1>2, GotoTyped DEF RemoveTimer, DriveInv, Typed, driver, hardware, Pcs
<1> QED
  BY <1>1, <1>3, GotoStep
     DEF RemoveTimer, driver, hardware, Waiting, ToDrive, ToCache, Driving, Caching, Setting, Pcs

LEMMA MotorTestKeeps ==
    ASSUME DriveInv, NEW r \in Readers, MotorTest(r)
    PROVE  DriveInv'
<1>1. PICK pc \in {"start", "spin"} : Goto(r, pc)
  BY DEF MotorTest
<1>2. job[r].pc = "motor"
  BY DEF MotorTest, Is
<1>3. Typed'
  BY <1>1, GotoTyped DEF MotorTest, DriveInv, Typed, driver, hardware, Pcs
<1> QED
  BY <1>1, <1>2, <1>3, GotoStep
     DEF MotorTest, driver, hardware, Waiting, ToDrive, ToCache, Driving, Caching, Setting, Pcs

LEMMA StartMotorKeeps ==
    ASSUME DriveInv, NEW r \in Readers, StartMotor(r)
    PROVE  DriveInv'
<1>1. job[r].pc = "start" /\ Goto(r, "find")
  BY DEF StartMotor, Is
<1>2. motor' \in [Disks -> 0 .. 2]
  <2>1. motor \in [Disks -> 0 .. 2] /\ 1 \in 0 .. 2
    BY DEF DriveInv, Typed
  <2> QED
    BY <2>1 DEF StartMotor
<1>3. Typed'
  BY <1>1, <1>2, GotoTyped DEF StartMotor, DriveInv, Typed, driver, hardware, Pcs
<1> QED
  BY <1>1, <1>3, GotoStep
     DEF StartMotor, driver, hardware, Waiting, ToDrive, ToCache, Driving, Caching, Setting, Pcs

LEMMA FindTimerKeeps ==
    ASSUME DriveInv, NEW r \in Readers, FindTimer(r), ~ Others(r, {"set", "setoff"})
    PROVE  DriveInv'
<1>1. PICK pc \in Setting : job' = [job EXCEPT ![r].pc = pc, ![r].slot = FoundTimer]
  BY DEF FindTimer, Setting
<1>2. job[r].pc \in {"find", "findoff"}
  BY DEF FindTimer, Is
<1>3. PICK i : i = FoundTimer
  OBVIOUS
<1>4. i \in TimerIds \cup {NoTimer} /\ (i # NoTimer => timers[i] = NoTimer)
  BY <1>3, FoundTimerTyped
<1>5. PICK j : j = [job[r] EXCEPT !.pc = pc, !.slot = i]
  OBVIOUS
<1>6. job[r] \in JobType
  BY DEF DriveInv, Typed
<1>7. j \in JobType /\ j.pc = pc /\ j.disk = job[r].disk /\ j.lba = job[r].lba /\ j.slot = i
  BY <1>4, <1>5, <1>6 DEF JobType, Pcs, Setting
<1>8. job' = [job EXCEPT ![r] = j]
  BY <1>1, <1>3, <1>5 DEF DriveInv, Typed
<1>9. job'[r] = j /\ job' \in [Readers -> JobType]
  BY <1>7, <1>8, JobMoves DEF DriveInv
<1>10. Typed'
  BY <1>9 DEF FindTimer, DriveInv, Typed, driver, hardware
<1>11. Answers'
  BY <1>2, <1>7, <1>8, AnswersSame DEF FindTimer, Waiting, driver, hardware, Setting
<1>12. JobOK(r)'
  BY <1>2, <1>4, <1>7, <1>9 DEF DriveInv, JobOK, Setting, FindTimer
<1>13. \A q \in Readers \ {r} : job[q].pc \notin Setting
  BY DEF Others, Setting
<1> QED
  BY <1>2, <1>7, <1>8, <1>10, <1>11, <1>12, <1>13, ReaderStep
     DEF FindTimer, driver, ToDrive, ToCache, Driving, Caching, Setting

LEMMA SetTimerKeeps ==
    ASSUME DriveInv, NEW r \in Readers, NEW fn \in {"on", "off"}, SetTimer(r, fn)
    PROVE  DriveInv'
<1>1. PICK pc \in {"spin", "keep"} : job' = [job EXCEPT ![r].pc = pc, ![r].slot = NoTimer]
  BY DEF SetTimer
<1>2. job[r].pc \in Setting /\ job[r].slot \in TimerIds \cup {NoTimer} /\ job[r].disk \in Disks
  BY DEF SetTimer, Is, Setting, DriveInv, JobOK
<1>3. PICK j : j = [job[r] EXCEPT !.pc = pc, !.slot = NoTimer]
  OBVIOUS
<1>4. job[r] \in JobType
  BY DEF DriveInv, Typed
<1>5. j \in JobType /\ j.pc = pc /\ j.disk = job[r].disk /\ j.lba = job[r].lba
  BY <1>3, <1>4 DEF JobType, Pcs
<1>6. job' = [job EXCEPT ![r] = j]
  BY <1>1, <1>3 DEF DriveInv, Typed
<1>7. job'[r] = j /\ job' \in [Readers -> JobType]
  BY <1>5, <1>6, JobMoves DEF DriveInv
<1>8. timers' \in [TimerIds -> Calls \cup {NoTimer}]
  <2>1. [fn |-> fn, disk |-> job[r].disk] \in Calls
    BY <1>2, Constants
  <2> QED
    BY <2>1 DEF SetTimer, Created, DriveInv, Typed
<1>9. timer' \in [Disks -> TimerIds \cup {NoTimer}]
  BY <1>2 DEF SetTimer, DriveInv, Typed
<1>10. Typed'
  BY <1>7, <1>8, <1>9 DEF SetTimer, DriveInv, Typed, driver, hardware
<1>11. Answers'
  BY <1>2, <1>5, <1>6, AnswersSame DEF SetTimer, Waiting, driver, hardware, Setting
<1>12. JobOK(r)'
  BY <1>2, <1>5, <1>7 DEF DriveInv, JobOK, Setting
<1> QED
  BY <1>2, <1>5, <1>6, <1>10, <1>11, <1>12, ReaderStep
     DEF SetTimer, driver, ToDrive, ToCache, Driving, Caching, Setting

LEMMA SpunUpKeeps ==
    ASSUME DriveInv, NEW r \in Readers, SpunUp(r)
    PROVE  DriveInv'
<1>1. job[r].pc = "spin" /\ Goto(r, "lock")
  BY DEF SpunUp, Is
<1>2. Typed'
  BY <1>1, GotoTyped DEF SpunUp, DriveInv, Typed, driver, hardware, Pcs
<1> QED
  BY <1>1, <1>2, GotoStep
     DEF SpunUp, driver, hardware, Waiting, ToDrive, ToCache, Driving, Caching, Setting, Pcs

(* A timer that goes off frees its slot, and no other is taken.            *)
LEMMA FireKeeps ==
    ASSUME DriveInv, NEW i \in TimerIds, Fire(i)
    PROVE  DriveInv'
<1>1. timers[i] \in Calls /\ timers[i].disk \in Disks
  BY Constants DEF Fire, DriveInv, Typed
<1>2. timers' \in [TimerIds -> Calls \cup {NoTimer}]
  BY DEF Fire, DriveInv, Typed
<1>3. \A k \in TimerIds : timers[k] = NoTimer => timers'[k] = NoTimer
  BY DEF Fire, DriveInv, Typed
<1>4. motor' \in [Disks -> 0 .. 2] /\ timer' \in [Disks -> TimerIds \cup {NoTimer}]
  <2>1. motor \in [Disks -> 0 .. 2] /\ 0 \in 0 .. 2 /\ 2 \in 0 .. 2
        /\ timer \in [Disks -> TimerIds \cup {NoTimer}]
    BY DEF DriveInv, Typed
  <2>2. motor' \in [Disks -> 0 .. 2]
    BY <2>1 DEF Fire
  <2>3. timer' \in [Disks -> TimerIds \cup {NoTimer}]
    BY <2>1 DEF Fire
  <2> QED
    BY <2>2, <2>3
<1>5. job' = job /\ inUse' = inUse /\ cacheInUse' = cacheInUse /\ irq6' = irq6 /\ command' = command
      /\ cache' = cache /\ track' = track /\ arm' = arm /\ status' = status /\ dma' = dma
  BY DEF Fire, driver, hardware
<1>6. Typed'
  BY <1>2, <1>4, <1>5 DEF DriveInv, Typed
<1>7. Locks' /\ Answers'
  BY <1>5 DEF DriveInv, Locks, Alone, Answers, Told
<1>8. \A q \in Readers : JobOK(q)'
  BY <1>3, <1>5 DEF DriveInv, JobOK
<1> QED
  BY <1>6, <1>7, <1>8 DEF DriveInv

-----------------------------------------------------------------------------
(* ... and the controller                                                  *)

LEMMA AnswersAsked ==
    ASSUME DriveInv, NEW r \in Readers, NEW j \in JobType, job' = [job EXCEPT ![r] = j],
           job[r].pc \in ToDrive, job[r].pc \notin Waiting, j.pc \in Waiting, irq6' = irq6,
           command' = [do |-> IF j.pc = "seeking" THEN "seek" ELSE "read",
                       disk |-> j.disk, at |-> Dims(j.lba)]
    PROVE  Answers'
<1>1. job'[r] = j /\ \A q \in Readers : q # r => job'[q] = job[q]
  BY JobMoves DEF DriveInv
<1>2. \A q \in Readers : job[q].pc \notin Waiting
  BY DEF DriveInv, Locks, Alone, ToDrive, Driving, Waiting
<1>3. ~ irq6'
  BY <1>2 DEF DriveInv, Answers
<1>4. command' = Told(r)'
  BY <1>1 DEF Told
<1>5. \A q \in Readers : job'[q].pc \in Waiting => q = r
  BY <1>1, <1>2
<1> QED
  BY <1>1, <1>3, <1>4, <1>5 DEF Answers

LEMMA AnswersTaken ==
    ASSUME DriveInv, NEW r \in Readers, NEW j \in JobType, job' = [job EXCEPT ![r] = j],
           job[r].pc \in Waiting, j.pc \notin Waiting, irq6, irq6' = FALSE, command' = command
    PROVE  Answers'
<1>1. job'[r] = j /\ \A q \in Readers : q # r => job'[q] = job[q]
  BY JobMoves DEF DriveInv
<1>2. \A q \in Readers : job'[q].pc \notin Waiting
  BY <1>1 DEF DriveInv, Locks, Alone, ToDrive, Driving, Waiting
<1>3. command = Nothing
  BY DEF DriveInv, Answers
<1> QED
  BY <1>2, <1>3 DEF Answers

LEMMA LockTestKeeps ==
    ASSUME DriveInv, NEW r \in Readers, LockTest(r), ~ Others(r, {"lockset"})
    PROVE  DriveInv'
<1>1. job[r].pc = "lock" /\ Goto(r, "lockset")
  BY DEF LockTest, Is
<1>2. Typed'
  BY <1>1, GotoTyped DEF LockTest, DriveInv, Typed, driver, hardware, Pcs
<1>3. \A q \in Readers : job[q].pc \notin ToDrive
  BY <1>1 DEF LockTest, DriveInv, Locks, Others, ToDrive, Driving
<1> QED
  BY <1>1, <1>2, <1>3, GotoStep
     DEF LockTest, driver, hardware, Waiting, ToDrive, ToCache, Driving, Caching, Setting, Pcs

LEMMA LockSetKeeps ==
    ASSUME DriveInv, NEW r \in Readers, LockSet(r)
    PROVE  DriveInv'
<1>1. job[r].pc = "lockset" /\ Goto(r, "seek")
  BY DEF LockSet, Is
<1>2. Typed'
  BY <1>1, GotoTyped DEF LockSet, DriveInv, Typed, driver, hardware, Pcs
<1> QED
  BY <1>1, <1>2, GotoStep
     DEF LockSet, hardware, Waiting, ToDrive, ToCache, Driving, Caching, Setting, Pcs

(* What a step of one who holds the controller has to show.                *)
LEMMA DriverStep ==
    ASSUME DriveInv, NEW r \in Readers, NEW j \in JobType, job' = [job EXCEPT ![r] = j],
           job[r].pc \in Driving, j.pc \in Driving, j.disk = job[r].disk, j.lba = job[r].lba,
           Typed', Answers',
           inUse' = inUse, cacheInUse' = cacheInUse, timers' = timers
    PROVE  DriveInv'
<1>1. job'[r] = j
  BY JobMoves DEF DriveInv
<1>2. JobOK(r)'
  BY <1>1 DEF DriveInv, JobOK, Driving, Setting
<1> QED
  BY <1>2, ReaderStep DEF ToDrive, ToCache, Driving, Caching, Setting

LEMMA SeekKeeps ==
    ASSUME DriveInv, NEW r \in Readers, Seek(r)
    PROVE  DriveInv'
<1> DEFINE d == job[r].disk
           a == Dims(job[r].lba)
<1>1. job[r].pc = "seek" /\ job[r] \in JobType /\ d \in Disks /\ job[r].lba \in Sectors
  BY DEF Seek, Is, DriveInv, JobOK, Typed
<1>2. UNCHANGED <<timers, motor, timer, track, driver, arm, status, dma>>
  BY DEF Seek
<1>3. CASE track[d][a.head] = a.cyl
  <2>1. Goto(r, "read") /\ command' = command
    BY <1>3 DEF Seek
  <2>2. Typed'
    BY <1>2, <2>1, GotoTyped DEF DriveInv, Typed, driver, Pcs
  <2> QED
    BY <1>1, <1>2, <2>1, <2>2, GotoStep
       DEF driver, Waiting, ToDrive, ToCache, Driving, Caching, Setting, Pcs
<1>4. CASE track[d][a.head] # a.cyl
  <2>1. Goto(r, "seeking") /\ command' = [do |-> "seek", disk |-> d, at |-> a]
    BY <1>4 DEF Seek
  <2>2. PICK j : j = [job[r] EXCEPT !.pc = "seeking"]
    OBVIOUS
  <2>3. j \in JobType /\ j.pc = "seeking" /\ j.disk = job[r].disk /\ j.lba = job[r].lba
    BY <1>1, <2>2 DEF JobType, Pcs
  <2>4. job' = [job EXCEPT ![r] = j]
    BY <2>1, <2>2 DEF Goto, DriveInv, Typed
  <2>5. command' \in CommandType
    BY <1>1, <2>1 DEF CommandType
  <2>6. Typed'
    BY <1>2, <2>1, <2>5, GotoTyped DEF DriveInv, Typed, driver, Pcs
  <2>7. Answers'
    BY <1>1, <1>2, <2>1, <2>3, <2>4, AnswersAsked DEF driver, Waiting, ToDrive, Driving
  <2> QED
    BY <1>1, <1>2, <2>3, <2>4, <2>6, <2>7, DriverStep DEF driver, Driving
<1> QED
  BY <1>3, <1>4

LEMMA SoughtKeeps ==
    ASSUME DriveInv, NEW r \in Readers, Sought(r)
    PROVE  DriveInv'
<1> DEFINE d == job[r].disk
           a == Dims(job[r].lba)
<1>1. job[r].pc = "seeking" /\ job[r] \in JobType /\ d \in Disks /\ job[r].lba \in Sectors
  BY DEF Sought, Is, DriveInv, JobOK, Typed
<1>2. irq6 /\ irq6' = FALSE /\ UNCHANGED <<timers, motor, timer, inUse, cacheInUse, cache, hardware>>
  BY DEF Sought
<1>3. PICK j : /\ j \in JobType /\ j.pc \in {"seek", "read"}
               /\ j.disk = job[r].disk /\ j.lba = job[r].lba /\ job' = [job EXCEPT ![r] = j]
  <2>1. 0 \in 0 .. SeekTimeout
    BY Constants
  <2>2. CASE status = "ok" \/ ~ (job[r].tries < SeekTimeout)
    <3>1. PICK j : j = [job[r] EXCEPT !.pc = "read", !.tries = 0]
      OBVIOUS
    <3>2. j \in JobType /\ j.pc = "read" /\ j.disk = job[r].disk /\ j.lba = job[r].lba
      BY <1>1, <2>1, <3>1 DEF JobType, Pcs
    <3>3. job' = [job EXCEPT ![r] = j]
      BY <2>2, <3>1 DEF Sought, DriveInv, Typed
    <3> QED
      BY <3>2, <3>3
  <2>3. CASE status # "ok" /\ job[r].tries < SeekTimeout
    <3>1. PICK n \in 0 .. SeekTimeout : n = job[r].tries
      BY <1>1 DEF JobType
    <3>2. n + 1 \in 0 .. SeekTimeout
      BY <2>3, <3>1, Constants
    <3>3. PICK j : j = [job[r] EXCEPT !.pc = "seek", !.tries = n + 1]
      OBVIOUS
    <3>4. j \in JobType /\ j.pc = "seek" /\ j.disk = job[r].disk /\ j.lba = job[r].lba
      BY <1>1, <3>2, <3>3 DEF JobType, Pcs
    <3>5. job' = [job EXCEPT ![r].pc = "seek", ![r].tries = n + 1]
      BY <2>3, <3>1 DEF Sought
    <3>6. job' = [job EXCEPT ![r] = j]
      BY <3>3, <3>5 DEF DriveInv, Typed
    <3> QED
      BY <3>4, <3>6
  <2> QED
    BY <2>2, <2>3
<1>4. track' \in [Disks -> [Heads -> Cyls \cup {-1}]]
  <2>1. a.cyl \in Cyls
    BY <1>1, DimsTyped
  <2>2. track' = track \/ track' = [track EXCEPT ![d][a.head] = a.cyl]
    BY DEF Sought
  <2>3. track \in [Disks -> [Heads -> Cyls \cup {-1}]]
    BY DEF DriveInv, Typed
  <2> HIDE DEF a
  <2> QED
    BY <2>1, <2>2, <2>3
<1>5. job' \in [Readers -> JobType]
  BY <1>3, JobMoves DEF DriveInv
<1>6. Typed'
  BY <1>2, <1>4, <1>5 DEF DriveInv, Typed, hardware
<1>7. Answers'
  BY <1>1, <1>2, <1>3, AnswersTaken DEF hardware, Waiting
<1> QED
  BY <1>1, <1>2, <1>3, <1>6, <1>7, DriverStep DEF Driving

LEMMA ReadKeeps ==
    ASSUME DriveInv, NEW r \in Readers, Read(r)
    PROVE  DriveInv'
<1> DEFINE d == job[r].disk
           a == Dims(job[r].lba)
<1>1. job[r].pc = "read" /\ job[r] \in JobType /\ d \in Disks /\ job[r].lba \in Sectors
  BY DEF Read, Is, DriveInv, JobOK, Typed
<1>2. UNCHANGED <<timers, motor, timer, track, driver, arm, status, dma>>
  BY DEF Read
<1>3. Goto(r, "reading") /\ command' = [do |-> "read", disk |-> d, at |-> a]
  BY DEF Read
<1>4. PICK j : j = [job[r] EXCEPT !.pc = "reading"]
  OBVIOUS
<1>5. j \in JobType /\ j.pc = "reading" /\ j.disk = job[r].disk /\ j.lba = job[r].lba
  BY <1>1, <1>4 DEF JobType, Pcs
<1>6. job' = [job EXCEPT ![r] = j]
  BY <1>3, <1>4 DEF Goto, DriveInv, Typed
<1>7. command' \in CommandType
  BY <1>1, <1>3 DEF CommandType
<1>8. Typed'
  BY <1>2, <1>3, <1>7, GotoTyped DEF DriveInv, Typed, driver, Pcs
<1>9. Answers'
  BY <1>1, <1>2, <1>3, <1>5, <1>6, AnswersAsked DEF driver, Waiting, ToDrive, Driving
<1> QED
  BY <1>1, <1>2, <1>5, <1>6, <1>8, <1>9, DriverStep DEF driver, Driving

LEMMA ReadDoneKeeps ==
    ASSUME DriveInv, NEW r \in Readers, ReadDone(r)
    PROVE  DriveInv'
<1>1. job[r].pc = "reading" /\ job[r] \in JobType /\ Goto(r, "copy") /\ irq6 /\ irq6' = FALSE
  BY DEF ReadDone, Is, DriveInv, Typed
<1>2. UNCHANGED <<timers, motor, timer, track, inUse, cacheInUse, cache, hardware>>
  BY DEF ReadDone
<1>3. PICK j : j = [job[r] EXCEPT !.pc = "copy"]
  OBVIOUS
<1>4. j \in JobType /\ j.pc = "copy" /\ j.disk = job[r].disk /\ j.lba = job[r].lba
  BY <1>1, <1>3 DEF JobType, Pcs
<1>5. job' = [job EXCEPT ![r] = j]
  BY <1>1, <1>3 DEF Goto, DriveInv, Typed
<1>6. Typed'
  BY <1>1, <1>2, GotoTyped DEF DriveInv, Typed, hardware, Pcs
<1>7. Answers'
  BY <1>1, <1>2, <1>4, <1>5, AnswersTaken DEF hardware, Waiting
<1> QED
  BY <1>1, <1>2, <1>4, <1>5, <1>6, <1>7, DriverStep DEF Driving

LEMMA CopyKeeps ==
    ASSUME DriveInv, NEW r \in Readers, Copy(r)
    PROVE  DriveInv'
<1>1. job[r].pc = "copy" /\ job[r] \in JobType /\ dma \in Data
  BY DEF Copy, Is, DriveInv, Typed
<1>2. inUse' = FALSE /\ UNCHANGED <<timers, motor, timer, track, cacheInUse, cache, irq6, hardware>>
  BY DEF Copy
<1>3. PICK j : j = [job[r] EXCEPT !.pc = "findoff", !.buf = dma]
  OBVIOUS
<1>4. j \in JobType /\ j.pc = "findoff" /\ j.disk = job[r].disk /\ j.lba = job[r].lba
  BY <1>1, <1>3 DEF JobType, Pcs
<1>5. job' = [job EXCEPT ![r] = j]
  BY <1>3 DEF Copy, DriveInv, Typed
<1>6. job'[r] = j /\ job' \in [Readers -> JobType]
  BY <1>4, <1>5, JobMoves DEF DriveInv
<1>7. Typed'
  BY <1>2, <1>6 DEF DriveInv, Typed, hardware
<1>8. Answers'
  BY <1>1, <1>2, <1>4, <1>5, AnswersSame DEF hardware, Waiting
<1>9. JobOK(r)'
  BY <1>1, <1>4, <1>6 DEF DriveInv, JobOK, Setting
<1> QED
  BY <1>1, <1>2, <1>4, <1>5, <1>7, <1>8, <1>9, ReaderStep DEF ToDrive, ToCache, Driving, Caching, Setting

(* A command is done only while one waits for it.                          *)
LEMMA InterruptKeeps ==
    ASSUME DriveInv, Interrupts, command # Nothing, arm' \in [Disks -> Cyls],
           status' \in {"ok", "failed"}, dma' \in Data
    PROVE  DriveInv'
<1>1. Typed'
  BY DEF Interrupts, DriveInv, Typed
<1>2. Locks' /\ \A r \in Readers : JobOK(r)'
  BY DEF Interrupts, DriveInv, Locks, Alone, JobOK
<1>3. \E r \in Readers : job[r].pc \in Waiting
  BY DEF DriveInv, Answers
<1>4. Answers'
  BY <1>3 DEF Interrupts, Answers
<1> QED
  BY <1>1, <1>2, <1>4 DEF DriveInv

LEMMA SeekEndsKeeps ==
    ASSUME DriveInv, NEW s \in {"ok", "failed"}, SeekEnds(s)
    PROVE  DriveInv'
<1>1. command \in CommandType
  BY DEF SeekEnds, DriveInv, Typed
<1>2. command.at.cyl \in Cyls
  BY <1>1, DimsTyped DEF CommandType
<1>3. arm' \in [Disks -> Cyls]
  BY <1>2 DEF SeekEnds, DriveInv, Typed
<1>4. dma' \in Data
  BY DEF SeekEnds, DriveInv, Typed
<1> QED
  BY <1>3, <1>4, InterruptKeeps DEF SeekEnds

LEMMA ReadEndsKeeps ==
    ASSUME DriveInv, NEW s \in {"ok", "failed"}, ReadEnds(s)
    PROVE  DriveInv'
<1>1. command \in CommandType
  BY DEF ReadEnds, DriveInv, Typed
<1>2. PICK lba \in Sectors : command.at = Dims(lba)
  BY <1>1 DEF CommandType
<1>3. At(command.at) \in Nat
  BY <1>2, DimsTyped
<1>4. dma' \in Data
  BY <1>3 DEF ReadEnds, DriveInv, Typed, Data
<1> QED
  BY <1>4, InterruptKeeps DEF ReadEnds, DriveInv, Typed

-----------------------------------------------------------------------------
LEMMA InitDrive == Init => DriveInv
<1> SUFFICES ASSUME Init PROVE DriveInv
  OBVIOUS
<1>1. \A r \in Readers : job[r] = Idle
  BY DEF Init
<1>2. Idle \in JobType /\ Idle.pc = "idle"
  <2>1. 0 \in 0 .. SeekTimeout
    BY Constants
  <2> QED
    BY <2>1 DEF Idle, JobType, Pcs, Data
<1>3. job \in [Readers -> JobType]
  BY <1>2 DEF Init
<1>4. track \in [Disks -> [Heads -> Cyls \cup {-1}]]
  <2>1. 0 \in Cyls /\ 1 \in Cyls
    BY Constants DEF Cyls
  <2> QED
    BY <2>1 DEF Init
<1>5. cache \in [1 .. CacheSize -> EntryType]
  BY DEF Init, EntryType, Data
<1>6. arm \in [Disks -> Cyls] /\ motor \in [Disks -> 0 .. 2]
  BY Constants DEF Init, Cyls
<1>7. Typed
  BY <1>3, <1>4, <1>5, <1>6 DEF Init, TimersInit, Typed, Data
<1>8. Locks /\ Answers /\ \A r \in Readers : JobOK(r)
  BY <1>1, <1>2 DEF Init, Locks, Alone, Answers, JobOK, Waiting, Setting, ToDrive, ToCache, Driving, Caching
<1> QED
  BY <1>7, <1>8 DEF DriveInv

LEMMA NextDrive ==
    ASSUME DriveInv, [QuietNext]_vars
    PROVE  DriveInv'
<1>1. CASE UNCHANGED vars
  <2>1. Typed'
    BY <1>1 DEF vars, driver, hardware, DriveInv, Typed
  <2>2. Locks' /\ \A r \in Readers : JobOK(r)'
    BY <1>1 DEF vars, driver, DriveInv, Locks, Alone, JobOK
  <2>3. Answers'
    BY <1>1 DEF vars, driver, hardware, DriveInv, Answers, Told
  <2> QED
    BY <2>1, <2>2, <2>3 DEF DriveInv
<1>2. ASSUME NEW r \in Readers, NEW d \in Disks, NEW lba \in Sectors, Start(r, d, lba) PROVE DriveInv'
  BY <1>2, StartKeeps
<1>3. ASSUME NEW r \in Readers, QuietTests(r) PROVE DriveInv'
  BY <1>3, CacheTestKeeps, LockTestKeeps, MotorTestKeeps, FindTimerKeeps DEF QuietTests
<1>4. ASSUME NEW r \in Readers, Step(r) PROVE DriveInv'
  BY <1>4, LookupKeeps, KeepKeyKeeps, KeepDataKeeps, ReturnKeeps, StartMotorKeeps, SpunUpKeeps,
     SetTimerKeeps, SeekKeeps, SoughtKeeps, ReadKeeps, ReadDoneKeeps, CopyKeeps DEF Step
<1>5. ASSUME NEW r \in Readers, ReaderNext(r) PROVE DriveInv'
  BY <1>3, <1>4, <1>5, CacheSetKeeps, LockSetKeeps, RemoveTimerKeeps DEF ReaderNext, QuietRemove
<1>6. ASSUME NEW i \in TimerIds, QuietFire(i) PROVE DriveInv'
  BY <1>6, FireKeeps DEF QuietFire
<1>7. CASE QuietSeekEnds
  BY <1>7, SeekEndsKeeps DEF QuietSeekEnds
<1>8. CASE ReadEnds("ok")
  BY <1>8, ReadEndsKeeps
<1> QED
  BY <1>1, <1>2, <1>5, <1>6, <1>7, <1>8 DEF QuietNext

(* Of all readers, one at most is between a test and a store, or behind a  *)
(* lock, and the controller has been told what the one who waits has to be *)
(* told.                                                                   *)
THEOREM DriveInvariant == QuietSpec => []DriveInv
<1>1. QuietSpec => Init /\ [][QuietNext]_vars
  BY PTL DEF QuietSpec
<1>2. DriveInv /\ [QuietNext]_vars => DriveInv'
  BY NextDrive
<1> QED
  BY <1>1, <1>2, InitDrive, PTL

(* FDD_WaitIRQ(): an interrupt is the answer to the command of the one who *)
(* waits for it, for any number of readers and drives.                     *)
THEOREM AnswersAreOwn == QuietSpec => []OwnAnswer
<1>1. DriveInv => OwnAnswer
  <2> SUFFICES ASSUME DriveInv PROVE OwnAnswer
    OBVIOUS
  <2> DEFINE waiting == {r \in Readers : job[r].pc \in {"seeking", "reading"}}
  <2>1. \A r, q \in waiting : r = q
    BY DEF DriveInv, Locks, Alone, ToDrive, Driving
  <2>2. Cardinality(waiting) <= 1
    <3>1. CASE waiting = {}
      BY <3>1, FS_EmptySet
    <3>2. CASE waiting # {}
      <4>1. PICK r : r \in waiting
        BY <3>2
      <4> HIDE DEF waiting
      <4>2. waiting = {r}
        BY <2>1, <4>1
      <4>3. Cardinality({r}) = 1
        BY FS_Singleton
      <4> QED
        BY <4>2, <4>3
    <3> QED
      BY <3>1, <3>2
  <2>3. waiting = {} => command = Nothing /\ ~ irq6
    BY DEF DriveInv, Answers, Waiting
  <2>4. waiting # {} => (irq6 <=> command = Nothing)
    <3>1. SUFFICES ASSUME NEW r \in Readers, job[r].pc \in Waiting PROVE irq6 <=> command = Nothing
      BY DEF Waiting
    <3>2. (irq6 /\ command = Nothing) \/ (~ irq6 /\ command = Told(r))
      BY <3>1 DEF DriveInv, Answers
    <3>3. Told(r) # Nothing
      <4>1. job[r].disk \in Disks /\ Dims(job[r].lba) \in [cyl : Nat, head : Nat, sec : Nat]
        <5>1. job[r].disk \in Disks /\ job[r].lba \in Sectors
          BY <3>1 DEF DriveInv, JobOK, Waiting
        <5> QED
          BY <5>1, DimsTyped DEF Dims
      <4> QED
        BY <4>1, FloppyConstants DEF Told
    <3> QED
      BY <3>2, <3>3
  <2> QED
    BY <2>2, <2>3, <2>4 DEF OwnAnswer
<1> QED
  BY <1>1, DriveInvariant, PTL

-----------------------------------------------------------------------------
(* What is read                                                            *)

(* The sectors that are read lie on one side of the disk, and FDD_Reset()  *)
(* did not leave the drive believing to be at the cylinder of one.         *)
OneSide ==
    /\ PerHead = PerTrack
    /\ \A lba \in Sectors : Dims(lba).cyl # 1
    /\ \A lba, lbb \in Sectors : Dims(lba).head = Dims(lbb).head

Some == Sectors \cup {Nothing}

Stored ==
    /\ dma \in Some
    /\ \A r \in Readers : job[r].buf \in Some
    /\ \A i \in 1 .. CacheSize : cache[i].data \in Some

Got == {"findoff", "setoff", "keep", "keepset", "key", "data", "done"}

(* An interrupt that has come, and says that the arm has moved.            *)
Moved(r) == job[r].pc = "seeking" /\ irq6 /\ status = "ok"

HoldsOwn(r) ==
    /\ job[r].pc \in Got => job[r].buf = job[r].lba
    /\ job[r].pc = "copy" \/ (job[r].pc = "reading" /\ irq6) => dma = job[r].lba
    /\ job[r].pc \in {"read", "reading"} \/ Moved(r) => arm[job[r].disk] = Dims(job[r].lba).cyl
    /\ job[r].pc = "seeking" /\ irq6 /\ status = "failed" => job[r].tries < SeekTimeout
    /\ job[r].pc = "data" => cache[job[r].slot].lba = job[r].lba

(* The arm is where a head is believed to be, but for one that has just    *)
(* moved.                                                                  *)
ArmKnown(d) ==
    \A lba \in Sectors : track[d][Dims(lba).head] = Dims(lba).cyl =>
        \/ arm[d] = Dims(lba).cyl
        \/ \E r \in Readers : job[r].disk = d /\ Moved(r)

(* An entry that is named and is not just being filled has its sector.     *)
EntryRight(i) ==
    cache[i].lba # Nothing =>
        \/ cache[i].data = cache[i].lba
        \/ \E r \in Readers : job[r].pc = "data" /\ job[r].slot = i

DataInv ==
    /\ DriveInv
    /\ \A r \in Readers : HoldsOwn(r)
    /\ \A d \in Disks : ArmKnown(d)
    /\ \A i \in 1 .. CacheSize : EntryRight(i)

(* The address of a sector is that of no other.                            *)
LEMMA AtDims ==
    ASSUME PerHead = PerTrack, NEW lba \in Sectors
    PROVE  At(Dims(lba)) = lba
<1>1. lba \in Nat /\ PerTrack \in Nat /\ PerTrack >= 1
  BY Constants
<1> DEFINE P == PerTrack
           q == lba \div P
           s == lba % P
           c == lba \div (2 * P)
           h == q \div 2
<1>2. 2 * P \in Nat /\ 2 * P >= 1
  BY <1>1
<1>3. q \in Nat /\ s \in Nat /\ s < P /\ lba = q * P + s
  BY <1>1
<1>4. c \in Nat /\ c * (2 * P) <= lba /\ lba < (c + 1) * (2 * P)
  BY <1>1, <1>2
<1>5. Dims(lba).cyl = c /\ Dims(lba).head = q % 2 /\ Dims(lba).sec = s
  BY DEF Dims
<1> HIDE DEF s, c, q
<1>6. h \in Nat /\ q % 2 \in 0 .. 1 /\ q = 2 * h + (q % 2)
  BY <1>3
<1> HIDE DEF h
<1>7. q * P = 2 * (h * P) + (q % 2) * P
  <2>1. PICK b \in 0 .. 1 : b = q % 2
    BY <1>6
  <2>2. q = 2 * h + b
    BY <1>3, <1>6, <2>1
  <2>3. (2 * h + b) * P = 2 * (h * P) + b * P
    BY <1>1, <1>6, <2>1
  <2> QED
    BY <2>1, <2>2, <2>3
<1>8. 2 * (h * P) <= lba /\ lba < 2 * (h * P) + 2 * P
  <2>1. PICK b \in 0 .. 1 : b = q % 2
    BY <1>6
  <2>2. b * P = 0 \/ b * P = P
    BY <1>1, <2>1
  <2>3. h * P \in Nat
    BY <1>1, <1>6
  <2> QED
    BY <1>1, <1>3, <1>7, <2>1, <2>2, <2>3
<1>9. c = h
  <2>1. c * (2 * P) = 2 * (c * P) /\ (c + 1) * (2 * P) = 2 * (c * P) + 2 * P /\ c * P \in Nat /\ h * P \in Nat
    BY <1>1, <1>4, <1>6
  <2>2. ~ (c < h)
    <3>1. SUFFICES ASSUME c + 1 <= h PROVE FALSE
      BY <1>4, <1>6
    <3>2. (c + 1) * P <= h * P
      BY <1>1, <1>4, <1>6, <3>1
    <3>3. (c + 1) * P = c * P + P
      BY <1>1, <1>4
    <3> QED
      BY <1>1, <1>4, <1>8, <2>1, <3>2, <3>3
  <2>3. ~ (h < c)
    <3>1. SUFFICES ASSUME h + 1 <= c PROVE FALSE
      BY <1>4, <1>6
    <3>2. (h + 1) * P <= c * P
      BY <1>1, <1>4, <1>6, <3>1
    <3>3. (h + 1) * P = h * P + P
      BY <1>1, <1>6
    <3> QED
      BY <1>1, <1>4, <1>8, <2>1, <3>2, <3>3
  <2> QED
    BY <1>4, <1>6, <2>2, <2>3
<1>10. 2 * c + (q % 2) = q
  BY <1>4, <1>6, <1>9
<1>11. At(Dims(lba)) = (2 * c + (q % 2)) * P + s
  BY <1>5 DEF At
<1> QED
  BY <1>3, <1>10, <1>11

-----------------------------------------------------------------------------
(* What a reader's step has to show, if it has no interrupt and does not   *)
(* fill an entry.                                                          *)
LEMMA DataStep ==
    ASSUME DataInv, DriveInv', NEW r \in Readers, NEW j \in JobType, job' = [job EXCEPT ![r] = j],
           track' = track, arm' = arm, status' = status, dma' = dma, irq6' = irq6, cache' = cache,
           job[r].pc # "seeking", job[r].pc # "data", HoldsOwn(r)'
    PROVE  DataInv'
<1>1. job'[r] = j /\ \A q \in Readers : q # r => job'[q] = job[q]
  BY JobMoves DEF DataInv, DriveInv
<1>2. ASSUME NEW q \in Readers PROVE HoldsOwn(q)'
  <2>1. CASE q = r
    BY <2>1
  <2>2. CASE q # r
    BY <1>1, <2>2 DEF DataInv, HoldsOwn, Moved
  <2> QED
    BY <2>1, <2>2
<1>3. \A d \in Disks : ArmKnown(d)'
  <2>1. \A q \in Readers : Moved(q) => Moved(q)' /\ job'[q] = job[q]
    BY <1>1 DEF Moved
  <2> QED
    BY <2>1 DEF DataInv, ArmKnown
<1>4. \A i \in 1 .. CacheSize : EntryRight(i)'
  <2>1. \A q \in Readers : job[q].pc = "data" => job'[q] = job[q]
    BY <1>1
  <2> QED
    BY <2>1 DEF DataInv, EntryRight
<1> QED
  BY <1>2, <1>3, <1>4 DEF DataInv

LEMMA PlainStep ==
    ASSUME DataInv, DriveInv', NEW r \in Readers, NEW j \in JobType, job' = [job EXCEPT ![r] = j],
           track' = track, arm' = arm, status' = status, dma' = dma, irq6' = irq6, cache' = cache,
           job[r].pc # "seeking", job[r].pc # "data",
           j.pc \notin {"copy", "reading", "read", "seeking", "data"}, j.pc \in Got => j.buf = j.lba
    PROVE  DataInv'
<1>1. job'[r] = j
  BY JobMoves DEF DataInv, DriveInv
<1>2. HoldsOwn(r)'
  BY <1>1 DEF HoldsOwn, Moved
<1> QED
  BY <1>2, DataStep

LEMMA GotoPlain ==
    ASSUME DataInv, DriveInv', NEW r \in Readers, NEW pc \in Pcs, Goto(r, pc),
           track' = track, arm' = arm, status' = status, dma' = dma, irq6' = irq6, cache' = cache,
           job[r].pc # "seeking", job[r].pc # "data",
           pc \notin {"copy", "reading", "read", "seeking", "data"}, pc \in Got => job[r].pc \in Got
    PROVE  DataInv'
<1>1. PICK j : j = [job[r] EXCEPT !.pc = pc]
  OBVIOUS
<1>2. job[r] \in JobType
  BY DEF DataInv, DriveInv, Typed
<1>3. j \in JobType /\ j.pc = pc /\ j.buf = job[r].buf /\ j.lba = job[r].lba
  BY <1>1, <1>2 DEF JobType
<1>4. job' = [job EXCEPT ![r] = j]
  BY <1>1 DEF Goto, DataInv, DriveInv, Typed
<1>5. pc \in Got => j.buf = j.lba
  BY <1>3 DEF DataInv, HoldsOwn
<1> QED
  BY <1>3, <1>4, <1>5, PlainStep

LEMMA StartData ==
    ASSUME DataInv, DriveInv', NEW r \in Readers, NEW d \in Disks, NEW lba \in Sectors, Start(r, d, lba)
    PROVE  DataInv'
<1>1. PICK i, j : i = Idle /\ j = [i EXCEPT !.pc = "cache", !.disk = d, !.lba = lba]
  OBVIOUS
<1>2. j \in JobType /\ j.pc = "cache"
  <2>1. 0 \in 0 .. SeekTimeout
    BY Constants
  <2>2. i \in JobType
    BY <1>1, <2>1 DEF Idle, JobType, Pcs, Data
  <2> QED
    BY <1>1, <2>2 DEF JobType, Pcs
<1>3. job' = [job EXCEPT ![r] = j]
  BY <1>1 DEF Start
<1> QED
  BY <1>2, <1>3, PlainStep DEF Start, Is, driver, hardware, Got

LEMMA ReturnData ==
    ASSUME DataInv, DriveInv', NEW r \in Readers, Return(r)
    PROVE  DataInv'
<1>1. PICK j : j = Idle
  OBVIOUS
<1>2. j \in JobType /\ j.pc = "idle"
  <2>1. 0 \in 0 .. SeekTimeout
    BY Constants
  <2> QED
    BY <1>1, <2>1 DEF Idle, JobType, Pcs, Data
<1>3. job' = [job EXCEPT ![r] = j]
  BY <1>1 DEF Return
<1> QED
  BY <1>2, <1>3, PlainStep DEF Return, Is, driver, hardware, Got

LEMMA LookupData ==
    ASSUME DataInv, DriveInv', NEW r \in Readers, Lookup(r)
    PROVE  DataInv'
<1>1. job[r].pc = "lookup" /\ UNCHANGED <<timers, motor, timer, track, inUse, cache, irq6, hardware>>
  BY DEF Lookup, Is
<1>2. CASE Holding(r) = {}
  <2>1. Goto(r, "remove")
    BY <1>2 DEF Lookup
  <2> QED
    BY <1>1, <2>1, GotoPlain DEF hardware, Got, Pcs
<1>3. CASE Holding(r) # {}
  <2>1. PICK i \in Holding(r) : job' = [job EXCEPT ![r].pc = "done", ![r].buf = cache[i].data]
    BY <1>3 DEF Lookup
  <2>2. i \in 1 .. CacheSize /\ cache[i].lba = job[r].lba /\ cache[i].data \in Data
    BY <2>1 DEF Holding, DataInv, DriveInv, Typed, EntryType
  <2>3. job[r].lba \in Sectors /\ job[r].lba # Nothing
    BY <1>1, Constants DEF DataInv, DriveInv, JobOK
  <2>4. cache[i].data = job[r].lba
    <3>1. \A q \in Readers : job[q].pc # "data"
      BY <1>1 DEF DataInv, DriveInv, Locks, Alone, ToCache, Caching
    <3> QED
      BY <2>2, <2>3, <3>1 DEF DataInv, EntryRight
  <2>5. PICK j : j = [job[r] EXCEPT !.pc = "done", !.buf = cache[i].data]
    OBVIOUS
  <2>6. job[r] \in JobType
    BY DEF DataInv, DriveInv, Typed
  <2>7. j \in JobType /\ j.pc = "done" /\ j.buf = j.lba
    BY <2>2, <2>4, <2>5, <2>6 DEF JobType, Pcs
  <2>8. job' = [job EXCEPT ![r] = j]
    BY <2>1, <2>5 DEF DataInv, DriveInv, Typed
  <2> QED
    BY <1>1, <2>7, <2>8, PlainStep DEF hardware
<1> QED
  BY <1>2, <1>3

LEMMA FindTimerData ==
    ASSUME DataInv, DriveInv', NEW r \in Readers, FindTimer(r)
    PROVE  DataInv'
<1>1. PICK pc \in Setting : /\ job' = [job EXCEPT ![r].pc = pc, ![r].slot = FoundTimer]
                            /\ job[r].pc = IF pc = "set" THEN "find" ELSE "findoff"
  BY DEF FindTimer, Setting, Is
<1>2. PICK i \in TimerIds \cup {NoTimer} : i = FoundTimer
  BY FoundTimerTyped
<1>3. PICK j : j = [job[r] EXCEPT !.pc = pc, !.slot = i]
  OBVIOUS
<1>4. job[r] \in JobType
  BY DEF DataInv, DriveInv, Typed
<1>5. j \in JobType /\ j.pc = pc /\ j.buf = job[r].buf /\ j.lba = job[r].lba
  BY <1>2, <1>3, <1>4 DEF JobType, Pcs, Setting
<1>6. job' = [job EXCEPT ![r] = j]
  BY <1>1, <1>2, <1>3 DEF DataInv, DriveInv, Typed
<1>7. pc \in Got => j.buf = j.lba
  BY <1>1, <1>5 DEF DataInv, HoldsOwn, Got, Setting
<1> QED
  BY <1>1, <1>5, <1>6, <1>7, PlainStep DEF FindTimer, driver, hardware, Setting

LEMMA SetTimerData ==
    ASSUME DataInv, DriveInv', NEW r \in Readers, NEW fn \in {"on", "off"}, SetTimer(r, fn)
    PROVE  DataInv'
<1>1. PICK pc \in {"spin", "keep"} : /\ job' = [job EXCEPT ![r].pc = pc, ![r].slot = NoTimer]
                                     /\ job[r].pc = IF pc = "spin" THEN "set" ELSE "setoff"
  BY DEF SetTimer, Is
<1>2. PICK j : j = [job[r] EXCEPT !.pc = pc, !.slot = NoTimer]
  OBVIOUS
<1>3. job[r] \in JobType
  BY DEF DataInv, DriveInv, Typed
<1>4. j \in JobType /\ j.pc = pc /\ j.buf = job[r].buf /\ j.lba = job[r].lba
  BY <1>2, <1>3 DEF JobType, Pcs
<1>5. job' = [job EXCEPT ![r] = j]
  BY <1>1, <1>2 DEF DataInv, DriveInv, Typed
<1>6. pc \in Got => j.buf = j.lba
  BY <1>1, <1>4 DEF DataInv, HoldsOwn, Got
<1> QED
  BY <1>1, <1>4, <1>5, <1>6, PlainStep DEF SetTimer, driver, hardware

LEMMA CopyData ==
    ASSUME DataInv, DriveInv', NEW r \in Readers, Copy(r)
    PROVE  DataInv'
<1>1. job[r].pc = "copy" /\ job[r] \in JobType /\ dma \in Data /\ dma = job[r].lba
  BY DEF Copy, Is, DataInv, DriveInv, Typed, HoldsOwn
<1>2. PICK j : j = [job[r] EXCEPT !.pc = "findoff", !.buf = dma]
  OBVIOUS
<1>3. j \in JobType /\ j.pc = "findoff" /\ j.buf = j.lba
  BY <1>1, <1>2 DEF JobType, Pcs
<1>4. job' = [job EXCEPT ![r] = j]
  BY <1>2 DEF Copy, DataInv, DriveInv, Typed
<1> QED
  BY <1>1, <1>3, <1>4, PlainStep DEF Copy, hardware

(* A head is not moved where it is believed to be: it is there.            *)
LEMMA SeekData ==
    ASSUME DataInv, DriveInv', NEW r \in Readers, Seek(r)
    PROVE  DataInv'
<1> DEFINE d == job[r].disk
           a == Dims(job[r].lba)
<1>1. job[r].pc = "seek" /\ job[r] \in JobType /\ d \in Disks /\ job[r].lba \in Sectors
  BY DEF Seek, Is, DataInv, DriveInv, JobOK, Typed
<1>2. UNCHANGED <<timers, motor, timer, track, driver, arm, status, dma>>
  BY DEF Seek
<1>3. \A q \in Readers : job[q].pc \notin Waiting
  BY <1>1 DEF DataInv, DriveInv, Locks, Alone, ToDrive, Driving, Waiting
<1>4. ~ irq6
  BY <1>3 DEF DataInv, DriveInv, Answers
<1>5. PICK pc \in {"read", "seeking"} : Goto(r, pc) /\ (pc = "read" => track[d][a.head] = a.cyl)
  BY DEF Seek
<1>6. PICK j : j = [job[r] EXCEPT !.pc = pc]
  OBVIOUS
<1>7. j \in JobType /\ j.pc = pc /\ j.disk = job[r].disk /\ j.lba = job[r].lba
  BY <1>1, <1>6 DEF JobType, Pcs
<1>8. job' = [job EXCEPT ![r] = j]
  BY <1>5, <1>6 DEF Goto, DataInv, DriveInv, Typed
<1>9. job'[r] = j
  BY <1>7, <1>8, JobMoves DEF DataInv, DriveInv
<1>10. pc = "read" => arm[d] = a.cyl
  BY <1>1, <1>4, <1>5 DEF DataInv, ArmKnown, Moved
<1>11. HoldsOwn(r)'
  BY <1>2, <1>4, <1>7, <1>9, <1>10 DEF HoldsOwn, Moved, Got, driver
<1> QED
  BY <1>1, <1>2, <1>7, <1>8, <1>11, DataStep DEF driver

LEMMA ReadData ==
    ASSUME DataInv, DriveInv', NEW r \in Readers, Read(r)
    PROVE  DataInv'
<1>1. job[r].pc = "read" /\ job[r] \in JobType
  BY DEF Read, Is, DataInv, DriveInv, JobOK, Typed
<1>2. UNCHANGED <<timers, motor, timer, track, driver, arm, status, dma>>
  BY DEF Read
<1>3. \A q \in Readers : job[q].pc \notin Waiting
  BY <1>1 DEF DataInv, DriveInv, Locks, Alone, ToDrive, Driving, Waiting
<1>4. ~ irq6
  BY <1>3 DEF DataInv, DriveInv, Answers
<1>5. PICK j : j = [job[r] EXCEPT !.pc = "reading"]
  OBVIOUS
<1>6. j \in JobType /\ j.pc = "reading" /\ j.disk = job[r].disk /\ j.lba = job[r].lba
  BY <1>1, <1>5 DEF JobType, Pcs
<1>7. job' = [job EXCEPT ![r] = j]
  BY <1>5 DEF Read, Goto, DataInv, DriveInv, Typed
<1>8. job'[r] = j
  BY <1>6, <1>7, JobMoves DEF DataInv, DriveInv
<1>9. arm[job[r].disk] = Dims(job[r].lba).cyl
  BY <1>1 DEF DataInv, HoldsOwn
<1>10. HoldsOwn(r)'
  BY <1>2, <1>4, <1>6, <1>8, <1>9 DEF HoldsOwn, Moved, Got, driver
<1> QED
  BY <1>1, <1>2, <1>6, <1>7, <1>10, DataStep DEF driver

(* The entry that is named stays the one to fill.                          *)
LEMMA KeepKeyData ==
    ASSUME DataInv, DriveInv', NEW r \in Readers, KeepKey(r)
    PROVE  DataInv'
<1>1. PICK i \in Replaceable :
        /\ Is(r, "key")
        /\ cache' = [cache EXCEPT ![i].disk = job[r].disk, ![i].lba = job[r].lba]
        /\ job' = [job EXCEPT ![r].pc = "data", ![r].slot = i]
        /\ UNCHANGED <<timers, motor, timer, track, inUse, cacheInUse, irq6, hardware>>
  BY DEF KeepKey
<1>2. i \in 1 .. CacheSize
  BY ReplaceableTyped DEF DataInv, DriveInv
<1>3. PICK j : j = [job[r] EXCEPT !.pc = "data", !.slot = i]
  OBVIOUS
<1>4. job[r] \in JobType /\ cache \in [1 .. CacheSize -> EntryType]
  BY DEF DataInv, DriveInv, Typed
<1>5. j \in JobType /\ j.pc = "data" /\ j.lba = job[r].lba /\ j.slot = i /\ j.buf = job[r].buf
  BY <1>2, <1>3, <1>4 DEF JobType, Pcs
<1>6. job' = [job EXCEPT ![r] = j]
  BY <1>1, <1>3 DEF DataInv, DriveInv, Typed
<1>7. job'[r] = j /\ \A q \in Readers : q # r => job'[q] = job[q]
  BY <1>5, <1>6, JobMoves DEF DataInv, DriveInv
<1>8. /\ cache'[i].lba = job[r].lba
      /\ \A k \in 1 .. CacheSize : k # i => cache'[k] = cache[k]
  BY <1>1, <1>2, <1>4 DEF EntryType
<1>9. \A q \in Readers : job[q].pc # "data"
  BY <1>1 DEF DataInv, DriveInv, Locks, Alone, ToCache, Caching, Is
<1>10. ASSUME NEW q \in Readers PROVE HoldsOwn(q)'
  <2>1. CASE q = r
    <3>1. job[r].buf = job[r].lba
      BY <1>1 DEF DataInv, HoldsOwn, Got, Is
    <3> QED
      BY <1>5, <1>7, <1>8, <2>1, <3>1 DEF HoldsOwn, Moved
  <2>2. CASE q # r
    <3>1. HoldsOwn(q) /\ job'[q] = job[q] /\ job[q].pc # "data"
      BY <1>7, <1>9, <2>2 DEF DataInv
    <3> QED
      BY <1>1, <3>1 DEF HoldsOwn, Moved, hardware
  <2> QED
    BY <2>1, <2>2
<1>11. \A d \in Disks : ArmKnown(d)'
  <2>1. \A q \in Readers : Moved(q) => Moved(q)' /\ job'[q] = job[q]
    BY <1>1, <1>7 DEF Moved, Is, hardware
  <2> QED
    BY <1>1, <2>1 DEF DataInv, ArmKnown, hardware
<1>12. \A k \in 1 .. CacheSize : EntryRight(k)'
  BY <1>5, <1>7, <1>8, <1>9 DEF DataInv, EntryRight
<1> QED
  BY <1>10, <1>11, <1>12 DEF DataInv

LEMMA KeepDataData ==
    ASSUME DataInv, DriveInv', NEW r \in Readers, KeepData(r)
    PROVE  DataInv'
<1>1. job[r].pc = "data" /\ job[r].slot \in 1 .. CacheSize /\ job[r] \in JobType
  BY DEF KeepData, Is, DataInv, DriveInv, JobOK, Typed
<1>2. job[r].buf = job[r].lba /\ cache[job[r].slot].lba = job[r].lba
  BY <1>1 DEF DataInv, HoldsOwn, Got
<1>3. PICK i \in 1 .. CacheSize : i = job[r].slot
  BY <1>1
<1>4. /\ cache'[i].data = job[r].lba /\ cache'[i].lba = job[r].lba
      /\ \A k \in 1 .. CacheSize : k # i => cache'[k] = cache[k]
  BY <1>2, <1>3 DEF KeepData, DataInv, DriveInv, Typed, EntryType
<1>5. PICK j : j = [job[r] EXCEPT !.pc = "done"]
  OBVIOUS
<1>6. j \in JobType /\ j.pc = "done" /\ j.buf = j.lba
  BY <1>1, <1>2, <1>5 DEF JobType, Pcs
<1>7. job' = [job EXCEPT ![r] = j]
  BY <1>5 DEF KeepData, Goto, DataInv, DriveInv, Typed
<1>8. job'[r] = j /\ \A q \in Readers : q # r => job'[q] = job[q]
  BY <1>6, <1>7, JobMoves DEF DataInv, DriveInv
<1>9. \A q \in Readers : q # r => job[q].pc # "data"
  BY <1>1 DEF DataInv, DriveInv, Locks, Alone, ToCache, Caching
<1>10. UNCHANGED <<track, arm, status, dma, irq6>>
  BY DEF KeepData, hardware
<1>11. ASSUME NEW q \in Readers PROVE HoldsOwn(q)'
  <2>1. CASE q = r
    BY <1>6, <1>8, <2>1 DEF HoldsOwn, Moved
  <2>2. CASE q # r
    <3>1. HoldsOwn(q) /\ job'[q] = job[q] /\ job[q].pc # "data"
      BY <1>8, <1>9, <2>2 DEF DataInv
    <3> QED
      BY <1>10, <3>1 DEF HoldsOwn, Moved
  <2> QED
    BY <2>1, <2>2
<1>12. \A d \in Disks : ArmKnown(d)'
  <2>1. \A q \in Readers : Moved(q) => Moved(q)' /\ job'[q] = job[q]
    BY <1>1, <1>8, <1>10 DEF Moved
  <2> QED
    BY <1>10, <2>1 DEF DataInv, ArmKnown
<1>13. ASSUME NEW k \in 1 .. CacheSize PROVE EntryRight(k)'
  <2>1. CASE k = i
    BY <1>4, <2>1 DEF EntryRight
  <2>2. CASE k # i
    <3>1. \A q \in Readers : job[q].pc = "data" /\ job[q].slot = k => q # r /\ job'[q] = job[q]
      BY <1>3, <1>8, <2>2
    <3> QED
      BY <1>4, <2>2, <3>1 DEF DataInv, EntryRight
  <2> QED
    BY <2>1, <2>2
<1> QED
  BY <1>11, <1>12, <1>13 DEF DataInv

(* Who finds that his seek succeeded has the arm where he asked for it,    *)
(* and nobody knows of another place for it.                               *)
LEMMA SoughtData ==
    ASSUME OneSide, DataInv, DriveInv', NEW r \in Readers, Sought(r)
    PROVE  DataInv'
<1> DEFINE again == status # "ok" /\ job[r].tries < SeekTimeout
<1>1. /\ job[r].pc = "seeking" /\ job[r] \in JobType /\ job[r].disk \in Disks /\ job[r].lba \in Sectors
      /\ irq6 /\ irq6' = FALSE /\ UNCHANGED <<cache, arm, status, dma>>
  BY DEF Sought, Is, DataInv, DriveInv, JobOK, Typed, hardware
<1>2. PICK d \in Disks, lba \in Sectors : d = job[r].disk /\ lba = job[r].lba
  BY <1>1
<1>3. /\ job' = [job EXCEPT ![r].pc = IF again THEN "seek" ELSE "read",
                            ![r].tries = IF again THEN @ + 1 ELSE 0]
      /\ track' = IF status = "ok" THEN [track EXCEPT ![d][Dims(lba).head] = Dims(lba).cyl] ELSE track
  BY <1>2 DEF Sought
<1>4. /\ job'[r].pc = (IF again THEN "seek" ELSE "read") /\ job'[r].disk = d /\ job'[r].lba = lba
      /\ \A q \in Readers : q # r => job'[q] = job[q]
  BY <1>1, <1>2, <1>3 DEF DataInv, DriveInv, Typed, JobType
<1>5. \A q \in Readers : q # r => job[q].pc \notin Driving
  BY <1>1 DEF DataInv, DriveInv, Locks, Alone, ToDrive, Driving
<1>6. \A q \in Readers : q # r => ~ Moved(q)
  BY <1>5 DEF Moved, Driving
<1>7. status = "ok" => arm[d] = Dims(lba).cyl
  BY <1>1, <1>2 DEF DataInv, HoldsOwn, Moved
<1>8. status # "ok" => again
  BY <1>1 DEF DataInv, DriveInv, Typed, HoldsOwn
<1> HIDE DEF again
<1>9. ASSUME NEW q \in Readers PROVE HoldsOwn(q)'
  <2>1. CASE q = r
    BY <1>1, <1>4, <1>7, <1>8, <2>1 DEF HoldsOwn, Moved, Got
  <2>2. CASE q # r
    <3>1. HoldsOwn(q) /\ job'[q] = job[q] /\ job[q].pc \notin Driving
      BY <1>4, <1>5, <2>2 DEF DataInv
    <3> QED
      BY <1>1, <3>1 DEF HoldsOwn, Moved, Driving
  <2> QED
    BY <2>1, <2>2
<1>10. ASSUME NEW e \in Disks PROVE ArmKnown(e)'
  <2>1. CASE status = "ok" /\ e = d
    <3>1. ASSUME NEW l \in Sectors, track'[e][Dims(l).head] = Dims(l).cyl PROVE arm[e] = Dims(l).cyl
      <4>1. Dims(l).head = Dims(lba).head /\ Dims(lba).head \in Heads
        BY DimsTyped DEF OneSide
      <4>2. track'[d][Dims(lba).head] = Dims(lba).cyl
        BY <1>3, <2>1, <4>1 DEF DataInv, DriveInv, Typed
      <4> QED
        BY <1>7, <2>1, <3>1, <4>1, <4>2
    <3> QED
      BY <1>1, <3>1 DEF ArmKnown
  <2>2. CASE status # "ok" \/ e # d
    <3>1. track'[e] = track[e]
      BY <1>3, <2>2 DEF DataInv, DriveInv, Typed
    <3>2. \A q \in Readers : ~ (job[q].disk = e /\ Moved(q))
      BY <1>2, <1>6, <2>2 DEF Moved
    <3> QED
      BY <1>1, <3>1, <3>2 DEF DataInv, ArmKnown
  <2> QED
    BY <2>1, <2>2
<1>11. \A k \in 1 .. CacheSize : EntryRight(k)'
  <2>1. \A q \in Readers : job[q].pc = "data" => job'[q] = job[q]
    BY <1>1, <1>4
  <2> QED
    BY <1>1, <2>1 DEF DataInv, EntryRight
<1> QED
  BY <1>9, <1>10, <1>11 DEF DataInv

LEMMA ReadDoneData ==
    ASSUME DataInv, DriveInv', NEW r \in Readers, ReadDone(r)
    PROVE  DataInv'
<1>1. /\ job[r].pc = "reading" /\ job[r] \in JobType /\ irq6 /\ irq6' = FALSE
      /\ UNCHANGED <<track, cache, arm, status, dma>>
  BY DEF ReadDone, Is, DataInv, DriveInv, Typed, hardware
<1>2. /\ job'[r].pc = "copy" /\ job'[r].disk = job[r].disk /\ job'[r].lba = job[r].lba
      /\ \A q \in Readers : q # r => job'[q] = job[q]
  BY <1>1 DEF ReadDone, Goto, DataInv, DriveInv, Typed, JobType
<1>3. \A q \in Readers : q # r => job[q].pc \notin Driving
  BY <1>1 DEF DataInv, DriveInv, Locks, Alone, ToDrive, Driving
<1>4. dma = job[r].lba
  BY <1>1 DEF DataInv, HoldsOwn
<1>5. ASSUME NEW q \in Readers PROVE HoldsOwn(q)'
  <2>1. CASE q = r
    BY <1>1, <1>2, <1>4, <2>1 DEF HoldsOwn, Moved, Got
  <2>2. CASE q # r
    <3>1. HoldsOwn(q) /\ job'[q] = job[q] /\ job[q].pc \notin Driving
      BY <1>2, <1>3, <2>2 DEF DataInv
    <3> QED
      BY <1>1, <3>1 DEF HoldsOwn, Moved, Driving
  <2> QED
    BY <2>1, <2>2
<1>6. \A d \in Disks : ArmKnown(d)'
  <2>1. \A q \in Readers : ~ Moved(q)
    BY <1>1, <1>3 DEF Moved, Driving
  <2> QED
    BY <1>1, <2>1 DEF DataInv, ArmKnown
<1>7. \A k \in 1 .. CacheSize : EntryRight(k)'
  <2>1. \A q \in Readers : job[q].pc = "data" => job'[q] = job[q]
    BY <1>1, <1>2
  <2> QED
    BY <1>1, <2>1 DEF DataInv, EntryRight
<1> QED
  BY <1>5, <1>6, <1>7 DEF DataInv

LEMMA SameData ==
    ASSUME DataInv, DriveInv', UNCHANGED <<job, track, arm, status, dma, irq6, cache>>
    PROVE  DataInv'
<1>1. \A q \in Readers : HoldsOwn(q)'
  BY DEF DataInv, HoldsOwn, Moved
<1>2. \A d \in Disks : ArmKnown(d)'
  BY DEF DataInv, ArmKnown, Moved
<1>3. \A k \in 1 .. CacheSize : EntryRight(k)'
  BY DEF DataInv, EntryRight
<1> QED
  BY <1>1, <1>2, <1>3 DEF DataInv

(* The one who waits has told the controller of the command that ends.     *)
LEMMA WhoWaits ==
    ASSUME DriveInv, command # Nothing
    PROVE  \E r \in Readers : /\ job[r].pc \in Waiting /\ command = Told(r) /\ ~ irq6
                              /\ job[r].disk \in Disks /\ job[r].lba \in Sectors
                              /\ \A q \in Readers : q # r => job[q].pc \notin Driving
<1>1. PICK r \in Readers : job[r].pc \in Waiting
  BY DEF DriveInv, Answers
<1>2. command = Told(r) /\ ~ irq6
  BY <1>1 DEF DriveInv, Answers
<1>3. \A q \in Readers : q # r => job[q].pc \notin Driving
  BY <1>1 DEF DriveInv, Locks, Alone, ToDrive, Driving, Waiting
<1>4. job[r].disk \in Disks /\ job[r].lba \in Sectors
  BY <1>1 DEF DriveInv, JobOK, Waiting
<1> QED
  BY <1>1, <1>2, <1>3, <1>4

LEMMA SeekEndsData ==
    ASSUME DataInv, DriveInv', QuietSeekEnds
    PROVE  DataInv'
<1>1. PICK s \in {"ok", "failed"} :
        SeekEnds(s) /\ (s = "failed" => \A r \in Readers : job[r].tries < SeekTimeout)
  BY DEF QuietSeekEnds
<1>2. command # Nothing /\ command.do = "seek"
  BY <1>1 DEF SeekEnds
<1>3. PICK r \in Readers : /\ job[r].pc \in Waiting /\ command = Told(r) /\ ~ irq6
                           /\ job[r].disk \in Disks /\ job[r].lba \in Sectors
                           /\ \A q \in Readers : q # r => job[q].pc \notin Driving
  BY <1>2, WhoWaits DEF DataInv
<1>4. job[r].pc = "seeking" /\ command.disk = job[r].disk /\ command.at = Dims(job[r].lba)
  BY <1>2, <1>3 DEF Told, Waiting
<1>5. PICK d \in Disks, cyl \in Cyls : d = job[r].disk /\ cyl = Dims(job[r].lba).cyl
  BY <1>3, DimsTyped
<1>6. /\ irq6' = TRUE /\ status' = s /\ UNCHANGED <<job, track, dma, cache>>
      /\ arm' = IF s = "ok" THEN [arm EXCEPT ![d] = cyl] ELSE arm
  BY <1>1, <1>4, <1>5 DEF SeekEnds, Interrupts
<1>7. arm \in [Disks -> Cyls]
  BY DEF DataInv, DriveInv, Typed
<1>8. ASSUME NEW q \in Readers PROVE HoldsOwn(q)'
  <2>1. HoldsOwn(q)
    BY DEF DataInv
  <2>2. CASE q = r
    <3>1. s = "ok" => arm'[job[r].disk] = Dims(job[r].lba).cyl
      BY <1>5, <1>6, <1>7
    <3> QED
      BY <1>1, <1>4, <1>6, <2>1, <2>2, <3>1 DEF HoldsOwn, Moved, Got
  <2>3. CASE q # r
    <3>1. job[q].pc \notin Driving
      BY <1>3, <2>3
    <3> QED
      BY <1>6, <2>1, <3>1 DEF HoldsOwn, Moved, Driving
  <2> QED
    BY <2>2, <2>3
<1>9. ASSUME NEW e \in Disks PROVE ArmKnown(e)'
  <2>1. CASE s = "ok" /\ e = d
    BY <1>4, <1>5, <1>6, <2>1 DEF ArmKnown, Moved
  <2>2. CASE s # "ok" \/ e # d
    <3>1. arm'[e] = arm[e]
      BY <1>6, <1>7, <2>2
    <3>2. \A q \in Readers : ~ Moved(q)
      BY <1>3 DEF Moved
    <3> QED
      BY <1>6, <3>1, <3>2 DEF DataInv, ArmKnown
  <2> QED
    BY <2>1, <2>2
<1>10. \A k \in 1 .. CacheSize : EntryRight(k)'
  BY <1>6 DEF DataInv, EntryRight
<1> QED
  BY <1>8, <1>9, <1>10 DEF DataInv

LEMMA ReadEndsData ==
    ASSUME OneSide, DataInv, DriveInv', ReadEnds("ok")
    PROVE  DataInv'
<1>1. command # Nothing /\ command.do = "read"
  BY DEF ReadEnds
<1>2. PICK r \in Readers : /\ job[r].pc \in Waiting /\ command = Told(r) /\ ~ irq6
                           /\ job[r].disk \in Disks /\ job[r].lba \in Sectors
                           /\ \A q \in Readers : q # r => job[q].pc \notin Driving
  BY <1>1, WhoWaits DEF DataInv
<1>3. job[r].pc = "reading" /\ command.disk = job[r].disk /\ command.at = Dims(job[r].lba)
  BY <1>1, <1>2 DEF Told, Waiting
<1>4. arm[job[r].disk] = Dims(job[r].lba).cyl
  BY <1>3 DEF DataInv, HoldsOwn
<1>5. irq6' = TRUE /\ dma' = job[r].lba /\ UNCHANGED <<job, track, arm, status, cache>>
  <2>1. At(Dims(job[r].lba)) = job[r].lba
    BY <1>2, AtDims DEF OneSide
  <2> QED
    BY <1>3, <1>4, <2>1 DEF ReadEnds, Interrupts
<1>6. ASSUME NEW q \in Readers PROVE HoldsOwn(q)'
  <2>1. HoldsOwn(q)
    BY DEF DataInv
  <2>2. CASE q = r
    BY <1>3, <1>5, <2>1, <2>2 DEF HoldsOwn, Moved, Got
  <2>3. CASE q # r
    <3>1. job[q].pc \notin Driving
      BY <1>2, <2>3
    <3> QED
      BY <1>5, <2>1, <3>1 DEF HoldsOwn, Moved, Driving
  <2> QED
    BY <2>2, <2>3
<1>7. \A d \in Disks : ArmKnown(d)'
  <2>1. \A q \in Readers : ~ Moved(q)
    BY <1>2 DEF Moved
  <2> QED
    BY <1>5, <2>1 DEF DataInv, ArmKnown
<1>8. \A k \in 1 .. CacheSize : EntryRight(k)'
  BY <1>5 DEF DataInv, EntryRight
<1> QED
  BY <1>6, <1>7, <1>8 DEF DataInv

LEMMA InitData ==
    ASSUME OneSide, Init
    PROVE  DataInv
<1>1. \A r \in Readers : job[r].pc = "idle"
  BY DEF Init, Idle
<1>2. \A r \in Readers : HoldsOwn(r)
  BY <1>1 DEF HoldsOwn, Moved, Got
<1>3. ASSUME NEW d \in Disks, NEW lba \in Sectors, track[d][Dims(lba).head] = Dims(lba).cyl
      PROVE  arm[d] = Dims(lba).cyl
  <2>1. Dims(lba).cyl \in Nat /\ Dims(lba).cyl # 1 /\ Dims(lba).head \in Heads
    BY DimsTyped DEF OneSide
  <2>2. PICK zero \in Disks :
          track = [e \in Disks |-> [h \in Heads |-> IF e = zero THEN 1 ELSE IF h = 0 THEN 0 ELSE -1]]
    BY DEF Init
  <2>3. track[d][Dims(lba).head] \in {1, 0, -1}
    BY <2>1, <2>2
  <2>4. Dims(lba).cyl = 0
    BY <1>3, <2>1, <2>3
  <2> QED
    BY <2>4 DEF Init
<1>4. \A d \in Disks : ArmKnown(d)
  BY <1>3 DEF ArmKnown
<1>5. \A i \in 1 .. CacheSize : EntryRight(i)
  BY DEF Init, EntryRight
<1> QED
  BY <1>2, <1>4, <1>5, InitDrive DEF DataInv

LEMMA NextData ==
    ASSUME OneSide, DataInv, [QuietNext]_vars
    PROVE  DataInv'
<1>1. DriveInv'
  BY NextDrive DEF DataInv
<1>2. CASE UNCHANGED vars
  BY <1>1, <1>2, SameData DEF vars, driver, hardware
<1>3. ASSUME NEW r \in Readers, NEW d \in Disks, NEW lba \in Sectors, Start(r, d, lba) PROVE DataInv'
  BY <1>1, <1>3, StartData
<1>4. ASSUME NEW r \in Readers, QuietTests(r) PROVE DataInv'
  <2>1. CASE CacheTest(r)
    <3>1. PICK pc \in {"cacheset", "keepset"} :
            Goto(r, pc) /\ job[r].pc = IF pc = "cacheset" THEN "cache" ELSE "keep"
      BY <2>1 DEF CacheTest, Is
    <3> QED
      BY <1>1, <2>1, <3>1, GotoPlain DEF CacheTest, driver, hardware, Got, Pcs
  <2>2. CASE LockTest(r)
    BY <1>1, <2>2, GotoPlain DEF LockTest, Is, driver, hardware, Got, Pcs
  <2>3. CASE MotorTest(r)
    <3>1. PICK pc \in {"start", "spin"} : Goto(r, pc)
      BY <2>3 DEF MotorTest
    <3> QED
      BY <1>1, <2>3, <3>1, GotoPlain DEF MotorTest, Is, driver, hardware, Got, Pcs
  <2>4. CASE FindTimer(r)
    BY <1>1, <2>4, FindTimerData
  <2> QED
    BY <1>4, <2>1, <2>2, <2>3, <2>4 DEF QuietTests
<1>5. ASSUME NEW r \in Readers, CacheSet(r) PROVE DataInv'
  <2>1. PICK pc \in {"lookup", "key"} :
          Goto(r, pc) /\ job[r].pc = IF pc = "lookup" THEN "cacheset" ELSE "keepset"
    BY <1>5 DEF CacheSet, Is
  <2> QED
    BY <1>1, <1>5, <2>1, GotoPlain DEF CacheSet, hardware, Got, Pcs
<1>6. ASSUME NEW r \in Readers, LockSet(r) PROVE DataInv'
  BY <1>1, <1>6, GotoPlain DEF LockSet, Is, hardware, Got, Pcs
<1>7. ASSUME NEW r \in Readers, RemoveTimer(r) PROVE DataInv'
  BY <1>1, <1>7, GotoPlain DEF RemoveTimer, Is, driver, hardware, Got, Pcs
<1>8. ASSUME NEW r \in Readers, StartMotor(r) PROVE DataInv'
  BY <1>1, <1>8, GotoPlain DEF StartMotor, Is, driver, hardware, Got, Pcs
<1>9. ASSUME NEW r \in Readers, SpunUp(r) PROVE DataInv'
  BY <1>1, <1>9, GotoPlain DEF SpunUp, Is, driver, hardware, Got, Pcs
<1>10. ASSUME NEW r \in Readers, Step(r) PROVE DataInv'
  BY <1>1, <1>8, <1>9, <1>10, LookupData, KeepKeyData, KeepDataData, ReturnData, SetTimerData, SeekData,
     SoughtData, ReadData, ReadDoneData, CopyData DEF Step
<1>11. ASSUME NEW r \in Readers, ReaderNext(r) PROVE DataInv'
  BY <1>4, <1>5, <1>6, <1>7, <1>10, <1>11 DEF ReaderNext, QuietRemove
<1>12. ASSUME NEW i \in TimerIds, QuietFire(i) PROVE DataInv'
  BY <1>1, <1>12, SameData DEF QuietFire, Fire, driver, hardware
<1>13. CASE QuietSeekEnds
  BY <1>1, <1>13, SeekEndsData
<1>14. CASE ReadEnds("ok")
  BY <1>1, <1>14, ReadEndsData
<1> QED
  BY <1>2, <1>3, <1>11, <1>12, <1>13, <1>14 DEF QuietNext

(* fdd_readSector(): the arm, the DMA buffer and the cache always hold what*)
(* those who are about to use them count on.                               *)
THEOREM DataInvariant ==
    ASSUME OneSide
    PROVE  QuietSpec => []DataInv
<1>1. QuietSpec => Init /\ [][QuietNext]_vars
  BY PTL DEF QuietSpec
<1>2. Init => DataInv
  BY InitData
<1>3. DataInv /\ [QuietNext]_vars => DataInv'
  BY NextData
<1> QED
  BY <1>1, <1>2, <1>3, PTL

(* A read returns the sector it was asked for, and takes no interrupt but  *)
(* its own, whatever the other readers do in between.                      *)
THEOREM ReadsAlwaysRight ==
    ASSUME OneSide
    PROVE  QuietSpec => []ReadsRight
<1>1. DataInv => DataRight
  BY DEF DataInv, HoldsOwn, Got, DataRight, Is
<1>2. QuietSpec => []DataRight
  BY <1>1, DataInvariant, PTL
<1> QED
  BY <1>2, AnswersAreOwn, PTL DEF ReadsRight


-----------------------------------------------------------------------------
(* What the buffers hold are sectors                                       *)

LEMMA GotoStored ==
    ASSUME Typed, Stored, NEW r \in Readers, NEW pc, Goto(r, pc)
    PROVE  \A q \in Readers : job'[q].buf \in Some
<1>1. \A q \in Readers : job'[q].buf = job[q].buf
  BY DEF Typed, JobType, Goto
<1> QED
  BY <1>1 DEF Stored

LEMMA StepStored ==
    ASSUME DriveInv, Stored, NEW r \in Readers, Step(r)
    PROVE  Stored'
<1>1. job \in [Readers -> JobType] /\ job[r] \in JobType /\ Typed /\ Nothing \in Some
  BY DEF DriveInv, Typed, Some
<1>2. CASE Lookup(r)
  <2>1. \A q \in Readers : job'[q].buf \in Some
    <3>1. CASE Holding(r) = {}
      BY <1>1, <1>2, <3>1, GotoStored DEF Lookup
    <3>2. CASE Holding(r) # {}
      <4>1. PICK i \in Holding(r) : job' = [job EXCEPT ![r].pc = "done", ![r].buf = cache[i].data]
        BY <1>2, <3>2 DEF Lookup
      <4>2. cache[i].data \in Some
        BY <1>1 DEF Holding, Typed, Stored
      <4>3. \A q \in Readers : job'[q].buf = job[q].buf \/ job'[q].buf = cache[i].data
        BY <1>1, <4>1 DEF JobType
      <4> QED
        BY <4>2, <4>3 DEF Stored
    <3> QED
      BY <3>1, <3>2
  <2> QED
    BY <1>2, <2>1 DEF Lookup, Stored, hardware
<1>3. CASE KeepKey(r)
  <2>1. PICK i \in Replaceable :
          /\ cache' = [cache EXCEPT ![i].disk = job[r].disk, ![i].lba = job[r].lba]
          /\ job' = [job EXCEPT ![r].pc = "data", ![r].slot = i]
          /\ dma' = dma
    BY <1>3 DEF KeepKey, hardware
  <2>2. \A q \in Readers : job'[q].buf = job[q].buf
    BY <1>1, <2>1 DEF JobType
  <2>3. \A k \in 1 .. CacheSize : cache'[k].data = cache[k].data
    BY <1>1, <2>1 DEF Typed, EntryType
  <2> QED
    BY <2>1, <2>2, <2>3 DEF Stored
<1>4. CASE KeepData(r)
  <2>1. \A q \in Readers : job'[q].buf \in Some
    BY <1>1, <1>4, GotoStored DEF KeepData
  <2>2. \A k \in 1 .. CacheSize : cache'[k].data = cache[k].data \/ cache'[k].data = job[r].buf
    BY <1>1, <1>4 DEF KeepData, Typed, EntryType
  <2> QED
    BY <1>4, <2>1, <2>2 DEF KeepData, Stored, hardware
<1>5. CASE Return(r)
  <2>1. \A q \in Readers : job'[q].buf = job[q].buf \/ job'[q].buf = Nothing
    BY <1>1, <1>5 DEF Return, Idle
  <2> QED
    BY <1>1, <1>5, <2>1 DEF Return, Stored, driver, hardware
<1>6. CASE StartMotor(r) \/ SpunUp(r) \/ Read(r) \/ ReadDone(r)
  <2>1. \E pc : Goto(r, pc)
    BY <1>6 DEF StartMotor, SpunUp, Read, ReadDone
  <2>2. UNCHANGED <<dma, cache>>
    BY <1>6 DEF StartMotor, SpunUp, Read, ReadDone, driver, hardware
  <2> QED
    BY <1>1, <2>1, <2>2, GotoStored DEF Stored
<1>7. CASE \E fn \in {"on", "off"} : SetTimer(r, fn)
  <2>1. PICK pc : job' = [job EXCEPT ![r].pc = pc, ![r].slot = NoTimer]
    BY <1>7 DEF SetTimer
  <2>2. \A q \in Readers : job'[q].buf = job[q].buf
    BY <1>1, <2>1 DEF JobType
  <2> QED
    BY <1>7, <2>2 DEF SetTimer, Stored, driver, hardware
<1>8. CASE Seek(r)
  <2>1. \E pc : Goto(r, pc)
    BY <1>8 DEF Seek
  <2> QED
    BY <1>1, <1>8, <2>1, GotoStored DEF Seek, Stored, driver
<1>9. CASE Sought(r)
  <2>1. PICK pc, n : job' = [job EXCEPT ![r].pc = pc, ![r].tries = n]
    BY <1>9 DEF Sought
  <2>2. \A q \in Readers : job'[q].buf = job[q].buf
    BY <1>1, <2>1 DEF JobType
  <2> QED
    BY <1>9, <2>2 DEF Sought, Stored, hardware
<1>10. CASE Copy(r)
  <2>1. \A q \in Readers : job'[q].buf = job[q].buf \/ job'[q].buf = dma
    BY <1>1, <1>10 DEF Copy, JobType
  <2> QED
    BY <1>10, <2>1 DEF Copy, Stored, hardware
<1> QED
  BY <1>2, <1>3, <1>4, <1>5, <1>6, <1>7, <1>8, <1>9, <1>10 DEF Step

LEMMA NextStored ==
    ASSUME PerHead = PerTrack, DriveInv, Stored, [QuietNext]_vars
    PROVE  Stored'
<1>1. job \in [Readers -> JobType] /\ Typed /\ Nothing \in Some
  BY DEF DriveInv, Typed, Some
<1>2. CASE UNCHANGED <<job, cache, dma>>
  BY <1>2 DEF Stored
<1>3. ASSUME NEW r \in Readers, NEW d \in Disks, NEW lba \in Sectors, Start(r, d, lba) PROVE Stored'
  <2>1. job' = [job EXCEPT ![r] = [Idle EXCEPT !.pc = "cache", !.disk = d, !.lba = lba]]
    BY <1>3 DEF Start
  <2>2. [Idle EXCEPT !.pc = "cache", !.disk = d, !.lba = lba].buf = Nothing
    BY DEF Idle
  <2>3. \A q \in Readers : job'[q].buf = job[q].buf \/ job'[q].buf = Nothing
    BY <1>1, <2>1, <2>2
  <2> QED
    BY <1>1, <1>3, <2>3 DEF Start, Stored, driver, hardware
<1>4. ASSUME NEW r \in Readers, FindTimer(r) PROVE Stored'
  <2>1. PICK pc, n : job' = [job EXCEPT ![r].pc = pc, ![r].slot = n]
    BY <1>4 DEF FindTimer
  <2>2. \A q \in Readers : job'[q].buf = job[q].buf
    BY <1>1, <2>1 DEF JobType
  <2> QED
    BY <1>4, <2>2 DEF FindTimer, Stored, driver, hardware
<1>5. ASSUME NEW r \in Readers,
             CacheTest(r) \/ LockTest(r) \/ MotorTest(r) \/ CacheSet(r) \/ LockSet(r) \/ RemoveTimer(r)
      PROVE Stored'
  <2>1. \E pc : Goto(r, pc)
    BY <1>5 DEF CacheTest, LockTest, MotorTest, CacheSet, LockSet, RemoveTimer
  <2>2. UNCHANGED <<dma, cache>>
    BY <1>5 DEF CacheTest, LockTest, MotorTest, CacheSet, LockSet, RemoveTimer, driver, hardware
  <2> QED
    BY <1>1, <2>1, <2>2, GotoStored DEF Stored
<1>6. ASSUME NEW r \in Readers, ReaderNext(r) PROVE Stored'
  BY <1>4, <1>5, <1>6, StepStored DEF ReaderNext, QuietTests, QuietRemove
<1>7. ASSUME NEW i \in TimerIds, QuietFire(i) PROVE Stored'
  BY <1>7 DEF QuietFire, Fire, Stored, driver, hardware
<1>8. CASE QuietSeekEnds
  BY <1>8 DEF QuietSeekEnds, SeekEnds, Interrupts, Stored
<1>9. CASE ReadEnds("ok")
  <2>1. PICK r \in Readers : command = Told(r) /\ job[r].lba \in Sectors
    BY <1>9, WhoWaits DEF ReadEnds
  <2>2. At(command.at) = job[r].lba
    BY <2>1, AtDims DEF Told
  <2>3. dma' \in Some
    BY <1>9, <2>1, <2>2 DEF ReadEnds, Stored, Some
  <2> QED
    BY <1>9, <2>3 DEF ReadEnds, Interrupts, Stored
<1> QED
  BY <1>2, <1>3, <1>6, <1>7, <1>8, <1>9 DEF QuietNext, vars, driver, hardware

(* Every variable keeps its type: what is copied out of the DMA buffer and *)
(* kept in the cache is a sector of the disk, and no index leaves its      *)
(* table.                                                                  *)
THEOREM FloppyTyped ==
    ASSUME PerHead = PerTrack
    PROVE  QuietSpec => []TypeOK
<1>1. QuietSpec => Init /\ [][QuietNext]_vars
  BY PTL DEF QuietSpec
<1>2. Init => DriveInv /\ Stored
  BY InitDrive DEF Init, Idle, Stored, Some
<1>3. DriveInv /\ Stored /\ [QuietNext]_vars => DriveInv' /\ Stored'
  BY NextDrive, NextStored
<1>4. DriveInv /\ Stored => TypeOK
  <2> SUFFICES ASSUME DriveInv, Stored PROVE TypeOK
    OBVIOUS
  <2>1. TimersTypeOK /\ motor \in [Disks -> 0 .. 2] /\ timer \in [Disks -> TimerIds \cup {NoTimer}]
        /\ track \in [Disks -> [Heads -> Cyls \cup {-1}]] /\ arm \in [Disks -> Cyls]
        /\ {inUse, cacheInUse, irq6} \subseteq BOOLEAN /\ status \in {"ok", "failed"}
        /\ dma \in Sectors \cup {Nothing}
    BY DEF DriveInv, Typed, TimersTypeOK, Stored, Some
  <2>2. \A i \in 1 .. CacheSize :
            cache[i] \in [disk : Disks \cup {Nothing}, lba : Sectors \cup {Nothing},
                          data : Sectors \cup {Nothing}]
    BY DEF DriveInv, Typed, EntryType, Stored, Some
  <2>3. command # Nothing => command.do \in {"seek", "read"} /\ command.disk \in Disks
    BY DEF DriveInv, Typed, CommandType
  <2>4. ASSUME NEW r \in Readers
        PROVE  /\ job[r].disk \in Disks \cup {Nothing}
               /\ {job[r].lba, job[r].buf} \subseteq Sectors \cup {Nothing}
               /\ job[r].slot \in TimerIds \cup DOMAIN cache \cup {NoTimer}
               /\ job[r].tries \in 0 .. SeekTimeout
    BY DEF DriveInv, Typed, JobType, Stored, Some
  <2> QED
    BY <2>1, <2>2, <2>3, <2>4 DEF TypeOK
<1> QED
  BY <1>1, <1>2, <1>3, <1>4, PTL
=============================================================================
