------------------------------- MODULE Floppy -------------------------------
(***************************************************************************)
(* Reading a floppy disk (CommonCode/drv_fdd.c) with its timers and its DMA*)
(* buffer.  Processes that read share a controller, a sector cache, each   *)
(* behind a spin lock of its own, and the motor and the arm of a drive.    *)
(*                                                                         *)
(* A lock is tested, and then set: the scheduler may run others in between,*)
(* as between any two steps here.  The motor is switched by timers: on,    *)
(* half a second after it is started, off two seconds after a read.        *)
(*                                                                         *)
(* Sectors hold different data, so a sector's number stands for what it    *)
(* holds.  A command that fails leaves the DMA buffer as it was.           *)
(***************************************************************************)
EXTENDS Timers, FiniteSets

CONSTANTS
    Readers,        \* processes in fdd_readFS()
    Disks,          \* drives
    Sectors,        \* numbers of the sectors that are read
    PerTrack,       \* sectors of a track, 18 for a disk of 1.44 MB
    PerHead,        \* what get_dims() divides by to find the head
    MaxCyl,         \* bound: the last cylinder
    CacheSize,      \* entries of the sector cache
    SeekTimeout,    \* FDD_SEEK_TIMEOUT
    Nothing         \* no data, no command

ASSUME FloppyConstants ==
    /\ PerTrack \in Nat \ {0} /\ PerHead \in Nat \ {0} /\ MaxCyl \in Nat \ {0}
    /\ Sectors \subseteq 0 .. (MaxCyl + 1) * 2 * PerTrack - 1
    /\ CacheSize \in Nat \ {0} /\ SeekTimeout \in Nat
    /\ Nothing \notin Nat
    /\ Nothing \notin [do : {"seek", "read"}, disk : Disks, at : [cyl : Nat, head : Nat, sec : Nat]]
    /\ Calls = [fn : {"on", "off"}, disk : Disks]

VARIABLES
    motor,          \* fdd_devices[].motorState: 2 on, 1 spinning up, 0 off
    timer,          \* fdd_devices[].timer
    track,          \* fdd_devices[].track: where a head is believed to be
    arm,            \* the cylinder it is at
    inUse,          \* fdd_inUse
    cacheInUse,     \* siFDD_CacheInUse
    cache,          \* sFDD_SectorCache
    irq6,           \* fdd_irq6
    command,        \* what the controller is doing
    status,         \* how its last seek ended
    dma,            \* what is in the DMA buffer
    job             \* job[r]: where r is in fdd_readSector(), with what it is to
                    \* read, what it has read, and the timer or entry in hand

driver == <<inUse, cacheInUse, cache, irq6>>
hardware == <<arm, command, status, dma>>
vars == <<timers, motor, timer, track, driver, hardware, job>>

Cyls == 0 .. MaxCyl
Heads == 0 .. 1

(* get_dims()                                                              *)
Dims(lba) == [cyl |-> lba \div (2 * PerTrack), head |-> (lba \div PerHead) % 2,
              sec |-> lba % PerTrack]
(* The sector that has this address on the disk.                           *)
At(a) == (2 * a.cyl + a.head) * PerTrack + a.sec

Idle == [pc |-> "idle", disk |-> Nothing, lba |-> Nothing, buf |-> Nothing,
         slot |-> NoTimer, tries |-> 0]

(* As FDD_Reset() leaves it: both heads of disk 0 are sought to track 1 and*)
(* then recalibrated to track 0; the tracks of the other disk are set to   *)
(* what nobody sought.                                                     *)
Init ==
    /\ TimersInit
    /\ motor = [d \in Disks |-> 0]
    /\ timer = [d \in Disks |-> NoTimer]
    /\ \E zero \in Disks :
           track = [d \in Disks |-> [h \in Heads |-> IF d = zero THEN 1 ELSE IF h = 0 THEN 0 ELSE -1]]
    /\ arm = [d \in Disks |-> 0]
    /\ inUse = FALSE /\ cacheInUse = FALSE
    /\ cache = [i \in 1 .. CacheSize |-> [disk |-> Nothing, lba |-> Nothing, data |-> Nothing]]
    /\ irq6 = FALSE
    /\ command = Nothing /\ status = "ok" /\ dma = Nothing
    /\ job = [r \in Readers |-> Idle]

Is(r, pc) == job[r].pc = pc
Goto(r, pc) == job' = [job EXCEPT ![r].pc = pc]

-----------------------------------------------------------------------------
(* The sector cache                                                        *)

Start(r, d, lba) ==
    /\ Is(r, "idle")
    /\ job' = [job EXCEPT ![r] = [Idle EXCEPT !.pc = "cache", !.disk = d, !.lba = lba]]
    /\ UNCHANGED <<timers, motor, timer, track, driver, hardware>>

(* FDD_AquireCacheSpinlock(), before the cache is searched and before the  *)
(* sector goes into it.                                                    *)
CacheTest(r) ==
    /\ ~ cacheInUse
    /\ \/ Is(r, "cache") /\ Goto(r, "cacheset")
       \/ Is(r, "keep") /\ Goto(r, "keepset")
    /\ UNCHANGED <<timers, motor, timer, track, driver, hardware>>

CacheSet(r) ==
    /\ \/ Is(r, "cacheset") /\ Goto(r, "lookup")
       \/ Is(r, "keepset") /\ Goto(r, "key")
    /\ cacheInUse' = TRUE
    /\ UNCHANGED <<timers, motor, timer, track, inUse, cache, irq6, hardware>>

Holding(r) ==
    {i \in DOMAIN cache : cache[i].disk = job[r].disk /\ cache[i].lba = job[r].lba}

Lookup(r) ==
    /\ Is(r, "lookup")
    /\ IF Holding(r) = {} THEN Goto(r, "remove")
       ELSE \E i \in Holding(r) :
                job' = [job EXCEPT ![r].pc = "done", ![r].buf = cache[i].data]
    /\ cacheInUse' = FALSE
    /\ UNCHANGED <<timers, motor, timer, track, inUse, cache, irq6, hardware>>

(* The entry to use: one that is empty, or the oldest.  Which one that is, *)
(* is left open.                                                           *)
Replaceable ==
    LET empty == {i \in DOMAIN cache : cache[i].lba = Nothing}
    IN  IF empty = {} THEN DOMAIN cache
        ELSE {CHOOSE i \in empty : \A j \in empty : i <= j}

(* It is named for the sector, and then filled.                            *)
KeepKey(r) ==
    \E i \in Replaceable :
        /\ Is(r, "key")
        /\ cache' = [cache EXCEPT ![i].disk = job[r].disk, ![i].lba = job[r].lba]
        /\ job' = [job EXCEPT ![r].pc = "data", ![r].slot = i]
        /\ UNCHANGED <<timers, motor, timer, track, inUse, cacheInUse, irq6, hardware>>

(* It is filled from the DMA buffer.                                       *)
KeepDma(r) ==
    /\ Is(r, "data")
    /\ cache' = [cache EXCEPT ![job[r].slot].data = dma]
    /\ cacheInUse' = FALSE
    /\ Goto(r, "done")
    /\ UNCHANGED <<timers, motor, timer, track, inUse, irq6, hardware>>

KeepData(r) ==
    /\ Is(r, "data")
    /\ cache' = [cache EXCEPT ![job[r].slot].data = job[r].buf]
    /\ cacheInUse' = FALSE
    /\ Goto(r, "done")
    /\ UNCHANGED <<timers, motor, timer, track, inUse, irq6, hardware>>

Return(r) ==
    /\ Is(r, "done")
    /\ job' = [job EXCEPT ![r] = Idle]
    /\ UNCHANGED <<timers, motor, timer, track, driver, hardware>>

-----------------------------------------------------------------------------
(* The motor                                                               *)

(* "Remove Old Timer", whatever has become of it since.                    *)
RemoveTimer(r) ==
    /\ Is(r, "remove")
    /\ timers' = Removed(timer[job[r].disk])
    /\ Goto(r, "motor")
    /\ UNCHANGED <<motor, timer, track, driver, hardware>>

MotorTest(r) ==
    /\ Is(r, "motor")
    /\ Goto(r, IF motor[job[r].disk] = 0 THEN "start" ELSE "spin")
    /\ UNCHANGED <<timers, motor, timer, track, driver, hardware>>

StartMotor(r) ==
    /\ Is(r, "start")
    /\ motor' = [motor EXCEPT ![job[r].disk] = 1]
    /\ Goto(r, "find")
    /\ UNCHANGED <<timers, timer, track, driver, hardware>>

(* time_createTimer() finds a slot, for switching the motor on in          *)
(* start_motor() and for switching it off after a read, ...                *)
FindTimer(r) ==
    /\ \/ Is(r, "find") /\ job' = [job EXCEPT ![r].pc = "set", ![r].slot = FoundTimer]
       \/ Is(r, "findoff") /\ job' = [job EXCEPT ![r].pc = "setoff", ![r].slot = FoundTimer]
    /\ UNCHANGED <<timers, motor, timer, track, driver, hardware>>

(* ... and fills it in.                                                    *)
SetTimer(r, fn) ==
    /\ Is(r, IF fn = "on" THEN "set" ELSE "setoff")
    /\ timers' = IF job[r].slot = NoTimer THEN timers
                 ELSE Created(job[r].slot, [fn |-> fn, disk |-> job[r].disk])
    /\ timer' = [timer EXCEPT ![job[r].disk] = job[r].slot]
    /\ job' = [job EXCEPT ![r].pc = IF fn = "on" THEN "spin" ELSE "keep", ![r].slot = NoTimer]
    /\ UNCHANGED <<motor, track, driver, hardware>>

(* time_handler() makes the call: fdd_timer() or stop_motor().             *)
Fire(i) ==
    LET d == timers[i].disk
        free == [timers EXCEPT ![i] = NoTimer]
    IN  /\ timers[i] # NoTimer
        /\ IF timers[i].fn = "on"
           THEN /\ motor' = IF motor[d] = 1 THEN [motor EXCEPT ![d] = 2] ELSE motor
                /\ timers' = [j \in TimerIds |-> IF j = timer[d] THEN NoTimer ELSE free[j]]
                /\ timer' = [timer EXCEPT ![d] = NoTimer]
           ELSE /\ motor' = [motor EXCEPT ![d] = 0]
                /\ timers' = free
                /\ UNCHANGED timer
        /\ UNCHANGED <<track, driver, hardware, job>>

(* "Wait for spinup"                                                       *)
SpunUp(r) ==
    /\ Is(r, "spin")
    /\ motor[job[r].disk] # 1
    /\ Goto(r, "lock")
    /\ UNCHANGED <<timers, motor, timer, track, driver, hardware>>

-----------------------------------------------------------------------------
(* The controller                                                          *)

(* FDD_AquireSpinlock()                                                    *)
LockTest(r) ==
    /\ Is(r, "lock")
    /\ ~ inUse
    /\ Goto(r, "lockset")
    /\ UNCHANGED <<timers, motor, timer, track, driver, hardware>>

LockSet(r) ==
    /\ Is(r, "lockset")
    /\ inUse' = TRUE
    /\ Goto(r, "seek")
    /\ UNCHANGED <<timers, motor, timer, track, cacheInUse, cache, irq6, hardware>>

(* seekTrack(): a head that is believed to be there is not moved.          *)
Seek(r) ==
    LET d == job[r].disk
        a == Dims(job[r].lba)
    IN  /\ Is(r, "seek")
        /\ IF track[d][a.head] = a.cyl
           THEN Goto(r, "read") /\ UNCHANGED command
           ELSE Goto(r, "seeking") /\ command' = [do |-> "seek", disk |-> d, at |-> a]
        /\ UNCHANGED <<timers, motor, timer, track, driver, arm, status, dma>>

(* Tries are not counted.                                                  *)
SoughtEver(r) ==
    LET d == job[r].disk
        a == Dims(job[r].lba)
    IN  /\ Is(r, "seeking")
        /\ irq6
        /\ irq6' = FALSE
        /\ Goto(r, IF status = "ok" THEN "read" ELSE "seek")
        /\ track' = IF status = "ok" THEN [track EXCEPT ![d][a.head] = a.cyl] ELSE track
        /\ UNCHANGED <<timers, motor, timer, inUse, cacheInUse, cache, hardware>>

(* FDD_WaitIRQ(), with "Check Status" and the next try after a seek.       *)
Sought(r) ==
    LET d == job[r].disk
        a == Dims(job[r].lba)
        again == status # "ok" /\ job[r].tries < SeekTimeout
    IN  /\ Is(r, "seeking")
        /\ irq6
        /\ irq6' = FALSE
        /\ job' = [job EXCEPT ![r].pc = IF again THEN "seek" ELSE "read",
                              ![r].tries = IF again THEN @ + 1 ELSE 0]
        /\ track' = IF status = "ok" THEN [track EXCEPT ![d][a.head] = a.cyl] ELSE track
        /\ UNCHANGED <<timers, motor, timer, inUse, cacheInUse, cache, hardware>>

Read(r) ==
    /\ Is(r, "read")
    /\ command' = [do |-> "read", disk |-> job[r].disk, at |-> Dims(job[r].lba)]
    /\ Goto(r, "reading")
    /\ UNCHANGED <<timers, motor, timer, track, driver, arm, status, dma>>

(* How a read ended is not looked at.                                      *)
ReadDone(r) ==
    /\ Is(r, "reading")
    /\ irq6
    /\ irq6' = FALSE
    /\ Goto(r, "copy")
    /\ UNCHANGED <<timers, motor, timer, track, inUse, cacheInUse, cache, hardware>>

Copy(r) ==
    /\ Is(r, "copy")
    /\ job' = [job EXCEPT ![r].pc = "findoff", ![r].buf = dma]
    /\ inUse' = FALSE
    /\ UNCHANGED <<timers, motor, timer, track, cacheInUse, cache, irq6, hardware>>

(* The controller is done with its command, and raises IRQ 6.              *)
Interrupts ==
    /\ irq6' = TRUE
    /\ command' = Nothing
    /\ UNCHANGED <<timers, motor, timer, track, inUse, cacheInUse, cache, job>>

SeekEnds(s) ==
    /\ command # Nothing
    /\ command.do = "seek"
    /\ status' = s
    /\ arm' = IF s = "ok" THEN [arm EXCEPT ![command.disk] = command.at.cyl] ELSE arm
    /\ UNCHANGED dma
    /\ Interrupts

(* A sector is found on the cylinder the arm is at, while the disk turns.  *)
ReadEnds(s) ==
    /\ command # Nothing
    /\ command.do = "read"
    /\ motor[command.disk] # 0
    /\ dma' = IF s = "ok" /\ arm[command.disk] = command.at.cyl THEN At(command.at) ELSE dma
    /\ UNCHANGED <<arm, status>>
    /\ Interrupts

-----------------------------------------------------------------------------
Step(r) ==
    \/ Lookup(r) \/ KeepKey(r) \/ KeepData(r) \/ Return(r)
    \/ StartMotor(r) \/ SpunUp(r)
    \/ \E fn \in {"on", "off"} : SetTimer(r, fn)
    \/ Seek(r) \/ Sought(r) \/ Read(r) \/ ReadDone(r) \/ Copy(r)

(* The system as it is.                                                    *)
Next ==
    \/ \E r \in Readers :
        \/ \E d \in Disks, lba \in Sectors : Start(r, d, lba)
        \/ CacheTest(r) \/ CacheSet(r) \/ LockTest(r) \/ LockSet(r)
        \/ RemoveTimer(r) \/ MotorTest(r) \/ FindTimer(r)
        \/ Step(r)
    \/ \E i \in TimerIds : Fire(i)
    \/ \E s \in {"ok", "failed"} : SeekEnds(s) \/ ReadEnds(s)

Spec == Init /\ [][Next]_vars

(* The cases it handles.  The scheduler does not run another process that  *)
(* tests what one has tested and has yet to set: a lock, a motor, a timer, *)
Others(r, pcs) == \E q \in Readers \ {r} : job[q].pc \in pcs
QuietTests(r) ==
    \/ CacheTest(r) /\ ~ Others(r, {"cacheset", "keepset"})
    \/ LockTest(r) /\ ~ Others(r, {"lockset"})
    \/ MotorTest(r) /\ ~ Others(r, {"start"})
    \/ FindTimer(r) /\ ~ Others(r, {"set", "setoff"})

(* ... nobody comes to a drive while it spins up, ...                      *)
QuietRemove(r) == RemoveTimer(r) /\ motor[job[r].disk] # 1

(* ... reads that overlap are over before the motor is switched off two    *)
(* seconds after the first of them, ...                                    *)
Using(r) == job[r].pc \in {"motor", "start", "find", "set", "spin", "lock", "lockset", "seek",
                          "seeking", "read", "reading", "copy", "findoff", "setoff"}
QuietFire(i) == Fire(i) /\ (timers[i].fn = "off" => \A r \in Readers : ~ Using(r))

(* ... seeks succeed in the end, and sectors can be read.                  *)
QuietSeekEnds == SeekEnds("ok") \/ (SeekEnds("failed") /\ \A r \in Readers : job[r].tries < SeekTimeout)

ReaderNext(r) ==
    QuietTests(r) \/ CacheSet(r) \/ LockSet(r) \/ QuietRemove(r) \/ Step(r)

QuietNext ==
    \/ \E r \in Readers :
        \/ \E d \in Disks, lba \in Sectors : Start(r, d, lba)
        \/ ReaderNext(r)
    \/ \E i \in TimerIds : QuietFire(i)
    \/ QuietSeekEnds
    \/ ReadEnds("ok")

(* A reader gets the CPU; timers go off; the controller completes what it  *)
(* is told, and does not fail to seek for ever.                            *)
QuietSpec ==
    /\ Init /\ [][QuietNext]_vars
    /\ \A r \in Readers : WF_vars(ReaderNext(r))
    /\ \A i \in TimerIds : WF_vars(QuietFire(i))
    /\ WF_vars(QuietSeekEnds) /\ WF_vars(ReadEnds("ok"))

(* Each of the cases taken back in.                                        *)
SpinupSpec == Init /\ [][QuietNext \/ \E r \in Readers : RemoveTimer(r)]_vars
MotorSpec == Init /\ [][QuietNext \/ \E i \in TimerIds : Fire(i)]_vars
LockSpec == Init /\ [][QuietNext \/ \E r \in Readers : LockTest(r)]_vars
ErrorSpec == Init /\ [][QuietNext \/ ReadEnds("failed")]_vars

-----------------------------------------------------------------------------
TypeOK ==
    /\ TimersTypeOK
    /\ motor \in [Disks -> 0 .. 2]
    /\ timer \in [Disks -> TimerIds \cup {NoTimer}]
    /\ track \in [Disks -> [Heads -> Cyls \cup {-1}]]
    /\ arm \in [Disks -> Cyls]
    /\ {inUse, cacheInUse, irq6} \subseteq BOOLEAN
    /\ \A i \in 1 .. CacheSize :
           cache[i] \in [disk : Disks \cup {Nothing}, lba : Sectors \cup {Nothing},
                        data : Sectors \cup {Nothing}]
    /\ command # Nothing => command.do \in {"seek", "read"} /\ command.disk \in Disks
    /\ status \in {"ok", "failed"}
    /\ dma \in Sectors \cup {Nothing}
    /\ \A r \in Readers :
           /\ job[r].disk \in Disks \cup {Nothing}
           /\ {job[r].lba, job[r].buf} \subseteq Sectors \cup {Nothing}
           /\ job[r].slot \in TimerIds \cup DOMAIN cache \cup {NoTimer}
           /\ job[r].tries \in 0 .. SeekTimeout

(* A read that returns has the sector it asked for, whatever the others    *)
(* did to the arm, the DMA buffer and the cache meanwhile.                 *)
DataRight == \A r \in Readers : Is(r, "done") => job[r].buf = job[r].lba

(* An interrupt is the answer to the command of the one who waits for it.  *)
OwnAnswer ==
    LET waiting == {r \in Readers : job[r].pc \in {"seeking", "reading"}}
    IN  /\ Cardinality(waiting) <= 1
        /\ waiting = {} => command = Nothing /\ ~ irq6
        /\ waiting # {} => (irq6 <=> command = Nothing)

(* A motor that spins up has a timer that ends it, or will get one.        *)
SpinupEnds ==
    \A d \in Disks : motor[d] = 1 =>
        \/ Pending([fn |-> "on", disk |-> d])
        \/ \E r \in Readers : job[r].disk = d /\ job[r].pc \in {"find", "set"}

(* A command is given to a drive that turns.  It does not hold.            *)
MotorOn == \A r \in Readers : job[r].pc \in {"seek", "read"} => motor[job[r].disk] # 0

(* A motor nobody uses any more has a timer that stops it.                 *)
MotorStops ==
    \A d \in Disks :
        motor[d] # 0 /\ (\A r \in Readers : ~ Using(r)) => Pending([fn |-> "off", disk |-> d])

(* A read comes to its end, unless reads by others never stop.             *)
Answered ==
    \A r \in Readers :
        \/ []<>Is(r, "idle")
        \/ \E q \in Readers \ {r} : []<>Is(q, "idle") /\ []<>~ Is(q, "idle")

(* A read returns its own sector, and no one takes another's interrupt.    *)
ReadsRight == DataRight /\ OwnAnswer

(* Everything comes to an end: the spin-up, the motor's turning, the read. *)
AllEnd == [](SpinupEnds /\ MotorStops) /\ Answered
=============================================================================
