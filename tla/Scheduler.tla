----------------------------- MODULE Scheduler -----------------------------
(***************************************************************************)
(* The processes of AcessOS/proc.c: the active list, the sleep list and    *)
(* the delay list, and the scheduler behind the timer interrupt.           *)
(*                                                                         *)
(* The lists are linked by one pointer of the process structure, so a      *)
(* process can be on one of the first two at a time.  System calls can be  *)
(* interrupted, hence what Proc_Sleep() and Proc_Delay() do to the lists   *)
(* takes several steps; fork and exit turn interrupts off.                 *)
(*                                                                         *)
(* What a process does while gpCurrentProc is not its own, and what comes  *)
(* of a process whose saved stack is lost, is not followed.                *)
(***************************************************************************)
EXTENDS Integers, Sequences, FiniteSets

CONSTANTS
    Procs,          \* process structures
    Kernel,         \* the process that starts the others
    Slots,          \* PROC_DEF_PRI
    Delays,         \* ticks processes ask Proc_Delay() for
    Word,           \* a delta is a Uint: what it wraps at
    Null

ASSUME SchedulerConstants ==
    /\ Kernel \in Procs /\ Null \notin Procs
    /\ Slots \in Nat
    /\ Word \in Nat \ {0} /\ Delays \subseteq 0 .. Word - 1

VARIABLES
    next,           \* next pointer of each process
    active,         \* gpProcsActive
    asleep,         \* gpProcsAsleep
    waiting,        \* gpProcsWaiting
    status,
    timeRem,
    current,        \* gpCurrentProc
    cpu,            \* the process whose code the processor runs, or has interrupted
    pc,             \* where each process is in proc.c
    hlt,            \* that process waits in the hlt of Proc_Yield()
    idle,           \* which hlt of the scheduler the processor is in
    lost,           \* processes whose saved stack pointer is overwritten
    fault           \* the kernel has panicked or followed a NULL pointer

lists == <<next, active, asleep>>
vars == <<next, active, asleep, waiting, status, timeRem, current, cpu, pc, hlt, idle, lost, fault>>

(* delta is relative to the entry before; due is no part of the program:   *)
(* the ticks that are really left of the delay, -1 when it is over.        *)
WaitEntry == [proc : Procs, delta : 0 .. Word - 1, due : Nat \cup {-1}]

-----------------------------------------------------------------------------
(* Lists                                                                   *)

(* The processes a walk from head comes to.                                *)
Closed(nx, s) == \A p \in s : nx[p] # Null => nx[p] \in s
Nodes(nx, head) ==
    {p \in Procs : head # Null /\ \A s \in SUBSET Procs : head \in s /\ Closed(nx, s) => p \in s}

Active == Nodes(next, active)
Asleep == Nodes(next, asleep)
Delayed == {waiting[i].proc : i \in DOMAIN waiting}

Lasts(nx, head) == {p \in Nodes(nx, head) : nx[p] = Null}
Befores(nx, head, p) == {q \in Nodes(nx, head) : nx[q] = p}

(* The item keeps its next pointer.                                        *)
AppendedLinked(nx, head, p) ==
    IF head = Null THEN [next |-> nx, head |-> p]
    ELSE LET q == CHOOSE q \in Lasts(nx, head) : TRUE
         IN  [next |-> [nx EXCEPT ![q] = p], head |-> head]

(* ll_append(): the new next pointers and the new head.                    *)
Appended(nx, head, p) ==
    LET cut == [nx EXCEPT ![p] = Null]
    IN  IF head = Null THEN [next |-> cut, head |-> p]
        ELSE LET q == CHOOSE q \in Lasts(cut, head) : TRUE
             IN  [next |-> [cut EXCEPT ![q] = p], head |-> head]

(* The walk to the process before p, which then points past p.             *)
Unlinked(nx, head, p) ==
    IF Befores(nx, head, p) = {} THEN nx
    ELSE LET q == CHOOSE q \in Befores(nx, head, p) : TRUE
         IN  [nx EXCEPT ![q] = nx[p]]
-----------------------------------------------------------------------------
Init ==
    /\ next = [p \in Procs |-> Null]
    /\ active = Kernel
    /\ asleep = Null
    /\ waiting = <<>>
    /\ status = [p \in Procs |-> IF p = Kernel THEN "active" ELSE "unused"]
    /\ timeRem = [p \in Procs |-> Slots]
    /\ current = Kernel
    /\ cpu = Kernel
    /\ pc = [p \in Procs |-> "run"]
    /\ hlt = FALSE
    /\ idle = "no"
    /\ lost = {}
    /\ fault = FALSE

(* The processor runs code of its current process, which is at s.          *)
Runs(s) == ~ fault /\ idle = "no" /\ ~ hlt /\ cpu = current /\ pc[cpu] = s

(* One tick given up.                                                      *)
GiveUpTick == timeRem' = [timeRem EXCEPT ![current] = @ - 1] /\ hlt' = TRUE

(* Proc_Yield(): the rest of the time slice is given up, and the processor *)
(* waits for an interrupt.                                                 *)
GiveUp ==
    /\ timeRem' = [timeRem EXCEPT ![current] = 0]
    /\ hlt' = TRUE

Fails ==
    /\ fault' = TRUE
    /\ UNCHANGED <<next, active, asleep, waiting, status, timeRem, current, cpu, pc, hlt, idle, lost>>

(* A process that has ended yields forever.                                *)
Yield ==
    /\ Runs("run") \/ Runs("gone")
    /\ GiveUp
    /\ UNCHANGED <<lists, waiting, status, current, cpu, pc, idle, lost, fault>>

(* Proc_Fork() and Proc_KFork(): interrupts are off.                       *)
Fork(q) ==
    LET l == Appended(next, active, q)
    IN  /\ Runs("run")
        /\ status[q] = "unused"
        /\ Lasts(next, active) # {}
        /\ next' = l.next
        /\ status' = [status EXCEPT ![q] = "active"]
        /\ timeRem' = [timeRem EXCEPT ![q] = Slots]
        /\ pc' = [pc EXCEPT ![q] = "run"]
        /\ UNCHANGED <<active, asleep, waiting, current, cpu, hlt, idle, lost, fault>>

-----------------------------------------------------------------------------
(* Proc_Sleep(), Proc_WakeProc()                                           *)

SleepMark ==
    /\ Runs("run")
    /\ status[cpu] # "sleep"
    /\ status' = [status EXCEPT ![cpu] = "sleep"]
    /\ pc' = [pc EXCEPT ![cpu] = "unlink"]
    /\ UNCHANGED <<lists, waiting, timeRem, current, cpu, hlt, idle, lost, fault>>

SleepUnlink ==
    /\ Runs("unlink")
    /\ IF active # cpu /\ Befores(next, active, cpu) = {} THEN Fails
       ELSE /\ active' = IF active = cpu THEN next[cpu] ELSE active
            /\ next' = IF active = cpu THEN next ELSE Unlinked(next, active, cpu)
            /\ pc' = [pc EXCEPT ![cpu] = "append"]
            /\ UNCHANGED <<asleep, waiting, status, timeRem, current, cpu, hlt, idle, lost, fault>>

SleepAppend ==
    LET l == Appended(next, asleep, cpu)
    IN  /\ Runs("append")
        /\ next' = l.next
        /\ asleep' = l.head
        /\ pc' = [pc EXCEPT ![cpu] = "run"]
        /\ GiveUp
        /\ UNCHANGED <<active, waiting, status, current, cpu, idle, lost, fault>>

Awake(q) == [status EXCEPT ![q] = "active"]

(* The first sleeper is appended to the active list, ...                   *)
WakeFirst(q) ==
    LET l == Appended(next, active, q)
    IN  /\ Runs("run")
        /\ q = asleep
        /\ asleep' = next[q]
        /\ next' = l.next
        /\ active' = l.head
        /\ status' = Awake(q)
        /\ UNCHANGED <<waiting, timeRem, current, cpu, pc, hlt, idle, lost, fault>>

(* ... any other one keeps its next pointer.                               *)
WakeLater(q) ==
    /\ Runs("run")
    /\ q \in Asleep \ {asleep}
    /\ active # Null
    /\ next' = [Unlinked(next, asleep, q) EXCEPT ![CHOOSE p \in Lasts(next, active) : TRUE] = q]
    /\ status' = Awake(q)
    /\ UNCHANGED <<active, asleep, waiting, timeRem, current, cpu, pc, hlt, idle, lost, fault>>

-----------------------------------------------------------------------------
(* Proc_Delay()                                                            *)

(* The walk stops at the entry that would exceed the delay, or at the last.*)
Ahead(i) == LET sum[j \in 0 .. i] == IF j = 0 THEN 0 ELSE sum[j - 1] + waiting[j].delta
            IN  sum[i] % Word
StopAt(ms) == CHOOSE i \in DOMAIN waiting :
    /\ i = Len(waiting) \/ Ahead(i) > ms
    /\ \A j \in 1 .. i - 1 : Ahead(j) <= ms

(* The entry goes behind that one, counted from the one before it.         *)
Inserted(ms) ==
    LET i == StopAt(ms)
        d == (ms - Ahead(i - 1)) % Word
        rest == SubSeq(waiting, i + 1, Len(waiting))
        new == [proc |-> cpu, delta |-> d, due |-> ms]
    IN  IF waiting = <<>> THEN <<[proc |-> cpu, delta |-> ms, due |-> ms]>>
        ELSE SubSeq(waiting, 1, i) \o <<new>> \o
             (IF rest = <<>> THEN <<>>
              ELSE <<[rest[1] EXCEPT !.delta = (@ - d) % Word]>> \o Tail(rest))

DelayInsert(ms) ==
    /\ Runs("run")
    /\ waiting' = Inserted(ms)
    /\ pc' = [pc EXCEPT ![cpu] = "remove"]
    /\ UNCHANGED <<lists, status, timeRem, current, cpu, hlt, idle, lost, fault>>

DelayRemove ==
    /\ Runs("remove")
    /\ IF active \notin {Null, cpu} /\ Befores(next, active, cpu) = {} THEN Fails
       ELSE /\ active' = IF active \in {Null, cpu} THEN next[cpu] ELSE active
            /\ next' = IF active \in {Null, cpu} THEN next ELSE Unlinked(next, active, cpu)
            /\ pc' = [pc EXCEPT ![cpu] = "run"]
            /\ GiveUp
            /\ UNCHANGED <<asleep, waiting, status, current, cpu, idle, lost, fault>>
-----------------------------------------------------------------------------
(* Proc_Exit() takes the process from both lists: from one that is empty,  *)
(* as if it were the first of it.  Its time slice goes on.  The kernel's   *)
(* own process never ends.                                                 *)
Exit ==
    LET first(head) == head \in {Null, cpu}
        nx == IF first(active) THEN next ELSE Unlinked(next, active, cpu)
    IN  /\ Runs("run")
        /\ cpu # Kernel
        /\ active' = IF first(active) THEN next[cpu] ELSE active
        /\ asleep' = IF first(asleep) THEN next[cpu] ELSE asleep
        /\ next' = IF first(asleep) THEN nx ELSE Unlinked(nx, asleep, cpu)
        /\ status' = [status EXCEPT ![cpu] = "null"]
        /\ pc' = [pc EXCEPT ![cpu] = "gone"]
        /\ hlt' = TRUE
        /\ UNCHANGED <<waiting, timeRem, current, cpu, idle, lost, fault>>

(* Proc_Kill() marks an active process.  A sleeper is found only behind    *)
(* another one; what is looked for and not found is a NULL pointer.        *)
Kill(q) ==
    /\ Runs("run")
    /\ status[q] \in {"active", "sleep"}
    /\ IF q \notin Active /\ Befores(next, asleep, q) = {} THEN Fails
       ELSE /\ next' = IF q \in Active THEN next ELSE Unlinked(next, asleep, q)
            /\ status' = [status EXCEPT ![q] = "null"]
            /\ UNCHANGED <<active, asleep, waiting, timeRem, current, cpu, pc, hlt, idle,
                           lost, fault>>

-----------------------------------------------------------------------------
(* proc_scheduler()                                                        *)

(* "Wake Delayed Processes"                                                *)
Expired == CHOOSE n \in 0 .. Len(waiting) :
    /\ \A i \in 1 .. n : waiting[i].delta = 0
    /\ n = Len(waiting) \/ waiting[n + 1].delta # 0

WokenAs(p) == CHOOSE i \in 1 .. Expired :
    waiting[i].proc = p /\ \A j \in i + 1 .. Expired : waiting[j].proc # p
Waken(p) == \E i \in 1 .. Expired : waiting[i].proc = p

(* Each goes to the front of the active list.                              *)
Woken ==
    LET first(i) == IF i = 0 THEN active ELSE waiting[i].proc
    IN  [next |-> [p \in Procs |-> IF Waken(p) THEN first(WokenAs(p) - 1) ELSE next[p]],
         head |-> first(Expired)]

(* All of them count down.                                                 *)
CountedDownAll(s) == [i \in DOMAIN s |-> [s[i] EXCEPT !.delta = (@ - 1) % Word]]

(* Only the first of the others counts down.                               *)
CountedDown(s) == IF s = <<>> THEN s ELSE [s EXCEPT ![1].delta = (@ - 1) % Word]

StillWaiting ==
    LET s == CountedDown(SubSeq(waiting, Expired + 1, Len(waiting)))
    IN  [i \in DOMAIN s |-> [s[i] EXCEPT !.due = IF @ < 0 THEN @ ELSE @ - 1]]

Dying == current # Null /\ status[current] = "null"

(* Always the first.                                                       *)
SuccessorFirst(nx, head) == head

(* The process after the current one, or else the first.                   *)
Successor(nx, head) ==
    IF current = Null \/ Dying \/ nx[current] = Null THEN head ELSE nx[current]

(* The processor goes over to p, or waits inside of the interrupt if p     *)
(* cannot run.                                                             *)
SwitchTo(p) ==
    /\ current' = p
    /\ IF p # Null /\ status[p] = "active"
       THEN /\ cpu' = p
            /\ timeRem' = [timeRem EXCEPT ![p] = Slots]
            /\ hlt' = FALSE
            /\ idle' = "no"
       ELSE /\ idle' = "none"
            /\ UNCHANGED <<cpu, timeRem, hlt>>

(* A process that is to die is freed if it has a predecessor.              *)
Reap(nx, head) ==
    /\ next' = IF Dying THEN Unlinked(nx, head, current) ELSE nx
    /\ status' = IF Dying /\ Befores(nx, head, current) # {}
                 THEN [status EXCEPT ![current] = "unused"] ELSE status

(* The stub saves the stack pointer of the process, but whatever stack an  *)
(* idle processor is on.                                                   *)
Tick ==
    /\ ~ fault
    /\ cpu \notin lost
    /\ lost' = IF idle = "no" THEN lost ELSE lost \cup {cpu}
    /\ waiting' = StillWaiting
    /\ active' = Woken.head
    /\ CASE current # Null /\ timeRem[current] > 0 ->
                /\ timeRem' = [timeRem EXCEPT ![current] = @ - 1]
                /\ next' = Woken.next
                /\ hlt' = FALSE
                /\ UNCHANGED <<status, current, cpu, idle>>
         [] current = Null /\ Woken.head = Null ->
                /\ idle' = "empty"
                /\ next' = Woken.next
                /\ UNCHANGED <<status, timeRem, current, cpu, hlt>>
         [] OTHER ->
                /\ Reap(Woken.next, Woken.head)
                /\ SwitchTo(Successor(Woken.next, Woken.head))
    /\ UNCHANGED <<asleep, pc, fault>>

(* Any other interrupt ends a hlt as well.                                 *)
DeviceIrq ==
    /\ ~ fault
    /\ cpu \notin lost
    /\ hlt \/ idle # "no"
    /\ IF idle = "empty" THEN SwitchTo(active)
       ELSE /\ hlt' = FALSE
            /\ idle' = "no"
            /\ UNCHANGED <<timeRem, current, cpu>>
    /\ UNCHANGED <<lists, waiting, status, pc, lost, fault>>
-----------------------------------------------------------------------------
(* The system as it is.                                                    *)
Next ==
    \/ Tick
    \/ DeviceIrq
    \/ Yield
    \/ SleepMark \/ SleepUnlink \/ SleepAppend
    \/ \E ms \in Delays : DelayInsert(ms)
    \/ DelayRemove
    \/ Exit
    \/ \E q \in Procs : Fork(q) \/ WakeFirst(q) \/ WakeLater(q) \/ Kill(q)

Spec == Init /\ [][Next]_vars

(* The cases it handles: no timer interrupt in the middle of Proc_Sleep()  *)
(* or Proc_Delay(), ...                                                    *)
QuietTick == pc[cpu] \in {"run", "gone"} /\ Tick

(* ... somebody left to run, as a shell that polls the keyboard, ...       *)
OthersActive == Active \ {cpu} # {}

(* ... no sleeper behind the one that is woken, ...                        *)
QuietWake(q) == WakeFirst(q) \/ (next[q] = Null /\ WakeLater(q))

(* ... and one at least, as the kernel after main(), when a process ends.  *)
QuietExit == asleep # Null /\ Exit

Operations ==
    \/ Yield
    \/ SleepUnlink
    \/ SleepAppend
    \/ DelayRemove
    \/ OthersActive /\ (SleepMark \/ QuietExit \/ \E ms \in Delays : DelayInsert(ms))
    \/ \E q \in Procs : Fork(q) \/ QuietWake(q)

(* Nobody is killed and only the timer interrupts.                         *)
QuietNext == QuietTick \/ Operations

(* The timer does not stop, and a system call goes on when it can.         *)
Fairness ==
    /\ WF_vars(QuietTick)
    /\ WF_vars(SleepUnlink)
    /\ WF_vars(SleepAppend)
    /\ WF_vars(DelayRemove)

QuietSpec == Init /\ [][QuietNext]_vars /\ Fairness

(* Each of the cases taken back in.                                        *)
PreemptSpec == Init /\ [][QuietNext \/ Tick]_vars
IdleSpec == Init /\ [][QuietNext \/ SleepMark]_vars
WakeSpec == Init /\ [][QuietNext \/ \E q \in Procs : WakeLater(q)]_vars
ExitSpec == Init /\ [][QuietNext \/ (OthersActive /\ Exit)]_vars
KillSpec == Init /\ [][QuietNext \/ \E q \in Procs : Kill(q)]_vars
IrqSpec == Init /\ [][QuietNext \/ DeviceIrq]_vars
-----------------------------------------------------------------------------
TypeOK ==
    /\ next \in [Procs -> Procs \cup {Null}]
    /\ active \in Procs \cup {Null}
    /\ asleep \in Procs \cup {Null}
    /\ waiting \in Seq(WaitEntry)
    /\ status \in [Procs -> {"unused", "active", "sleep", "null"}]
    /\ timeRem \in [Procs -> 0 .. Slots]
    /\ current \in Procs \cup {Null}
    /\ cpu \in Procs
    /\ pc \in [Procs -> {"run", "gone", "unlink", "append", "remove"}]
    /\ hlt \in BOOLEAN
    /\ idle \in {"no", "empty", "none"}
    /\ lost \subseteq Procs
    /\ fault \in BOOLEAN

(* The two lists that share the next pointers have nothing in common, and  *)
(* both come to an end: every walk over them in proc.c does.               *)
ListsApart ==
    /\ Active \cap Asleep = {}
    /\ active # Null => Cardinality(Lasts(next, active)) = 1
    /\ asleep # Null => Cardinality(Lasts(next, asleep)) = 1

(* No process is forgotten or kept twice: unless it is moving itself, it   *)
(* can run, sleeps until it is woken, or waits for its delay to end.       *)
OnePlace ==
    \A p \in Procs :
        pc[p] = "run" =>
            /\ p \in Active <=> status[p] = "active" /\ p \notin Delayed
            /\ p \in Asleep <=> status[p] = "sleep"
            /\ Cardinality({i \in DOMAIN waiting : waiting[i].proc = p}) <= 1

(* What runs is the process everybody else takes for the current one.      *)
RunsCurrent == cpu = current

(* A process that sleeps or is delayed does not go on.                     *)
SleepersSleep ==
    idle = "no" /\ ~ hlt /\ pc[cpu] = "run" =>
        status[cpu] = "active" /\ cpu \notin Delayed

(* The walks find what they look for: nothing panics.                      *)
NoFault == ~ fault

(* The processor idles only when nobody can run.                           *)
IdleOnlyWhenNobodyRuns ==
    idle # "no" => ~ \E p \in Active : status[p] = "active"

(* Whatever processes do to themselves and each other, the lists hold      *)
(* each of them in its one place, and the walks over them find it.         *)
ListsRight == ListsApart /\ OnePlace /\ RunsCurrent /\ NoFault

(* The stack pointer a process was interrupted with is kept until it       *)
(* resumes.                                                                *)
StacksKept == lost = {}

(* Proc_Delay() never returns too early: who leaves the delay list had no  *)
(* ticks left.                                                             *)
NeverEarly ==
    [][\A i \in DOMAIN waiting :
            (\A j \in DOMAIN waiting' : waiting'[j].proc # waiting[i].proc) => waiting[i].due <= 0]_vars

(* Nobody runs who sleeps, nobody waits for a processor that idles, and no *)
(* delay is cut short.                                                     *)
RunsInTime == [](SleepersSleep /\ IdleOnlyWhenNobodyRuns) /\ NeverEarly

(* ... and never too late.                                                 *)
DelaysOnTime == \A i \in DOMAIN waiting : waiting[i].due >= 0

(* Whoever can run does run, whatever the others do.                       *)
Scheduled == \A p \in Procs : p \in Active ~> cpu = p

(* A process that ends is freed.                                           *)
Reaped == \A p \in Procs : status[p] = "null" ~> status[p] # "null"
=============================================================================
