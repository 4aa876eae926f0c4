--------------------------- MODULE ConsoleProofs ---------------------------
(***************************************************************************)
(* Proofs about the console (Console), for any number of processes, their  *)
(* programs, what is typed, the modes of the BIOS and the sizes of screen  *)
(* and terminals: who asks the monitor gets the answer to its own question,*)
(* the display is in the mode that is recorded, and what is read is what   *)
(* was typed.                                                              *)
(***************************************************************************)
EXTENDS Console, FiniteSetTheorems, SequenceTheorems, WellFoundedInduction, TLAPS

-----------------------------------------------------------------------------
(* The processor                                                           *)

BootPcs == {"fork", "lock", "locked", "ask", "wake", "sleep", "answer", "got", "unlock", "end"}
UserPcs == {"user", "test", "take", "clear", "warn", "warned", "lock", "locked", "ask", "wake", "sleep",
            "answer", "got", "map", "record", "end"}
VmPcs == {"done", "rest", "check", "start", "load", "run"}

(* Where a process is inside of the kernel and has not given up the        *)
(* processor.                                                              *)
Held == {"fork", "take", "clear", "warn", "warned", "locked", "ask", "wake", "sleep", "got", "map", "record",
         "unlock"}
HeldVm == {"rest", "start", "load", "run"}

Processor ==
    /\ pc \in [All -> BootPcs \cup UserPcs \cup VmPcs]
    /\ pc[Boot] \in BootPcs /\ pc[Vm] \in VmPcs
    /\ \A p \in Users : pc[p] \in UserPcs
    /\ active \subseteq All
    /\ running \in active \cup {Nobody}
    /\ \A p \in Procs : pc[p] \in Held => running = p
    /\ pc[Vm] \in HeldVm => running = Vm
    /\ pc[Vm] = "done" => running = Vm \/ pc[Boot] = "fork"
    /\ pc[Boot] = "fork" => pc[Vm] = "done" /\ Vm \in active

(* The programs are started when the boot has ended.                       *)
Early ==
    pc[Boot] # "end" \/ Boot \in active => \A p \in Users : pc[p] = "user" /\ p \notin active

-----------------------------------------------------------------------------
(* The hand-over                                                           *)

(* One at a time is from the lock on to what it makes of the answer.       *)
Inside == {"ask", "wake", "sleep", "answer", "got", "unlock"}
Turn == Between \cup {"unlock"}
Turns ==
    /\ \A p, q \in Procs : pc[p] \in Turn /\ pc[q] \in Turn => p = q
    /\ \A p \in Procs : pc[p] \in Inside => inUse

Replies == [asked : [fn : {"none", "info", "mode", "set"}, code : Nat], done : BOOLEAN, ok : BOOLEAN]
Registers ==
    /\ inUse \in BOOLEAN /\ complete \in BOOLEAN /\ vbe \in BOOLEAN
    /\ ret \in Replies /\ vm \in Replies
    /\ regs \in [Procs -> Replies]

Waits(p) == ~ complete /\ callee = p /\ ret.asked = Question(p)
Replied(p, r) == r.asked = Question(p) /\ r.done

(* What the BIOS has been asked for it has done.                           *)
Shown(p) ==
    want[p] \in RealModes =>
        IF p = Boot THEN modeinfo = modes[want[p]].code ELSE hw = modes[want[p]].code

(* From the question on, the monitor is on its way to the answer of the one*)
(* who waits; and until it has been woken the one who waits sleeps.        *)
Answering(p) ==
    \/ Waits(p) /\ p \notin active /\ pc[Vm] \in {"check", "start"}
    \/ Waits(p) /\ pc[Vm] = "load"
    \/ vm.asked = Question(p) /\ pc[Vm] = "run"
    \/ Replied(p, vm) /\ Shown(p) /\ pc[Vm] = "done"
    \/ Replied(p, ret) /\ Shown(p) /\ pc[Vm] = "rest"
    \/ Replied(p, ret) /\ Shown(p) /\ pc[Vm] = "check" /\ Vm \notin active

HandOver(p) ==
    /\ pc[p] \in {"wake", "sleep"} => Waits(p) /\ pc[Vm] = "check"
    /\ pc[p] = "answer" => Answering(p)
    /\ pc[p] = "got" => Replied(p, regs[p])
    /\ pc[p] \in {"got", "map", "record"} => Shown(p)
    /\ pc[p] = "record" => mapped = modes[want[p]].of

(* With no question under way it sleeps, or it has just been started.      *)
Resting ==
    (\A p \in Procs : pc[p] \notin {"wake", "sleep", "answer"}) =>
        \/ pc[Vm] = "check" /\ Vm \notin active
        \/ pc[Vm] \in {"done", "rest"} /\ \A p \in Procs : pc[p] \notin Turn

-----------------------------------------------------------------------------
(* The modes                                                               *)

ModeTypes == [0 .. Len(Codes) -> [code : Nat, of : Nat \cup {Garbage}]]
Described(m) == m \in RealModes => modes[m].of = modes[m].code

ModeTable ==
    /\ modes = <<>> \/ modes \in ModeTypes
    /\ modeinfo \in Nat \cup {Garbage}
    /\ mode \in DOMAIN modes \cup {-1}
    /\ want \in [Procs -> Int]
    /\ \A p \in Users : pc[p] \in Between \cup {"lock"} => modes # <<>> /\ want[p] \in 0 .. Len(Codes)

(* Vesa_Install() has done the modes before the one it is at.              *)
Installing ==
    /\ pc[Boot] # "end" => mode = -1
    /\ pc[Boot] \notin {"unlock", "end"} =>
          \/ want[Boot] = 0 /\ modes = <<>>
          \/ /\ want[Boot] \in 1 .. Len(Codes) /\ modes # <<>>
             /\ \A m \in 1 .. want[Boot] - 1 : Described(m)
    /\ pc[Boot] \in {"unlock", "end"} => \A m \in RealModes : Described(m)

Display ==
    mode \in RealModes /\ (\A p \in Procs : pc[p] \notin Between) => hw = modes[mode].code /\ mapped = hw

MonitorInv ==
    /\ Processor /\ Early /\ Turns /\ Registers /\ ModeTable /\ Installing
    /\ \A p \in Procs : HandOver(p)
    /\ Resting /\ Display

-----------------------------------------------------------------------------
(* The keyboard, terminals and the screen                                  *)

(* The driver knows which keys are down.                                   *)
KeyStates ==
    /\ DOMAIN keys = {"layer", "held", "shift", "caps"} /\ DOMAIN pressed = {"down", "caps"}
    /\ keys.shift \in BOOLEAN /\ keys.caps \in BOOLEAN
    /\ keys.held = pressed.down /\ keys.caps = pressed.caps
    /\ keys.shift <=> pressed.down \cap Shifts # {}

(* A key is in the mailbox until it is taken, and goes before it can be    *)
(* taken again.                                                            *)
Keystrokes == [ch : Printable, capital : BOOLEAN]
Mails == [n : Nat, ch : Printable \cup {"ack"}, capital : BOOLEAN]
OfTyped(c) == c.n # 0 => c.n <= Len(typed) /\ typed[c.n] = [ch |-> c.ch, capital |-> c.capital]
Fresh == \A i \in Keys : mailbox.n # 0 => taken[i].n < mailbox.n
Mailbox ==
    /\ typed \in Seq(Keystrokes) /\ taken \in Seq(Mails)
    /\ \A i \in Keys : OfTyped(taken[i])
    /\ \A i, j \in Keys : i < j => taken[i].n < taken[j].n
    /\ mailbox # None \/ (\E p \in Users : pc[p] = "take") => mailbox \in Mails /\ OfTyped(mailbox)
    /\ (\A p \in Users : pc[p] # "clear") /\ (mailbox # None \/ \E p \in Users : pc[p] = "take") => Fresh
    /\ \A p \in Users : pc[p] \in {"test", "take", "clear"} => left[p] > 0

Terminals ==
    /\ DOMAIN vt = Terms
    /\ \A t \in Terms : DOMAIN vt[t] = {"pos", "flags", "zeros"} /\ vt[t].pos \in 0 .. TermSize - 1
    /\ DOMAIN screen = {"cursor", "attrib", "saved", "zeros"}
    /\ screen.cursor \in Cells /\ screen.zeros \subseteq Cells

Attributes ==
    /\ (\A p \in Users : pc[p] # "warned") => screen.attrib = vt[Current].flags
    /\ \A p \in Users : pc[p] = "warned" => screen.saved = vt[Current].flags

Programmed ==
    /\ todo \in [Users -> Seq(Calls)] /\ left \in [Users -> Nat]

TerminalInv == KeyStates /\ Mailbox /\ Terminals /\ Attributes /\ Programmed

ConsoleInv == MonitorInv /\ TerminalInv

-----------------------------------------------------------------------------
(* Steps of the processor                                                  *)

LEMMA Constants ==
    /\ Boot \in Procs /\ Vm \notin Procs /\ Nobody \notin Procs /\ Nobody # Vm
    /\ Len(Codes) \in Nat /\ \A i \in 1 .. Len(Codes) : Codes[i] \in Nat
    /\ 0 \in DOMAIN Sizes /\ HasVbe \subseteq BOOLEAN
<1>1. Codes \in Seq(Nat)
  BY BiosConstants
<1>2. Len(Codes) \in Nat /\ \A i \in 1 .. Len(Codes) : Codes[i] \in Nat
  BY <1>1, LenProperties, ElementOfSeq
<1> QED
  BY <1>2, BiosConstants

(* Whoever goes on keeps the processor.                                    *)
LEMMA GoesOn ==
    ASSUME Processor, Early, NEW p \in Procs, NEW to, GoOn(p, to), pc[p] # "fork", to # "fork",
           to \in IF p = Boot THEN BootPcs ELSE UserPcs
    PROVE  /\ Processor' /\ Early'
           /\ pc'[p] = to /\ \A q \in All : q # p => pc'[q] = pc[q]
<1>1. p \in All /\ Vm \in All /\ Boot \in All /\ p # Vm /\ p # Nobody /\ Boot # Vm
  BY Constants DEF All
<1>2. running = p /\ running' = p /\ active' = active /\ p \in active
  BY <1>1 DEF GoOn, Processor
<1>3. pc'[p] = to /\ \A q \in All : q # p => pc'[q] = pc[q]
  BY <1>1 DEF GoOn, Go, Processor
<1>4. pc' \in [All -> BootPcs \cup UserPcs \cup VmPcs]
  BY <1>1 DEF GoOn, Go, Processor
<1>5. \A q \in Procs : q \in All
  BY DEF All
<1>6. Processor'
  <2>1. pc'[Boot] \in BootPcs /\ pc'[Vm] \in VmPcs /\ \A q \in Users : pc'[q] \in UserPcs
    BY <1>1, <1>3, <1>5 DEF Processor, Users
  <2>2. pc'[Vm] = pc[Vm] /\ pc[Vm] \notin HeldVm /\ (pc'[Boot] = "fork" => FALSE)
    BY <1>1, <1>2, <1>3, Constants DEF Processor, Held
  <2>3. pc[Vm] # "done"
    BY <1>1, <1>2, <1>3, <2>2, Constants DEF Processor, Held
  <2>4. \A q \in Procs : pc'[q] \in Held => running' = q
    BY <1>2, <1>3, <1>5 DEF Processor
  <2> QED
    BY <1>2, <1>4, <2>1, <2>2, <2>3, <2>4 DEF Processor
<1>7. Early'
  BY <1>1, <1>2, <1>3, <1>5, Constants DEF Early, Users
<1> QED
  BY <1>3, <1>6, <1>7

(* Whoever gives it up is not inside of the kernel any more, and nobody    *)
(* else is.                                                                *)
LEMMA GivesUp ==
    ASSUME Processor, Early, NEW p \in Procs, NEW to, NEW s \in SUBSET active,
           running = p, pc' = [pc EXCEPT ![p] = to], Give(p, s),
           pc[p] # "fork", to \notin Held, to \in IF p = Boot THEN BootPcs \ {"end"} ELSE UserPcs
    PROVE  /\ Processor' /\ Early'
           /\ pc'[p] = to /\ \A q \in All : q # p => pc'[q] = pc[q]
<1>1. p \in All /\ Vm \in All /\ Boot \in All /\ p # Vm /\ p # Nobody /\ Boot # Vm
  BY Constants DEF All
<1>2. active' = s /\ running' \in s \cup {Nobody} /\ p \in active
  BY <1>1 DEF Give, Processor
<1>3. pc'[p] = to /\ \A q \in All : q # p => pc'[q] = pc[q]
  BY <1>1 DEF Processor
<1>4. pc' \in [All -> BootPcs \cup UserPcs \cup VmPcs]
  BY <1>1 DEF Processor
<1>5. \A q \in Procs : q \in All
  BY DEF All
<1>6. Processor'
  <2>1. pc'[Boot] \in BootPcs /\ pc'[Vm] \in VmPcs /\ \A q \in Users : pc'[q] \in UserPcs
    BY <1>1, <1>3, <1>5 DEF Processor, Users
  <2>2. pc'[Vm] = pc[Vm] /\ pc[Vm] \notin HeldVm /\ pc'[Boot] # "fork"
    BY <1>1, <1>3, Constants DEF Processor, Held
  <2>3. pc[Vm] # "done"
    BY <1>1, <1>3, <2>2, Constants DEF Processor, Held
  <2>4. \A q \in Procs : pc'[q] \notin Held
    BY <1>3, <1>5 DEF Processor
  <2> QED
    BY <1>2, <1>4, <2>1, <2>2, <2>3, <2>4 DEF Processor
<1>7. Early'
  BY <1>1, <1>2, <1>3, <1>5, Constants DEF Early, Users
<1> QED
  BY <1>3, <1>6, <1>7

(* The monitor's process, which no step of it leaves anything else to.     *)
LEMMA VmMoves ==
    ASSUME Processor, Early, NEW to \in VmPcs, running = Vm, pc' = [pc EXCEPT ![Vm] = to],
           active' \subseteq All, running' \in active' \cup {Nobody},
           to \in HeldVm \cup {"done"} => running' = Vm
    PROVE  /\ Processor'
           /\ pc'[Vm] = to /\ \A q \in Procs : pc'[q] = pc[q]
<1>1. Vm \in All /\ Boot \in All /\ Boot # Vm /\ \A q \in Procs : q \in All /\ q # Vm
  BY Constants DEF All
<1>2. pc'[Vm] = to /\ \A q \in Procs : pc'[q] = pc[q]
  BY <1>1 DEF Processor
<1>3. pc' \in [All -> BootPcs \cup UserPcs \cup VmPcs]
  BY <1>1 DEF Processor
<1>4. \A q \in Procs : pc[q] \notin Held
  BY <1>1 DEF Processor
<1>5. pc[Boot] # "fork"
  BY <1>4, Constants DEF Held
<1> QED
  BY <1>1, <1>2, <1>3, <1>4, <1>5, Constants DEF Processor, Users

-----------------------------------------------------------------------------
(* Taking turns                                                            *)

(* A process that keeps the monitor, or keeps out of it, changes nothing   *)
(* about whose turn it is.                                                 *)
LEMMA TurnsKept ==
    ASSUME Turns, NEW p \in Procs, NEW to, pc'[p] = to, \A q \in Procs : q # p => pc'[q] = pc[q],
           to \in Turn => pc[p] \in Turn,
           to \in Inside => inUse',
           inUse' = inUse \/ pc[p] \in Turn
    PROVE  Turns'
<1>1. \A q \in Procs : pc'[q] \in Turn => pc[q] \in Turn
  OBVIOUS
<1>2. \A q \in Procs : pc'[q] \in Inside => inUse'
  <2> SUFFICES ASSUME NEW q \in Procs, pc'[q] \in Inside, q # p PROVE inUse'
    OBVIOUS
  <2>1. pc[q] \in Inside /\ pc[q] \in Turn
    BY DEF Inside, Turn, Between
  <2>2. pc[p] \notin Turn
    BY <2>1 DEF Turns
  <2> QED
    BY <2>1, <2>2 DEF Turns
<1> QED
  BY <1>1, <1>2 DEF Turns

LEMMA TurnPcs ==
    /\ Turn = {"locked", "ask", "wake", "sleep", "answer", "got", "map", "record", "unlock"}
    /\ Between = {"locked", "ask", "wake", "sleep", "answer", "got", "map", "record"}
    /\ Inside = {"ask", "wake", "sleep", "answer", "got", "unlock"}
BY DEF Turn, Between, Inside

(* Nobody who is not in the monitor has a part in a hand-over.             *)
LEMMA NoHandOver ==
    ASSUME NEW p \in Procs, pc'[p] \notin Turn
    PROVE  HandOver(p)'
BY TurnPcs DEF HandOver

-----------------------------------------------------------------------------
(* What has nothing to do with the monitor keeps its invariant.            *)

LEMMA Unasked ==
    ASSUME MonitorInv, UNCHANGED biosVars
    PROVE  /\ Registers' /\ RealModes' = RealModes
           /\ \A q \in Procs : Question(q)' = Question(q) /\ (Shown(q)' <=> Shown(q)) /\ (Waits(q)' <=> Waits(q))
           /\ \A q \in Procs : (Replied(q, vm)' <=> Replied(q, vm)) /\ (Replied(q, ret)' <=> Replied(q, ret))
           /\ \A q \in Procs : Replied(q, regs[q])' <=> Replied(q, regs[q])
<1> USE DEF biosVars, handVars, hwVars, vesaVars
<1>1. Registers' /\ RealModes' = RealModes
  BY DEF MonitorInv, Registers, RealModes
<1>2. \A q \in Procs : Question(q)' = Question(q)
  BY DEF Question
<1>3. \A q \in Procs : Shown(q)' <=> Shown(q)
  BY <1>1 DEF Shown
<1> QED
  BY <1>1, <1>2, <1>3 DEF Waits, Replied

LEMMA Aside ==
    ASSUME MonitorInv, NEW p \in Procs, NEW to, pc[p] \notin Turn, to \notin Turn,
           to = "lock" => pc[p] = "lock", p = Boot => to = pc[p],
           Processor', Early', pc'[p] = to, \A q \in All : q # p => pc'[q] = pc[q],
           active' \subseteq active, UNCHANGED biosVars
    PROVE  MonitorInv'
<1>1. p \in All /\ Vm \in All /\ Boot \in All /\ p # Vm /\ Boot # Vm /\ \A q \in Procs : q \in All /\ q # Vm
  BY Constants DEF All
<1>2. pc'[Vm] = pc[Vm] /\ pc'[Boot] = pc[Boot] /\ \A q \in Procs : q # p => pc'[q] = pc[q]
  BY <1>1
<1>3. \A q \in Procs : pc[q] \in Turn \/ pc'[q] \in Turn => q # p /\ pc'[q] = pc[q]
  BY <1>2
<1>4. Turns'
  <2>1. inUse' = inUse
    BY DEF biosVars, handVars
  <2> QED
    BY <1>2, <2>1, TurnsKept DEF MonitorInv, Turn, Inside, Between
<1>5. ASSUME NEW q \in Procs PROVE HandOver(q)'
  <2>1. CASE pc[q] \notin Turn
    BY <1>3, <2>1, NoHandOver
  <2>2. CASE pc[q] \in Turn
    <3>1. HandOver(q) /\ pc'[q] = pc[q] /\ pc'[Vm] = pc[Vm]
      BY <1>2, <1>3, <2>2 DEF MonitorInv
    <3>2. Answering(q) => Answering(q)'
      <4>1. /\ Question(q)' = Question(q) /\ (Shown(q)' <=> Shown(q)) /\ (Waits(q)' <=> Waits(q))
            /\ (Replied(q, vm)' <=> Replied(q, vm)) /\ (Replied(q, ret)' <=> Replied(q, ret))
        BY Unasked
      <4>2. vm' = vm /\ (q \in active' => q \in active) /\ (Vm \in active' => Vm \in active)
        BY DEF biosVars, handVars
      <4> QED
        BY <3>1, <4>1, <4>2 DEF Answering
    <3>3. mapped' = mapped /\ modes' = modes /\ want' = want
      BY DEF biosVars, vesaVars
    <3>4. (Waits(q)' <=> Waits(q)) /\ (Shown(q)' <=> Shown(q)) /\ (Replied(q, regs[q])' <=> Replied(q, regs[q]))
      BY Unasked
    <3> QED
      BY <3>1, <3>2, <3>3, <3>4 DEF HandOver
  <2> QED
    BY <2>1, <2>2
<1>6. ModeTable'
  <2>1. \A q \in Users : pc'[q] \in Between \cup {"lock"} => pc[q] \in Between \cup {"lock"}
    BY <1>2 DEF Turn, Users
  <2> QED
    BY <2>1 DEF MonitorInv, ModeTable, biosVars, vesaVars, hwVars
<1>7. Installing'
  BY <1>2, Unasked DEF MonitorInv, Installing, Described, biosVars, vesaVars
<1>8. Resting'
  <2>1. (\A q \in Procs : pc'[q] \notin {"wake", "sleep", "answer"})
            => \A q \in Procs : pc[q] \notin {"wake", "sleep", "answer"}
    BY <1>2 DEF Turn, Between
  <2>2. (\A q \in Procs : pc[q] \notin Turn) => \A q \in Procs : pc'[q] \notin Turn
    BY <1>3
  <2> QED
    BY <1>2, <2>1, <2>2 DEF MonitorInv, Resting
<1>9. Display'
  <2>1. (\A q \in Procs : pc'[q] \notin Between) => \A q \in Procs : pc[q] \notin Between
    BY <1>2 DEF Turn
  <2> QED
    BY <2>1, Unasked DEF MonitorInv, Display, biosVars, vesaVars, hwVars
<1> QED
  BY <1>4, <1>5, <1>6, <1>7, <1>8, <1>9, Unasked DEF MonitorInv

Out == {"user", "test", "take", "clear", "warn", "warned"}

LEMMA GoesAside ==
    ASSUME MonitorInv, NEW p \in Users, NEW to \in Out, pc[p] \in Out, GoOn(p, to), UNCHANGED biosVars
    PROVE  MonitorInv'
<1>1. p \in Procs /\ p # Boot /\ pc[p] # "fork" /\ to # "fork" /\ to \in UserPcs
  BY DEF Users, Out, UserPcs
<1>2. Processor' /\ Early' /\ pc'[p] = to /\ \A q \in All : q # p => pc'[q] = pc[q]
  BY <1>1, GoesOn DEF MonitorInv
<1>3. active' \subseteq active
  BY DEF GoOn
<1> QED
  BY <1>1, <1>2, <1>3, Aside, TurnPcs DEF Out

(* Waiting for a key or for the lock, the end, and the timer.              *)
LEMMA GivesAside ==
    ASSUME MonitorInv, NEW p \in Procs, NEW to, NEW s \in SUBSET active,
           to \in IF p = Boot THEN {"lock"} ELSE {"user", "test", "lock", "end"},
           running = p, pc[p] = to \/ (p # Boot /\ pc[p] = "user" /\ to # "lock"), pc' = [pc EXCEPT ![p] = to],
           Give(p, s), UNCHANGED biosVars
    PROVE  MonitorInv'
<1>1. pc[p] # "fork" /\ to \notin Held /\ to \in IF p = Boot THEN BootPcs \ {"end"} ELSE UserPcs
  BY DEF Held, BootPcs, UserPcs
<1>2. Processor' /\ Early' /\ pc'[p] = to /\ \A q \in All : q # p => pc'[q] = pc[q]
  BY <1>1, GivesUp DEF MonitorInv
<1>3. active' \subseteq active
  BY DEF Give
<1>4. pc[p] \notin Turn /\ to \notin Turn /\ (to = "lock" => pc[p] = "lock") /\ (p = Boot => to = pc[p])
  BY TurnPcs
<1> QED
  BY <1>2, <1>3, <1>4, Aside

-----------------------------------------------------------------------------
(* VM8086_Lock() and VM8086_Int()                                          *)

(* Who asks is alone, and while it runs the monitor does not.              *)
LEMMA Onward ==
    ASSUME MonitorInv, NEW p \in Procs, NEW to, GoOn(p, to), pc[p] # "fork", to # "fork",
           pc[p] \in Turn \/ (pc[p] = "lock" /\ ~ inUse),
           to \in IF p = Boot THEN BootPcs ELSE UserPcs
    PROVE  /\ Processor' /\ Early'
           /\ pc'[p] = to /\ \A q \in Procs : q # p => pc'[q] = pc[q] /\ pc[q] \notin Turn /\ pc'[q] \notin Turn
           /\ \A q \in Procs : q # p => HandOver(q)'
           /\ pc'[Vm] = "check" /\ pc[Vm] = "check" /\ active' = active /\ p \in active
           /\ p = Boot \/ pc'[Boot] = pc[Boot]
<1>1. p \in All /\ Vm \in All /\ Boot \in All /\ p # Vm /\ p # Nobody /\ Boot \in Procs /\ \A q \in Procs : q \in All
  BY Constants DEF All
<1>2. /\ Processor' /\ Early'
      /\ pc'[p] = to /\ \A q \in All : q # p => pc'[q] = pc[q]
  BY GoesOn DEF MonitorInv
<1>3. running = p /\ active' = active /\ p \in active
  BY <1>1 DEF GoOn, MonitorInv, Processor
<1>4. pc[Vm] = "check"
  <2>1. pc[Vm] \notin HeldVm /\ pc[Boot] # "fork"
    BY <1>1, <1>3 DEF MonitorInv, Processor, Held
  <2>2. pc[Vm] # "done"
    BY <1>1, <1>3, <2>1 DEF MonitorInv, Processor
  <2> QED
    BY <2>1, <2>2 DEF MonitorInv, Processor, VmPcs, HeldVm
<1>5. ASSUME NEW q \in Procs, q # p PROVE pc[q] \notin Turn
  <2>1. CASE pc[p] \in Turn
    BY <1>5, <2>1 DEF MonitorInv, Turns
  <2>2. CASE pc[p] = "lock" /\ ~ inUse
    <3>1. pc[q] \notin Inside
      BY <2>2 DEF MonitorInv, Turns
    <3>2. pc[q] \notin Held
      BY <1>3, <1>5 DEF MonitorInv, Processor
    <3> QED
      BY <3>1, <3>2, TurnPcs DEF Held
  <2> QED
    BY <2>1, <2>2
<1>6. \A q \in Procs : q # p => HandOver(q)'
  BY <1>1, <1>2, <1>5, NoHandOver
<1> QED
  BY <1>1, <1>2, <1>3, <1>4, <1>5, <1>6

LEMMA QuestionType ==
    ASSUME MonitorInv, NEW p \in Procs, pc[p] \in Between
    PROVE  Question(p) \in [fn : {"none", "info", "mode", "set"}, code : Nat]
<1>1. p = Boot => pc[p] \notin {"unlock", "end"}
  BY TurnPcs
<1>2. CASE p = Boot /\ want[p] = 0
  BY <1>2 DEF Question
<1>3. CASE ~ (p = Boot /\ want[p] = 0)
  <2>1. modes # <<>> /\ want[p] \in 0 .. Len(Codes)
    BY <1>1, <1>3, Constants DEF MonitorInv, ModeTable, Installing, Users
  <2>2. modes[want[p]].code \in Nat
    BY <2>1 DEF MonitorInv, ModeTable, ModeTypes
  <2> QED
    BY <1>3, <2>2 DEF Question
<1> QED
  BY <1>2, <1>3

LEMMA LockKeeps ==
    ASSUME MonitorInv, NEW p \in Procs, Lock(p)
    PROVE  MonitorInv'
<1>1. UNCHANGED biosVars /\ pc[p] = "lock"
  BY DEF Lock
<1>2. CASE inUse
  <2>1. running = p /\ Give(p, active) /\ pc' = pc
    BY <1>2 DEF Lock, Yield
  <2>2. pc' = [pc EXCEPT ![p] = "lock"]
    BY <1>1, <2>1, Constants DEF MonitorInv, Processor, All
  <2> QED
    BY <1>1, <2>1, <2>2, GivesAside
<1>3. CASE ~ inUse
  <2>1. GoOn(p, "locked")
    BY <1>3 DEF Lock
  <2>2. /\ Processor' /\ Early'
        /\ pc'[p] = "locked" /\ \A q \in Procs : q # p => pc'[q] = pc[q] /\ pc[q] \notin Turn /\ pc'[q] \notin Turn
        /\ \A q \in Procs : q # p => HandOver(q)'
        /\ pc'[Vm] = "check" /\ pc[Vm] = "check" /\ active' = active
    BY <1>1, <1>3, <2>1, Onward DEF BootPcs, UserPcs
  <2>3. Turns'
    BY <2>2, TurnPcs DEF Turns
  <2>4. HandOver(p)'
    BY <2>2 DEF HandOver
  <2>5. ModeTable'
    BY <1>1, <2>2, TurnPcs DEF MonitorInv, ModeTable, biosVars, vesaVars, hwVars, Users
  <2>6. Installing'
    BY <1>1, <2>2, Constants, Unasked DEF MonitorInv, Installing, Described, biosVars, vesaVars
  <2>7. Resting'
    <3>1. \A q \in Procs : pc[q] \notin {"wake", "sleep", "answer"}
      BY <1>1, <2>2, TurnPcs
    <3> QED
      BY <2>2, <3>1 DEF MonitorInv, Resting
  <2>8. Display'
    BY <2>2, TurnPcs DEF Display
  <2> QED
    BY <1>1, <2>2, <2>3, <2>4, <2>5, <2>6, <2>7, <2>8, Unasked DEF MonitorInv
<1> QED
  BY <1>2, <1>3

(* The parts a step inside of the monitor leaves alone.                    *)
LEMMA VesaKept ==
    ASSUME MonitorInv, UNCHANGED <<modes, mode, want, modeinfo>>,
           \A q \in Users : pc'[q] \in Between => pc[q] \in Between \cup {"lock"},
           \A q \in Users : pc'[q] = "lock" => pc[q] = "lock",
           pc'[Boot] \in {"unlock", "end"} <=> pc[Boot] \in {"unlock", "end"},
           pc[Boot] = "end" => pc'[Boot] = "end"
    PROVE  ModeTable' /\ Installing' /\ RealModes' = RealModes
<1>1. RealModes' = RealModes
  BY DEF RealModes
<1> QED
  BY <1>1 DEF MonitorInv, ModeTable, Installing, Described

LEMMA LockedKeeps ==
    ASSUME MonitorInv, NEW p \in Procs, Locked(p)
    PROVE  MonitorInv'
<1>1. /\ Processor' /\ Early'
      /\ pc'[p] = "ask" /\ \A q \in Procs : q # p => pc'[q] = pc[q] /\ pc[q] \notin Turn /\ pc'[q] \notin Turn
      /\ \A q \in Procs : q # p => HandOver(q)'
      /\ pc'[Vm] = "check" /\ pc[Vm] = "check" /\ active' = active
      /\ pc[p] = "locked"
  BY Onward, TurnPcs DEF Locked, BootPcs, UserPcs
<1>2. inUse' /\ Turns'
  BY <1>1, TurnPcs DEF Turns, Locked
<1>3. HandOver(p)'
  BY <1>1 DEF HandOver
<1>4. ModeTable' /\ Installing' /\ RealModes' = RealModes
  BY <1>1, VesaKept, TurnPcs, Constants DEF Locked, vesaVars, hwVars, Users
<1>5. Resting'
  <2>1. \A q \in Procs : pc[q] \notin {"wake", "sleep", "answer"}
    BY <1>1, TurnPcs
  <2> QED
    BY <1>1, <2>1 DEF MonitorInv, Resting
<1>6. Display'
  BY <1>1, TurnPcs DEF Display
<1>7. Registers'
  BY <1>2 DEF MonitorInv, Registers, Locked, hwVars
<1> QED
  BY <1>1, <1>2, <1>3, <1>4, <1>5, <1>6, <1>7 DEF MonitorInv

LEMMA AskKeeps ==
    ASSUME MonitorInv, NEW p \in Procs, Ask(p)
    PROVE  MonitorInv'
<1>1. /\ Processor' /\ Early'
      /\ pc'[p] = "wake" /\ \A q \in Procs : q # p => pc'[q] = pc[q] /\ pc[q] \notin Turn /\ pc'[q] \notin Turn
      /\ \A q \in Procs : q # p => HandOver(q)'
      /\ pc'[Vm] = "check" /\ pc[p] = "ask"
  BY Onward, TurnPcs DEF Ask, BootPcs, UserPcs
<1>2. Question(p)' = Question(p) /\ Question(p) \in [fn : {"none", "info", "mode", "set"}, code : Nat]
  BY <1>1, QuestionType, TurnPcs DEF Ask, vesaVars, Question
<1>3. Turns'
  BY <1>1, TurnsKept, TurnPcs DEF MonitorInv, Turns, Ask
<1>4. ret' = [asked |-> Question(p), done |-> FALSE, ok |-> FALSE]
  BY DEF Ask
<1>5. HandOver(p)'
  <2>1. Waits(p)'
    BY <1>2, <1>4 DEF Waits, Ask
  <2> QED
    BY <1>1, <2>1 DEF HandOver
<1>6. ModeTable' /\ Installing' /\ RealModes' = RealModes
  BY <1>1, VesaKept, TurnPcs, Constants DEF Ask, vesaVars, hwVars, Users
<1>7. Resting'
  BY <1>1 DEF Resting
<1>8. Display'
  BY <1>1, TurnPcs DEF Display
<1>9. Registers'
  <2>1. ret' \in Replies
    BY <1>2, <1>4 DEF Replies
  <2> QED
    BY <2>1 DEF MonitorInv, Registers, Ask, hwVars
<1> QED
  BY <1>1, <1>3, <1>5, <1>6, <1>7, <1>8, <1>9 DEF MonitorInv

(* Waking the monitor's process takes the processor from nobody.           *)
LEMMA WakeKeeps ==
    ASSUME MonitorInv, NEW p \in Procs, Wake(p)
    PROVE  MonitorInv'
<1>1. /\ p \in All /\ Vm \in All /\ Boot \in All /\ p # Vm /\ Vm # Boot /\ Boot \in Procs /\ Vm \notin Users
      /\ \A q \in Procs : q \in All /\ q # Vm
  BY Constants DEF All, Users
<1>2. /\ running = p /\ running' = p /\ active' = active \cup {Vm} /\ UNCHANGED biosVars /\ pc[p] = "wake"
      /\ pc'[p] = "sleep" /\ \A q \in All : q # p => pc'[q] = pc[q]
  BY <1>1 DEF Wake, Go, MonitorInv, Processor
<1>3. p \in active /\ pc[Vm] = "check" /\ Waits(p)
  BY <1>1, <1>2, Constants DEF MonitorInv, Processor, HandOver
<1>4. \A q \in Procs : q # p => pc'[q] = pc[q] /\ pc[q] \notin Turn /\ pc'[q] \notin Turn
  BY <1>1, <1>2, TurnPcs DEF MonitorInv, Turns
<1>5. Processor'
  <2>1. pc' \in [All -> BootPcs \cup UserPcs \cup VmPcs]
    BY <1>1, <1>2 DEF Wake, Go, MonitorInv, Processor, BootPcs
  <2>2. pc'[Boot] \in BootPcs /\ pc'[Vm] \in VmPcs /\ \A q \in Users : pc'[q] \in UserPcs
    BY <1>1, <1>2 DEF MonitorInv, Processor, Users, BootPcs, UserPcs
  <2>3. \A q \in Procs : pc'[q] \in Held => running' = q
    BY <1>1, <1>2 DEF MonitorInv, Processor
  <2>4. pc'[Vm] = "check" /\ pc'[Boot] # "fork"
    BY <1>1, <1>2, <1>3 DEF MonitorInv, Processor
  <2>5. active' \subseteq All /\ running' \in active' \cup {Nobody}
    BY <1>1, <1>2, <1>3 DEF MonitorInv, Processor
  <2> QED
    BY <2>1, <2>2, <2>3, <2>4, <2>5 DEF Processor, HeldVm
<1>6. Early'
  BY <1>1, <1>2 DEF MonitorInv, Early, Users
<1>7. Turns'
  BY <1>2, <1>4, TurnsKept, TurnPcs DEF MonitorInv, Turns, biosVars, handVars
<1>8. \A q \in Procs : HandOver(q)'
  <2>1. HandOver(p)'
    BY <1>1, <1>2, <1>3, Unasked DEF HandOver
  <2> QED
    BY <1>4, <2>1, NoHandOver
<1>9. ModeTable' /\ Installing'
  BY <1>1, <1>2, <1>4, VesaKept, TurnPcs DEF biosVars, vesaVars, hwVars, Users
<1>10. Resting'
  BY <1>2 DEF Resting
<1>11. Display'
  BY <1>2, TurnPcs DEF Display
<1> QED
  BY <1>2, <1>5, <1>6, <1>7, <1>8, <1>9, <1>10, <1>11, Unasked DEF MonitorInv

LEMMA SleepKeeps ==
    ASSUME MonitorInv, NEW p \in Procs, Sleep(p)
    PROVE  MonitorInv'
<1>1. /\ p \in All /\ Vm \in All /\ Boot \in All /\ p # Vm /\ Vm # Boot /\ Boot \in Procs /\ Vm \notin Users
      /\ \A q \in Procs : q \in All /\ q # Vm
  BY Constants DEF All, Users
<1>2. /\ UNCHANGED biosVars /\ pc[p] = "sleep" /\ running = p /\ Give(p, active \ {p})
      /\ pc' = [pc EXCEPT ![p] = "answer"] /\ active' = active \ {p}
  BY DEF Sleep, Go, Give
<1>3. /\ Processor' /\ Early'
      /\ pc'[p] = "answer" /\ \A q \in All : q # p => pc'[q] = pc[q]
  <2>1. active \ {p} \in SUBSET active
    OBVIOUS
  <2>2. "answer" \notin Held /\ "answer" \in IF p = Boot THEN BootPcs \ {"end"} ELSE UserPcs
    BY DEF Held, BootPcs, UserPcs
  <2> QED
    BY <1>2, <2>1, <2>2, GivesUp DEF MonitorInv
<1>4. \A q \in Procs : q # p => pc'[q] = pc[q] /\ pc[q] \notin Turn /\ pc'[q] \notin Turn
  BY <1>1, <1>2, <1>3, TurnPcs DEF MonitorInv, Turns
<1>5. Turns'
  BY <1>2, <1>3, <1>4, TurnsKept, TurnPcs DEF MonitorInv, Turns, biosVars, handVars
<1>6. \A q \in Procs : HandOver(q)'
  <2>1. Waits(p)' /\ pc'[Vm] = "check" /\ p \notin active'
    BY <1>1, <1>2, <1>3, Unasked DEF MonitorInv, HandOver
  <2>2. HandOver(p)'
    BY <1>3, <2>1 DEF HandOver, Answering
  <2> QED
    BY <1>4, <2>2, NoHandOver
<1>7. ModeTable' /\ Installing'
  BY <1>1, <1>2, <1>3, <1>4, VesaKept, TurnPcs DEF biosVars, vesaVars, hwVars, Users
<1>8. Resting'
  BY <1>3 DEF Resting
<1>9. Display'
  BY <1>3, TurnPcs DEF Display
<1> QED
  BY <1>2, <1>3, <1>5, <1>6, <1>7, <1>8, <1>9, Unasked DEF MonitorInv

(* Who runs has been woken by the monitor, which has gone to sleep again:  *)
(* the answer is there.                                                    *)
LEMMA AnswerKeeps ==
    ASSUME MonitorInv, NEW p \in Procs, Answer(p)
    PROVE  MonitorInv'
<1>1. /\ Processor' /\ Early'
      /\ pc'[p] = "got" /\ \A q \in Procs : q # p => pc'[q] = pc[q] /\ pc[q] \notin Turn /\ pc'[q] \notin Turn
      /\ \A q \in Procs : q # p => HandOver(q)'
      /\ pc'[Vm] = "check" /\ pc[Vm] = "check" /\ active' = active /\ p \in active /\ pc[p] = "answer"
      /\ p = Boot \/ pc'[Boot] = pc[Boot]
  BY Onward, TurnPcs DEF Answer, BootPcs, UserPcs
<1>2. Replied(p, ret) /\ Shown(p) /\ Vm \notin active
  BY <1>1 DEF MonitorInv, HandOver, Answering
<1>3. ret \in Replies /\ regs' = [regs EXCEPT ![p] = ret] /\ regs \in [Procs -> Replies]
  BY DEF MonitorInv, Registers, Answer
<1>4. Turns'
  BY <1>1, TurnsKept, TurnPcs DEF MonitorInv, Turns, Answer
<1>5. ModeTable' /\ Installing' /\ RealModes' = RealModes
  BY <1>1, VesaKept, TurnPcs, Constants DEF Answer, vesaVars, hwVars, Users
<1>6. HandOver(p)'
  <2>1. Question(p)' = Question(p)
    BY DEF Answer, vesaVars, Question
  <2>2. Replied(p, regs[p])'
    BY <1>2, <1>3, <2>1 DEF Replied
  <2>3. Shown(p)'
    BY <1>2, <1>5 DEF Shown, Answer, vesaVars, hwVars
  <2> QED
    BY <1>1, <2>2, <2>3 DEF HandOver
<1>7. Resting'
  BY <1>1, <1>2 DEF Resting
<1>8. Display'
  BY <1>1, TurnPcs DEF Display
<1>9. Registers'
  BY <1>3 DEF MonitorInv, Registers, Answer, hwVars
<1> QED
  BY <1>1, <1>4, <1>5, <1>6, <1>7, <1>8, <1>9 DEF MonitorInv

-----------------------------------------------------------------------------
(* Vesa_Int_SetMode()                                                      *)

LEMMA VmRests ==
    ASSUME MonitorInv, NEW p \in Procs, pc[p] \notin {"wake", "sleep", "answer"}, pc[Vm] = "check",
           \A q \in Procs : q # p => pc[q] \notin Turn
    PROVE  Vm \notin active
<1>1. \A q \in Procs : pc[q] \notin {"wake", "sleep", "answer"}
  BY TurnPcs
<1> QED
  BY <1>1 DEF MonitorInv, Resting

LEMMA SetDoneKeeps ==
    ASSUME MonitorInv, NEW p \in Users, SetDone(p)
    PROVE  MonitorInv'
<1>1. p \in Procs /\ p # Boot /\ pc[p] = "got" /\ GoOn(p, "map")
  BY DEF Users, SetDone, Unlock
<1>2. /\ Processor' /\ Early'
      /\ pc'[p] = "map" /\ \A q \in Procs : q # p => pc'[q] = pc[q] /\ pc[q] \notin Turn /\ pc'[q] \notin Turn
      /\ \A q \in Procs : q # p => HandOver(q)'
      /\ pc'[Vm] = "check" /\ pc[Vm] = "check" /\ active' = active
  BY <1>1, Onward, TurnPcs DEF UserPcs
<1>3. UNCHANGED <<complete, callee, ret, vm, regs, hwVars, vesaVars>> /\ inUse' = FALSE
  BY DEF SetDone, Unlock
<1>4. Turns'
  BY <1>1, <1>2, <1>3, TurnsKept, TurnPcs DEF MonitorInv, Turns
<1>5. ModeTable' /\ Installing' /\ RealModes' = RealModes
  BY <1>1, <1>2, <1>3, VesaKept, TurnPcs, Constants DEF vesaVars, hwVars, Users
<1>6. HandOver(p)'
  <2>1. Shown(p)
    BY <1>1 DEF MonitorInv, HandOver
  <2>2. Shown(p)'
    BY <1>3, <1>5, <2>1 DEF Shown, vesaVars, hwVars
  <2> QED
    BY <1>2, <2>2 DEF HandOver
<1>7. Resting'
  BY <1>1, <1>2, VmRests DEF Resting
<1>8. Display'
  BY <1>1, <1>2, TurnPcs DEF Display
<1>9. Registers'
  BY <1>3 DEF MonitorInv, Registers, hwVars
<1> QED
  BY <1>1, <1>2, <1>4, <1>5, <1>6, <1>7, <1>8, <1>9 DEF MonitorInv

LEMMA MapKeeps ==
    ASSUME MonitorInv, NEW p \in Users, Map(p)
    PROVE  MonitorInv'
<1>1. p \in Procs /\ p # Boot /\ pc[p] = "map" /\ GoOn(p, "record")
  BY DEF Users, Map
<1>2. /\ Processor' /\ Early'
      /\ pc'[p] = "record" /\ \A q \in Procs : q # p => pc'[q] = pc[q] /\ pc[q] \notin Turn /\ pc'[q] \notin Turn
      /\ \A q \in Procs : q # p => HandOver(q)'
      /\ pc'[Vm] = "check" /\ pc[Vm] = "check" /\ active' = active
  BY <1>1, Onward, TurnPcs DEF UserPcs
<1>3. UNCHANGED <<handVars, hwVars, modes, mode, want>> /\ mapped' = modes[want[p]].of
  BY DEF Map
<1>4. Turns'
  BY <1>1, <1>2, <1>3, TurnsKept, TurnPcs DEF MonitorInv, Turns, handVars
<1>5. ModeTable' /\ Installing' /\ RealModes' = RealModes
  BY <1>1, <1>2, <1>3, VesaKept, TurnPcs, Constants DEF hwVars, Users
<1>6. HandOver(p)'
  <2>1. Shown(p)
    BY <1>1 DEF MonitorInv, HandOver
  <2>2. Shown(p)'
    BY <1>3, <1>5, <2>1 DEF Shown, hwVars
  <2> QED
    BY <1>2, <1>3, <2>2 DEF HandOver
<1>7. Resting'
  BY <1>1, <1>2, VmRests DEF Resting
<1>8. Display'
  BY <1>1, <1>2, TurnPcs DEF Display
<1>9. Registers'
  BY <1>3 DEF MonitorInv, Registers, handVars, hwVars
<1> QED
  BY <1>1, <1>2, <1>4, <1>5, <1>6, <1>7, <1>8, <1>9 DEF MonitorInv

(* Users are under way only when the table is complete.                    *)
LEMMA BootOver ==
    ASSUME MonitorInv, NEW p \in Users, pc[p] # "user" \/ p \in active
    PROVE  pc[Boot] = "end" /\ Boot \notin active /\ \A m \in RealModes : Described(m)
BY DEF MonitorInv, Early, Installing

LEMMA RecordKeeps ==
    ASSUME MonitorInv, NEW p \in Users, Record(p)
    PROVE  MonitorInv'
<1>1. p \in Procs /\ p # Boot /\ pc[p] = "record" /\ GoOn(p, "user")
  BY DEF Users, Record
<1>2. /\ Processor' /\ Early'
      /\ pc'[p] = "user" /\ \A q \in Procs : q # p => pc'[q] = pc[q] /\ pc[q] \notin Turn /\ pc'[q] \notin Turn
      /\ \A q \in Procs : q # p => HandOver(q)'
      /\ pc'[Vm] = "check" /\ pc[Vm] = "check" /\ active' = active
      /\ pc'[Boot] = pc[Boot]
  BY <1>1, Onward, TurnPcs DEF UserPcs
<1>3. UNCHANGED <<handVars, hwVars, modes, mapped, want>> /\ mode' = want[p]
  BY DEF Record
<1>4. Turns'
  BY <1>1, <1>2, <1>3, TurnsKept, TurnPcs DEF MonitorInv, Turns, handVars
<1>5. want[p] \in 0 .. Len(Codes) /\ DOMAIN modes = 0 .. Len(Codes) /\ modes # <<>>
  BY <1>1, TurnPcs DEF MonitorInv, ModeTable, ModeTypes
<1>6. RealModes' = RealModes /\ pc[Boot] = "end" /\ \A m \in RealModes : Described(m)
  BY <1>1, <1>3, BootOver DEF RealModes
<1>7. ModeTable'
  BY <1>2, <1>3, <1>5, TurnPcs DEF MonitorInv, ModeTable, hwVars, Users
<1>8. Installing'
  BY <1>2, <1>3, <1>6 DEF Installing, Described
<1>9. HandOver(p)'
  BY <1>1, <1>2, NoHandOver, TurnPcs
<1>10. Resting'
  BY <1>1, <1>2, VmRests DEF Resting
<1>11. Display'
  <2>1. Shown(p) /\ mapped = modes[want[p]].of
    BY <1>1 DEF MonitorInv, HandOver
  <2> QED
    BY <1>1, <1>3, <1>6, <2>1 DEF Display, Shown, Described, hwVars
<1>12. Registers'
  BY <1>3 DEF MonitorInv, Registers, handVars, hwVars
<1> QED
  BY <1>1, <1>2, <1>4, <1>7, <1>8, <1>9, <1>10, <1>11, <1>12 DEF MonitorInv

LEMMA CallTypes ==
    ASSUME NEW c \in Calls
    PROVE  /\ c.do = "read" => c.len \in Nat
           /\ c.do = "set" => c.mode \in Int /\ c.mode # Len(Codes) + 1
BY DEF Calls

(* The mode is one of the table, or refused.                               *)
LEMMA SetKeeps ==
    ASSUME MonitorInv, todo \in [Users -> Seq(Calls)], NEW p \in Users, Set(p)
    PROVE  MonitorInv'
<1>1. p \in Procs /\ p # Boot /\ pc[p] = "user" /\ todo[p] # <<>> /\ Doing(p).do = "set"
  BY DEF Users, Set, Calling, Doing
<1>2. Doing(p) \in Calls
  BY <1>1, HeadTailProperties DEF Doing
<1>3. PICK m \in Int : m = Doing(p).mode /\ m # Len(Codes) + 1
  BY <1>1, <1>2, CallTypes
<1>4. CASE ~ Installed
  <2>1. GoOn(p, "user") /\ UNCHANGED biosVars
    BY <1>4 DEF Set
  <2> QED
    BY <1>1, <2>1, GoesAside DEF Out
<1>5. CASE Installed
  <2> DEFINE to == IF m = mode \/ m < 0 \/ m > Len(Codes) + 1 THEN "user" ELSE "lock"
  <2>1. /\ GoOn(p, to) /\ want' = [want EXCEPT ![p] = m] /\ to \in {"user", "lock"}
        /\ UNCHANGED <<handVars, hwVars, modes, mode, mapped>>
    BY <1>3, <1>5 DEF Set, SetMode
  <2>2. to = "lock" => m \in 0 .. Len(Codes)
    BY <1>3, Constants
  <2> HIDE DEF to
  <2>3. /\ Processor' /\ Early'
        /\ pc'[p] = to /\ \A q \in All : q # p => pc'[q] = pc[q]
    BY <1>1, <2>1, GoesOn DEF MonitorInv, UserPcs
  <2>4. /\ pc'[Vm] = pc[Vm] /\ pc'[Boot] = pc[Boot] /\ (\A q \in Procs : q # p => pc'[q] = pc[q]) /\ active' = active
        /\ running = p
    BY <1>1, <2>1, <2>3, Constants DEF All, GoOn
  <2>5. Turns'
    BY <1>1, <2>1, <2>3, <2>4, TurnsKept, TurnPcs DEF MonitorInv, Turns, handVars
  <2>6. RealModes' = RealModes
    BY <2>1 DEF RealModes
  <2>7. p \in active
    BY <1>1, <2>4, Constants DEF MonitorInv, Processor
  <2>8. pc[Boot] = "end" /\ \A i \in RealModes : Described(i)
    BY <2>7, BootOver
  <2>9. ModeTable'
    <3>1. want' \in [Procs -> Int] /\ want'[p] = m /\ \A q \in Procs : q # p => want'[q] = want[q]
      BY <1>1, <2>1 DEF MonitorInv, ModeTable
    <3> QED
      BY <1>1, <1>5, <2>1, <2>2, <2>3, <2>4, <3>1, TurnPcs DEF MonitorInv, ModeTable, Installed, hwVars, Users
  <2>10. Installing'
    BY <2>1, <2>4, <2>6, <2>8 DEF Installing, Described
  <2>11. ASSUME NEW q \in Procs PROVE HandOver(q)'
    <3>1. CASE pc'[q] \notin Turn
      BY <3>1, NoHandOver
    <3>2. CASE pc'[q] \in Turn
      <4>1. q # p /\ pc'[q] = pc[q] /\ HandOver(q)
        BY <2>1, <2>3, <2>4, <3>2, TurnPcs DEF MonitorInv
      <4>2. want'[q] = want[q] /\ modes' = modes /\ mapped' = mapped
        BY <1>1, <2>1, <4>1 DEF MonitorInv, ModeTable
      <4>3. Question(q)' = Question(q) /\ (Shown(q)' <=> Shown(q))
        BY <2>1, <2>6, <4>2 DEF Question, Shown, hwVars
      <4>4. UNCHANGED handVars
        BY <2>1
      <4>5. (Waits(q)' <=> Waits(q)) /\ (Replied(q, vm)' <=> Replied(q, vm))
            /\ (Replied(q, ret)' <=> Replied(q, ret)) /\ (Replied(q, regs[q])' <=> Replied(q, regs[q]))
        BY <4>3, <4>4 DEF Waits, Replied, handVars
      <4>6. Answering(q) => Answering(q)'
        BY <2>4, <4>3, <4>4, <4>5 DEF Answering, handVars
      <4> QED
        BY <2>4, <4>1, <4>2, <4>3, <4>5, <4>6 DEF HandOver
    <3> QED
      BY <3>1, <3>2
  <2>12. Resting'
    <3>1. \A q \in Procs : (pc'[q] \in Turn <=> pc[q] \in Turn)
                           /\ (pc'[q] \in {"wake", "sleep", "answer"} <=> pc[q] \in {"wake", "sleep", "answer"})
      BY <1>1, <2>1, <2>3, <2>4, TurnPcs
    <3> QED
      BY <2>4, <3>1 DEF MonitorInv, Resting
  <2>13. Display'
    <3>1. \A q \in Procs : pc'[q] \in Between <=> pc[q] \in Between
      BY <1>1, <2>1, <2>3, <2>4, TurnPcs
    <3> QED
      BY <2>1, <2>6, <3>1 DEF MonitorInv, Display, hwVars
  <2>14. Registers'
    BY <2>1 DEF MonitorInv, Registers, handVars, hwVars
  <2> QED
    BY <2>3, <2>5, <2>9, <2>10, <2>11, <2>12, <2>13, <2>14 DEF MonitorInv
<1> QED
  BY <1>4, <1>5

-----------------------------------------------------------------------------
(* VM8086_Install() and Vesa_Install()                                     *)

(* The monitor's process runs first.                                       *)
LEMMA ForkedKeeps ==
    ASSUME MonitorInv, Forked
    PROVE  MonitorInv'
<1>1. /\ Vm \in All /\ Boot \in All /\ Vm # Boot /\ Boot \in Procs /\ Vm \notin Users /\ Vm # Nobody
      /\ \A q \in Procs : q \in All /\ q # Vm
  BY Constants DEF All, Users
<1>2. /\ UNCHANGED biosVars /\ pc[Boot] = "fork" /\ running = Boot
      /\ pc' = [pc EXCEPT ![Boot] = "lock"] /\ active' = active
  BY DEF Forked, Go, Give
<1>3. pc'[Boot] = "lock" /\ \A q \in All : q # Boot => pc'[q] = pc[q]
  BY <1>1, <1>2 DEF MonitorInv, Processor
<1>4. /\ pc[Vm] = "done" /\ Vm \in active /\ \A p \in Users : pc[p] = "user" /\ p \notin active
  BY <1>2 DEF MonitorInv, Processor, Early
<1>5. running' = Vm
  <2>1. active \ {Boot} = {Vm}
    BY <1>1, <1>4 DEF MonitorInv, Processor, All, Users
  <2> QED
    BY <2>1 DEF Forked, Give
<1>6. Processor'
  <2>1. pc' \in [All -> BootPcs \cup UserPcs \cup VmPcs]
    BY <1>1, <1>2 DEF MonitorInv, Processor, BootPcs
  <2>2. pc'[Boot] \in BootPcs /\ pc'[Vm] \in VmPcs /\ \A q \in Users : pc'[q] \in UserPcs
    BY <1>1, <1>3 DEF MonitorInv, Processor, Users, BootPcs
  <2>3. \A q \in Procs : pc'[q] \notin Held
    BY <1>1, <1>3, <1>4 DEF Users, Held
  <2> QED
    BY <1>1, <1>2, <1>3, <1>4, <1>5, <2>1, <2>2, <2>3 DEF MonitorInv, Processor
<1>7. Early'
  BY <1>1, <1>2, <1>3, <1>4 DEF Early, Users
<1>8. \A q \in Procs : pc[q] \notin Turn /\ pc'[q] \notin Turn
  BY <1>1, <1>2, <1>3, <1>4, TurnPcs DEF Users
<1>9. Turns' /\ \A q \in Procs : HandOver(q)'
  BY <1>8, NoHandOver DEF Turns, Turn, Inside, Between
<1>10. ModeTable'
  BY <1>1, <1>2, <1>3, <1>4, TurnPcs DEF MonitorInv, ModeTable, biosVars, vesaVars, hwVars, Users
<1>11. Installing'
  BY <1>2, <1>3, Unasked DEF MonitorInv, Installing, Described, biosVars, vesaVars
<1>12. Resting'
  BY <1>1, <1>3, <1>4, <1>8 DEF Resting
<1>13. Display'
  BY <1>8, <1>2, Unasked DEF MonitorInv, Display, Turn, biosVars, vesaVars, hwVars
<1> QED
  BY <1>2, <1>6, <1>7, <1>9, <1>10, <1>11, <1>12, <1>13, Unasked DEF MonitorInv

(* The table has an entry for each mode, its code as Codes has it.         *)
LEMMA NewTable ==
    [i \in 0 .. Len(Codes) |-> Table[i + 1]] \in ModeTypes
<1> DEFINE rest == [i \in 1 .. Len(Codes) |-> [code |-> Codes[i], of |-> Garbage]]
           first == <<[code |-> 0, of |-> Garbage]>>
           Entry == [code : Nat, of : Nat \cup {Garbage}]
<1>1. PICK n \in Nat : n = Len(Codes)
  BY Constants
<1>2. \A i \in 1 .. n : [code |-> Codes[i], of |-> Garbage] \in Entry
  BY <1>1, Constants
<1>3. rest \in [1 .. n -> Entry]
  BY <1>1, <1>2
<1>4. rest \in Seq(Entry) /\ Len(rest) = n
  BY <1>1, <1>3
<1>5. first \in Seq(Entry) /\ Len(first) = 1
  OBVIOUS
<1>6. Table = first \o rest
  BY DEF Table
<1> HIDE DEF rest, first, Entry
<1>7. Table \in Seq(Entry) /\ Len(Table) = n + 1
  <2>1. first \o rest \in Seq(Entry) /\ Len(first \o rest) = Len(first) + Len(rest)
    BY <1>4, <1>5, ConcatProperties
  <2> QED
    BY <1>4, <1>5, <1>6, <2>1
<1>8. \A i \in 0 .. n : Table[i + 1] \in Entry
  <2> SUFFICES ASSUME NEW i \in 0 .. n PROVE Table[i + 1] \in Entry
    OBVIOUS
  <2>1. i + 1 \in 1 .. Len(Table)
    BY <1>7
  <2> QED
    BY <1>7, <2>1, ElementOfSeq
<1> QED
  BY <1>1, <1>8 DEF ModeTypes, Entry

LEMMA BootOnward ==
    ASSUME MonitorInv, NEW to \in BootPcs, GoOn(Boot, to), to # "fork", pc[Boot] \in {"got", "unlock"}
    PROVE  /\ Processor' /\ Early'
           /\ pc'[Boot] = to /\ \A q \in Procs : q # Boot => pc'[q] = pc[q] /\ pc[q] \notin Turn /\ pc'[q] \notin Turn
           /\ \A q \in Procs : q # Boot => HandOver(q)'
           /\ pc'[Vm] = "check" /\ pc[Vm] = "check" /\ active' = active
           /\ \A q \in Users : pc[q] = "user" /\ pc'[q] = "user"
<1>1. \A q \in Users : pc[q] = "user" /\ q # Boot /\ q \in Procs
  BY DEF MonitorInv, Early, Users
<1>2. /\ Processor' /\ Early'
      /\ pc'[Boot] = to /\ \A q \in Procs : q # Boot => pc'[q] = pc[q] /\ pc[q] \notin Turn /\ pc'[q] \notin Turn
      /\ \A q \in Procs : q # Boot => HandOver(q)'
      /\ pc'[Vm] = "check" /\ pc[Vm] = "check" /\ active' = active
  BY Onward, TurnPcs, Constants
<1> QED
  BY <1>1, <1>2

(* What any step of Vesa_Install() keeps.                                  *)
LEMMA InstallKeeps ==
    ASSUME MonitorInv, NEW to \in BootPcs, GoOn(Boot, to), to \in {"ask", "unlock", "end"},
           pc[Boot] \in {"got", "unlock"}, UNCHANGED <<complete, callee, ret, vm, regs, hwVars, mode, mapped>>,
           inUse' \in BOOLEAN, to # "end" => inUse',
           modes' = <<>> \/ modes' \in ModeTypes, want' \in [Procs -> Int], Installing'
    PROVE  MonitorInv'
<1>1. /\ Processor' /\ Early'
      /\ pc'[Boot] = to /\ \A q \in Procs : q # Boot => pc'[q] = pc[q] /\ pc[q] \notin Turn /\ pc'[q] \notin Turn
      /\ \A q \in Procs : q # Boot => HandOver(q)'
      /\ pc'[Vm] = "check" /\ pc[Vm] = "check" /\ active' = active
      /\ \A q \in Users : pc[q] = "user" /\ pc'[q] = "user"
  BY BootOnward
<1>2. Turns'
  BY <1>1, TurnPcs DEF Turns
<1>3. HandOver(Boot)'
  BY <1>1 DEF HandOver
<1>4. mode = -1 /\ mode' = -1
  BY DEF MonitorInv, Installing
<1>5. ModeTable'
  BY <1>1, <1>4, TurnPcs DEF MonitorInv, ModeTable, hwVars
<1>6. Resting'
  BY <1>1, VmRests, Constants DEF Resting
<1>7. Display'
  <2>1. -1 \notin RealModes'
    <3>1. DOMAIN modes' = {} \/ DOMAIN modes' = 0 .. Len(Codes)
      BY DEF ModeTypes
    <3> QED
      BY <3>1, Constants DEF RealModes
  <2> QED
    BY <1>4, <2>1 DEF Display
<1>8. Registers'
  BY DEF MonitorInv, Registers, hwVars
<1>9. \A q \in Procs : HandOver(q)'
  BY <1>1, <1>3
<1> QED
  BY <1>1, <1>2, <1>5, <1>6, <1>7, <1>8, <1>9 DEF MonitorInv

LEMMA InstallDoneKeeps ==
    ASSUME MonitorInv, InstallDone
    PROVE  MonitorInv'
<1>1. /\ pc[Boot] = "unlock" /\ GoOn(Boot, "end") /\ inUse' = FALSE
      /\ UNCHANGED <<complete, callee, ret, vm, regs, hwVars, vesaVars>>
  BY DEF InstallDone, Unlock
<1>2. pc'[Boot] = "end"
  BY <1>1, Constants DEF GoOn, Go, MonitorInv, Processor, All
<1>3. RealModes' = RealModes /\ UNCHANGED <<modes, mode, want, mapped>>
  BY <1>1 DEF RealModes, vesaVars
<1>4. Installing'
  BY <1>1, <1>2, <1>3 DEF MonitorInv, Installing, Described
<1>5. modes' = <<>> \/ modes' \in ModeTypes
  BY <1>3 DEF MonitorInv, ModeTable
<1>6. want' \in [Procs -> Int]
  BY <1>3 DEF MonitorInv, ModeTable
<1> QED
  BY <1>1, <1>3, <1>4, <1>5, <1>6, InstallKeeps DEF BootPcs

LEMMA GotInfoKeeps ==
    ASSUME MonitorInv, GotInfo
    PROVE  MonitorInv'
<1>1. /\ pc[Boot] = "got" /\ want[Boot] = 0 /\ UNCHANGED <<handVars, hwVars, mode, mapped>> /\ inUse
      /\ modes = <<>> /\ mode = -1
  BY Constants, TurnPcs DEF GotInfo, MonitorInv, Turns, Installing
<1>2. UNCHANGED <<complete, callee, ret, vm, regs, inUse>>
  BY <1>1 DEF handVars
<1>3. want \in [Procs -> Int] /\ Boot \in Procs /\ inUse \in BOOLEAN
  BY Constants DEF MonitorInv, ModeTable, Registers
<1>4. CASE ~ regs[Boot].ok
  <2>1. GoOn(Boot, "end") /\ modes' = modes /\ want' = [want EXCEPT ![Boot] = 0]
    BY <1>4 DEF GotInfo
  <2>2. pc'[Boot] = "end" /\ want' \in [Procs -> Int]
    BY <1>3, <2>1, Constants DEF GoOn, Go, MonitorInv, Processor, All
  <2>3. Installing'
    BY <1>1, <2>1, <2>2 DEF Installing, RealModes
  <2> QED
    BY <1>1, <1>2, <1>3, <2>1, <2>2, <2>3, InstallKeeps DEF BootPcs
<1>5. CASE regs[Boot].ok
  <2> DEFINE to == IF Codes = <<>> THEN "unlock" ELSE "ask"
  <2>1. /\ GoOn(Boot, to) /\ modes' = [i \in 0 .. Len(Codes) |-> Table[i + 1]]
        /\ want' = [want EXCEPT ![Boot] = 1]
    BY <1>5 DEF GotInfo
  <2>2. pc'[Boot] = to /\ want' \in [Procs -> Int] /\ want'[Boot] = 1
    BY <1>3, <2>1, Constants DEF GoOn, Go, MonitorInv, Processor, All
  <2>3. modes' \in ModeTypes
    BY <2>1, NewTable
  <2>4. Codes # <<>> => Len(Codes) >= 1
    BY BiosConstants, EmptySeq
  <2>5. Installing'
    <3>1. CASE Codes = <<>>
      <4>1. to = "unlock" /\ 0 .. Len(Codes) = {0}
        BY <3>1
      <4>2. RealModes' = {}
        BY <2>3, <4>1 DEF RealModes, ModeTypes
      <4> QED
        BY <1>1, <2>2, <4>1, <4>2 DEF Installing
    <3>2. CASE Codes # <<>>
      <4>1. to = "ask" /\ 1 \in 1 .. Len(Codes)
        BY <2>4, <3>2, Constants
      <4>2. modes' # <<>>
        <5>1. 0 \in DOMAIN modes'
          BY <2>3, Constants DEF ModeTypes
        <5> QED
          BY <5>1
      <4> QED
        BY <1>1, <2>2, <4>1, <4>2 DEF Installing
    <3> QED
      BY <3>1, <3>2
  <2>6. to \in {"ask", "unlock"}
    OBVIOUS
  <2> HIDE DEF to
  <2> QED
    BY <1>1, <1>2, <1>3, <2>1, <2>2, <2>3, <2>5, <2>6, InstallKeeps DEF BootPcs
<1> QED
  BY <1>4, <1>5

(* What the buffer describes is the mode that was asked about.             *)
LEMMA GotModeKeeps ==
    ASSUME MonitorInv, GotMode
    PROVE  MonitorInv'
<1>1. PICK w \in Int : w = want[Boot]
  BY Constants DEF MonitorInv, ModeTable
<1>2. /\ pc[Boot] = "got" /\ w > 0 /\ UNCHANGED <<handVars, hwVars, mode, mapped>> /\ inUse
      /\ GoOn(Boot, IF w = Len(Codes) THEN "unlock" ELSE "ask")
      /\ modes' = [modes EXCEPT ![w].of = modeinfo]
      /\ want' = [want EXCEPT ![Boot] = IF w = Len(Codes) THEN w ELSE w + 1]
  BY <1>1, Constants, TurnPcs DEF GotMode, MonitorInv, Turns
<1>3. w \in 1 .. Len(Codes) /\ modes \in ModeTypes /\ mode = -1 /\ \A m \in 1 .. w - 1 : Described(m)
  BY <1>1, <1>2 DEF MonitorInv, Installing, ModeTable
<1>4. PICK n \in Nat : n = Len(Codes)
  BY Constants
<1>5. Shown(Boot)
  BY <1>2, Constants DEF MonitorInv, HandOver
<1>6. modes' \in ModeTypes
  BY <1>2, <1>3 DEF ModeTypes, MonitorInv, ModeTable
<1>7. /\ modes'[w].of = modeinfo /\ modes'[w].code = modes[w].code
      /\ \A m \in 0 .. n : m # w => modes'[m] = modes[m]
  BY <1>2, <1>3, <1>4 DEF ModeTypes
<1>8. DOMAIN modes = 0 .. n /\ DOMAIN modes' = 0 .. n
  BY <1>3, <1>4, <1>6 DEF ModeTypes
<1>9. RealModes' = RealModes
  <2>1. \A m \in 0 .. n : modes'[m].code = modes[m].code
    BY <1>7
  <2> QED
    BY <1>8, <2>1 DEF RealModes
<1>10. \A m \in 1 .. w : Described(m)'
  <2>1. ASSUME NEW m \in 1 .. w - 1 PROVE Described(m)'
    <3>1. m \in 0 .. n /\ m # w
      BY <1>3, <1>4
    <3> QED
      BY <1>3, <1>7, <1>9, <3>1 DEF Described
  <2>2. Described(w)'
    BY <1>1, <1>5, <1>7, <1>9 DEF Described, Shown
  <2>3. \A m \in 1 .. w : m \in 1 .. w - 1 \/ m = w
    BY <1>3
  <2> QED
    BY <2>1, <2>2, <2>3
<1>11. want' \in [Procs -> Int] /\ want'[Boot] = IF w = n THEN w ELSE w + 1
  BY <1>2, <1>4, Constants DEF MonitorInv, ModeTable
<1>12. pc'[Boot] = IF w = n THEN "unlock" ELSE "ask"
  BY <1>2, <1>4, Constants DEF GoOn, Go, MonitorInv, Processor, All
<1>13. Installing'
  <2>1. CASE w = n
    <3>1. \A m \in RealModes : m \in 1 .. w
      BY <1>4, <1>8, <2>1 DEF RealModes
    <3> QED
      BY <1>2, <1>3, <1>9, <1>10, <1>12, <2>1, <3>1 DEF Installing
  <2>2. CASE w # n
    <3>1. want'[Boot] = w + 1 /\ w + 1 \in 1 .. n /\ (w + 1) - 1 = w
      BY <1>3, <1>4, <1>11, <2>2
    <3>2. modes' # <<>>
      <4>1. 0 \in DOMAIN modes'
        BY <1>8
      <4> QED
        BY <4>1
    <3>3. \A m \in 1 .. want'[Boot] - 1 : Described(m)'
      BY <1>10, <3>1
    <3> QED
      BY <1>2, <1>3, <1>4, <1>12, <2>2, <3>1, <3>2, <3>3 DEF Installing
  <2> QED
    BY <2>1, <2>2
<1>14. /\ GoOn(Boot, IF w = n THEN "unlock" ELSE "ask") /\ inUse' = inUse /\ inUse \in BOOLEAN
       /\ UNCHANGED <<complete, callee, ret, vm, regs, hwVars, mode, mapped>>
  BY <1>2, <1>4 DEF handVars, MonitorInv, Registers
<1> QED
  BY <1>2, <1>6, <1>11, <1>13, <1>14, InstallKeeps DEF BootPcs

(* The boot over, nobody is in the monitor or waits for it.                *)
LEMMA StartUsersKeeps ==
    ASSUME MonitorInv, StartUsers
    PROVE  MonitorInv'
<1>1. /\ Vm \in All /\ Boot \in All /\ Vm # Boot /\ Boot \in Procs /\ Boot # Nobody
      /\ \A q \in Procs : q \in All /\ q # Vm
  BY Constants DEF All
<1>2. /\ pc[Boot] = "end" /\ running = Boot /\ UNCHANGED biosVars /\ pc' = pc
      /\ active' = (active \ {Boot}) \cup Users /\ running' \in active' \cup {Nobody}
  BY DEF StartUsers, Give
<1>3. Boot \in active /\ \A q \in Users : pc[q] = "user"
  BY <1>1, <1>2 DEF MonitorInv, Processor, Early
<1>4. \A q \in Procs : pc[q] \notin Turn /\ pc'[q] \notin Turn /\ pc'[q] \notin Held
  BY <1>2, <1>3, TurnPcs DEF Users, Held
<1>5. pc'[Vm] = pc[Vm] /\ pc[Vm] \notin HeldVm \cup {"done"}
  BY <1>1, <1>2 DEF MonitorInv, Processor
<1>6. Processor'
  <2>1. active' \subseteq All
    BY <1>2 DEF MonitorInv, Processor, All, Users
  <2> QED
    BY <1>2, <1>4, <1>5, <2>1 DEF MonitorInv, Processor
<1>7. Early'
  BY <1>1, <1>2 DEF Early, Users
<1>8. Turns' /\ \A q \in Procs : HandOver(q)'
  BY <1>4, NoHandOver DEF Turns, Turn, Inside, Between
<1>9. ModeTable' /\ Installing' /\ RealModes' = RealModes
  BY <1>2, VesaKept DEF biosVars, vesaVars, hwVars
<1>10. Resting'
  <2>1. pc[Vm] = "rest" => FALSE
    BY <1>5 DEF HeldVm
  <2>2. \A q \in Procs : pc[q] \notin {"wake", "sleep", "answer"}
    BY <1>4, TurnPcs
  <2>3. pc[Vm] = "check" /\ Vm \notin active
    BY <1>5, <2>1, <2>2 DEF MonitorInv, Resting
  <2> QED
    BY <1>1, <1>2, <2>3 DEF Resting, Users
<1>11. Display'
  BY <1>2, Unasked DEF MonitorInv, Display, biosVars, vesaVars, hwVars
<1> QED
  BY <1>2, <1>6, <1>7, <1>8, <1>9, <1>10, <1>11, Unasked DEF MonitorInv

LEMMA TimerKeeps ==
    ASSUME MonitorInv, running # Nobody, pc[running] = "user", Preempt
    PROVE  MonitorInv'
<1>1. running \in Users
  <2>1. running \in All /\ running # Vm /\ running # Boot
    BY DEF MonitorInv, Processor, VmPcs, BootPcs
  <2> QED
    BY <2>1 DEF All, Users
<1>2. PICK p \in Users : p = running
  BY <1>1
<1>3. pc' = pc /\ pc[p] = "user" /\ UNCHANGED biosVars /\ Give(p, active) /\ p \in Procs /\ p # Boot
  BY <1>2 DEF Preempt, Users
<1>4. pc' = [pc EXCEPT ![p] = "user"]
  BY <1>3 DEF MonitorInv, Processor, All
<1> QED
  BY <1>2, <1>3, <1>4, GivesAside

-----------------------------------------------------------------------------
(* The monitor's process                                                   *)

(* While it runs, who has a part in the hand-over waits.                   *)
LEMMA VmRuns ==
    ASSUME MonitorInv, running = Vm
    PROVE  /\ Vm \in active /\ Vm # Boot /\ Vm # Nobody /\ Vm \in All /\ Vm \notin Procs
           /\ \A q \in Procs : pc[q] \notin Held
           /\ \A q \in Procs : pc[q] \in Turn => pc[q] = "answer" /\ Answering(q)
           /\ pc[Vm] \notin {"done", "rest"} => \E q \in Procs : pc[q] = "answer"
<1>1. Vm \in active /\ Vm # Boot /\ Vm # Nobody /\ Vm \in All /\ Vm \notin Procs
  BY Constants DEF MonitorInv, Processor, All
<1>2. \A q \in Procs : pc[q] \notin Held
  BY <1>1 DEF MonitorInv, Processor
<1>3. \A q \in Procs : pc[q] \in Turn => pc[q] = "answer" /\ Answering(q)
  BY <1>2, TurnPcs DEF Held, MonitorInv, HandOver
<1>4. ASSUME pc[Vm] \notin {"done", "rest"} PROVE \E q \in Procs : pc[q] = "answer"
  <2>1. \E q \in Procs : pc[q] \in {"wake", "sleep", "answer"}
    BY <1>1, <1>4 DEF MonitorInv, Resting
  <2> QED
    BY <1>3, <2>1, TurnPcs
<1> QED
  BY <1>1, <1>2, <1>3, <1>4

(* What it does changes nothing about whose turn it is.                    *)
LEMMA VmTurns ==
    ASSUME MonitorInv, running = Vm, \A q \in Procs : pc'[q] = pc[q], inUse' = inUse,
           \A q \in Procs : pc[q] = "answer" => Answering(q)'
    PROVE  Turns' /\ \A q \in Procs : HandOver(q)'
<1>1. Turns'
  BY DEF MonitorInv, Turns
<1>2. ASSUME NEW q \in Procs PROVE HandOver(q)'
  <2>1. CASE pc[q] \notin Turn
    BY <2>1, NoHandOver
  <2>2. CASE pc[q] \in Turn
    <3>1. pc'[q] = "answer" /\ Answering(q)'
      BY <2>2, VmRuns
    <3> QED
      BY <3>1 DEF HandOver
  <2> QED
    BY <2>1, <2>2
<1> QED
  BY <1>1, <1>2

LEMMA VmGoesOn ==
    ASSUME MonitorInv, NEW to \in VmPcs, GoOn(Vm, to)
    PROVE  /\ running = Vm /\ running' = Vm /\ active' = active
           /\ Processor' /\ Early'
           /\ pc'[Vm] = to /\ \A q \in Procs : pc'[q] = pc[q]
<1>1. running = Vm /\ running' = Vm /\ active' = active /\ pc' = [pc EXCEPT ![Vm] = to]
  BY DEF GoOn, Go
<1>2. Processor' /\ pc'[Vm] = to /\ \A q \in Procs : pc'[q] = pc[q]
  BY <1>1, VmMoves, VmRuns DEF MonitorInv, Processor
<1>3. Early'
  BY <1>1, <1>2, Constants DEF MonitorInv, Early, Users
<1> QED
  BY <1>1, <1>2, <1>3

LEMMA RunKeeps ==
    ASSUME MonitorInv, Run
    PROVE  MonitorInv'
<1>1. /\ pc[Vm] = "run" /\ GoOn(Vm, "done") /\ "done" \in VmPcs
      /\ UNCHANGED <<inUse, complete, callee, ret, regs, vbe, vesaVars>>
  BY DEF Run, VmPcs
<1>2. /\ running = Vm /\ running' = Vm /\ active' = active
      /\ Processor' /\ Early'
      /\ pc'[Vm] = "done" /\ \A q \in Procs : pc'[q] = pc[q]
  BY <1>1, VmGoesOn
<1>3. PICK q \in Procs : pc[q] = "answer"
  BY <1>1, <1>2, VmRuns
<1>4. \A r \in Procs : pc[r] = "answer" => r = q
  BY <1>3, TurnPcs DEF MonitorInv, Turns
<1>5. vm.asked = Question(q) /\ Question(q)' = Question(q)
  <2>1. Answering(q)
    BY <1>2, <1>3, VmRuns, TurnPcs
  <2>2. vm.asked = Question(q)
    BY <1>1, <2>1 DEF Answering
  <2>3. Question(q)' = Question(q)
    BY <1>1 DEF Question, vesaVars
  <2> QED
    BY <2>2, <2>3
<1>6. vm \in Replies /\ Known(vm.asked) \in BOOLEAN
  <2>1. vm \in Replies /\ vbe \in BOOLEAN
    BY DEF MonitorInv, Registers
  <2>2. CASE vm.asked.fn = "info"
    <3>1. Known(vm.asked) = vbe
      BY <2>2 DEF Known
    <3> QED
      BY <2>1, <3>1
  <2>3. CASE vm.asked.fn # "info"
    <3>1. Known(vm.asked) = (vm.asked.code \in DOMAIN Sizes)
      BY <2>3, Zenon DEF Known
    <3> QED
      BY <2>1, <3>1
  <2> QED
    BY <2>2, <2>3
<1>7. vm' \in Replies /\ vm'.asked = Question(q) /\ vm'.done
  <2>1. vm' = [vm EXCEPT !.done = TRUE, !.ok = Known(vm.asked)]
    BY DEF Run
  <2> QED
    BY <1>5, <1>6, <2>1 DEF Replies
<1>8. RealModes' = RealModes
  BY <1>1 DEF RealModes, vesaVars
<1>9. Shown(q)'
  <2> SUFFICES ASSUME want[q] \in RealModes
               PROVE  IF q = Boot THEN modeinfo' = modes[want[q]].code ELSE hw' = modes[want[q]].code
    BY <1>1, <1>8 DEF Shown, vesaVars
  <2>1. want[q] # 0 /\ modes[want[q]].code \in DOMAIN Sizes
    BY DEF RealModes
  <2>2. /\ vm.asked.code = modes[want[q]].code
        /\ vm.asked.fn = IF q = Boot THEN "mode" ELSE "set"
    BY <1>5, <2>1 DEF Question
  <2>3. Known(vm.asked)
    BY <2>1, <2>2 DEF Known
  <2> QED
    BY <2>2, <2>3 DEF Run
<1>10. \A r \in Procs : pc[r] = "answer" => Answering(r)'
  <2>1. Replied(q, vm)'
    BY <1>5, <1>7 DEF Replied
  <2> QED
    BY <1>2, <1>4, <1>9, <2>1 DEF Answering
<1>11. Turns' /\ \A r \in Procs : HandOver(r)'
  BY <1>1, <1>2, <1>10, VmTurns
<1>12. modeinfo' \in Nat \cup {Garbage}
  BY <1>6 DEF Run, Replies, MonitorInv, ModeTable
<1>13. ModeTable' /\ Installing'
  BY <1>1, <1>2, <1>8, <1>12, Constants DEF MonitorInv, ModeTable, Installing, Described, vesaVars, Users
<1>14. Resting'
  BY <1>2, <1>3 DEF Resting
<1>15. Display'
  BY <1>2, <1>3, TurnPcs DEF Display
<1>16. Registers'
  BY <1>1, <1>7 DEF MonitorInv, Registers
<1> QED
  BY <1>2, <1>11, <1>13, <1>14, <1>15, <1>16 DEF MonitorInv

(* The registers of the monitor alone.                                     *)
LEMMA VmKept ==
    ASSUME MonitorInv, \A q \in Procs : pc'[q] = pc[q], UNCHANGED <<hwVars, vesaVars>>
    PROVE  ModeTable' /\ Installing' /\ Display' /\ RealModes' = RealModes
           /\ \A q \in Procs : Question(q)' = Question(q) /\ (Shown(q)' <=> Shown(q))
<1>1. RealModes' = RealModes
  BY DEF RealModes, vesaVars
<1>2. ModeTable' /\ Installing'
  BY <1>1, Constants DEF MonitorInv, ModeTable, Installing, Described, vesaVars, hwVars, Users
<1>3. Display'
  BY <1>1 DEF MonitorInv, Display, vesaVars, hwVars
<1>4. \A q \in Procs : Question(q)' = Question(q)
  BY DEF Question, vesaVars
<1>5. \A q \in Procs : Shown(q)' <=> Shown(q)
  BY <1>1 DEF Shown, vesaVars, hwVars
<1> QED
  BY <1>1, <1>2, <1>3, <1>4, <1>5

LEMMA DoneKeeps ==
    ASSUME MonitorInv, Done
    PROVE  MonitorInv'
<1>1. /\ pc[Vm] = "done" /\ GoOn(Vm, "rest") /\ "rest" \in VmPcs /\ ret' = vm /\ complete' = TRUE
      /\ UNCHANGED <<inUse, callee, vm, regs, hwVars, vesaVars>>
  BY DEF Done, VmPcs
<1>2. /\ running = Vm /\ running' = Vm /\ active' = active
      /\ Processor' /\ Early'
      /\ pc'[Vm] = "rest" /\ \A q \in Procs : pc'[q] = pc[q]
  BY <1>1, VmGoesOn
<1>3. ModeTable' /\ Installing' /\ Display' /\ RealModes' = RealModes
           /\ \A q \in Procs : Question(q)' = Question(q) /\ (Shown(q)' <=> Shown(q))
  BY <1>1, <1>2, VmKept
<1>4. ASSUME NEW q \in Procs, pc[q] = "answer" PROVE Answering(q)'
  <2>1. Answering(q)
    BY <1>2, <1>4, VmRuns, TurnPcs
  <2>2. Replied(q, vm) /\ Shown(q)
    BY <1>1, <2>1 DEF Answering
  <2>3. Replied(q, ret)' /\ Shown(q)'
    BY <1>1, <1>3, <2>2 DEF Replied
  <2> QED
    BY <1>2, <2>3 DEF Answering
<1>5. Turns' /\ \A q \in Procs : HandOver(q)'
  BY <1>1, <1>2, <1>4, VmTurns
<1>6. Resting'
  <2>1. (\A q \in Procs : pc[q] # "answer") => \A q \in Procs : pc[q] \notin Turn
    BY <1>2, VmRuns
  <2> QED
    BY <1>2, <2>1 DEF Resting
<1>7. Registers'
  BY <1>1 DEF MonitorInv, Registers, hwVars
<1> QED
  BY <1>2, <1>3, <1>5, <1>6, <1>7 DEF MonitorInv

LEMMA RestKeeps ==
    ASSUME MonitorInv, Rest
    PROVE  MonitorInv'
<1>1. /\ pc[Vm] = "rest" /\ running = Vm /\ pc' = [pc EXCEPT ![Vm] = "check"] /\ "check" \in VmPcs
      /\ active' = active \ {Vm} /\ running' \in active' \cup {Nobody} /\ UNCHANGED biosVars
  BY DEF Rest, Go, Give, VmPcs
<1>2. UNCHANGED <<handVars, hwVars, vesaVars, inUse, ret, vm>>
  BY <1>1 DEF biosVars, handVars
<1>3. Processor' /\ pc'[Vm] = "check" /\ \A q \in Procs : pc'[q] = pc[q]
  <2>1. active' \subseteq All /\ "check" \notin HeldVm \cup {"done"}
    BY <1>1 DEF MonitorInv, Processor, HeldVm
  <2> QED
    BY <1>1, <2>1, VmMoves DEF MonitorInv
<1>4. Early'
  BY <1>1, <1>3, Constants DEF MonitorInv, Early, Users
<1>5. ModeTable' /\ Installing' /\ Display' /\ RealModes' = RealModes
           /\ \A q \in Procs : Question(q)' = Question(q) /\ (Shown(q)' <=> Shown(q))
  BY <1>2, <1>3, VmKept
<1>6. ASSUME NEW q \in Procs, pc[q] = "answer" PROVE Answering(q)'
  <2>1. Answering(q)
    BY <1>1, <1>6, VmRuns, TurnPcs
  <2>2. Replied(q, ret) /\ Shown(q)
    BY <1>1, <2>1 DEF Answering
  <2>3. Replied(q, ret)' /\ Shown(q)'
    BY <1>2, <1>5, <2>2 DEF Replied
  <2>4. Vm \notin active'
    BY <1>1
  <2> QED
    BY <1>3, <2>3, <2>4 DEF Answering
<1>7. Turns' /\ \A q \in Procs : HandOver(q)'
  BY <1>1, <1>2, <1>3, <1>6, VmTurns
<1>8. Resting'
  BY <1>1, <1>3 DEF Resting
<1> QED
  BY <1>1, <1>3, <1>4, <1>5, <1>7, <1>8, Unasked DEF MonitorInv

(* It runs again only for a question.                                      *)
LEMMA CheckKeeps ==
    ASSUME MonitorInv, Check
    PROVE  MonitorInv'
<1>1. pc[Vm] = "check" /\ running = Vm /\ UNCHANGED biosVars /\ "start" \in VmPcs
  BY DEF Check, Yield, GoOn, VmPcs
<1>2. UNCHANGED <<handVars, hwVars, vesaVars, inUse>>
  BY <1>1 DEF biosVars, handVars
<1>3. PICK q \in Procs : pc[q] = "answer"
  BY <1>1, VmRuns
<1>4. \A r \in Procs : pc[r] = "answer" => r = q
  BY <1>3, TurnPcs DEF MonitorInv, Turns
<1>5. Waits(q) /\ q \notin active
  <2>1. Answering(q) /\ Vm \in active
    BY <1>1, <1>3, VmRuns, TurnPcs
  <2> QED
    BY <1>1, <2>1 DEF Answering
<1>6. GoOn(Vm, "start")
  BY <1>5 DEF Check, Waits
<1>7. /\ running = Vm /\ running' = Vm /\ active' = active
      /\ Processor' /\ Early'
      /\ pc'[Vm] = "start" /\ \A r \in Procs : pc'[r] = pc[r]
  BY <1>1, <1>6, VmGoesOn
<1>8. ModeTable' /\ Installing' /\ Display' /\ RealModes' = RealModes
  BY <1>2, <1>7, VmKept
<1>9. \A r \in Procs : pc[r] = "answer" => Answering(r)'
  <2>1. Waits(q)'
    BY <1>1, <1>5, Unasked
  <2> QED
    BY <1>4, <1>5, <1>7, <2>1 DEF Answering
<1>10. Turns' /\ \A r \in Procs : HandOver(r)'
  BY <1>2, <1>7, <1>9, VmTurns
<1>11. Resting'
  BY <1>3, <1>7 DEF Resting
<1> QED
  BY <1>1, <1>7, <1>8, <1>10, <1>11, Unasked DEF MonitorInv

LEMMA StartKeeps ==
    ASSUME MonitorInv, Start
    PROVE  MonitorInv'
<1>1. /\ pc[Vm] = "start" /\ running = Vm /\ running' = Vm /\ UNCHANGED biosVars /\ "load" \in VmPcs
      /\ pc' = [pc EXCEPT ![Vm] = "load"] /\ active' = active \cup ({callee} \cap Procs)
  BY DEF Start, Go, WakesCallee, VmPcs
<1>2. UNCHANGED <<handVars, hwVars, vesaVars, inUse>>
  BY <1>1 DEF biosVars, handVars
<1>3. PICK q \in Procs : pc[q] = "answer"
  BY <1>1, VmRuns
<1>4. \A r \in Procs : pc[r] = "answer" => r = q
  BY <1>3, TurnPcs DEF MonitorInv, Turns
<1>5. Waits(q)
  <2>1. Answering(q)
    BY <1>1, <1>3, VmRuns, TurnPcs
  <2> QED
    BY <1>1, <2>1 DEF Answering
<1>6. active' = active \cup {q} /\ Vm \in active
  BY <1>1, <1>5, VmRuns DEF Waits
<1>7. Processor' /\ pc'[Vm] = "load" /\ \A r \in Procs : pc'[r] = pc[r]
  <2>1. active' \subseteq All /\ running' \in active' \cup {Nobody}
    BY <1>1, <1>6 DEF MonitorInv, Processor, All
  <2> QED
    BY <1>1, <2>1, VmMoves DEF MonitorInv
<1>8. Early'
  <2>1. q \in Users => pc[Boot] = "end" /\ Boot \notin active /\ q # Boot
    BY <1>3 DEF MonitorInv, Early, Users
  <2>2. q \notin Users => q = Boot /\ pc[Boot] # "end"
    BY <1>3 DEF Users
  <2> QED
    BY <1>6, <1>7, <2>1, <2>2, Constants DEF MonitorInv, Early, Users
<1>9. ModeTable' /\ Installing' /\ Display' /\ RealModes' = RealModes
  BY <1>2, <1>7, VmKept
<1>10. \A r \in Procs : pc[r] = "answer" => Answering(r)'
  <2>1. Waits(q)'
    BY <1>1, <1>5, Unasked
  <2> QED
    BY <1>4, <1>7, <2>1 DEF Answering
<1>11. Turns' /\ \A r \in Procs : HandOver(r)'
  BY <1>1, <1>2, <1>7, <1>10, VmTurns
<1>12. Resting'
  BY <1>3, <1>7 DEF Resting
<1> QED
  BY <1>1, <1>7, <1>8, <1>9, <1>11, <1>12, Unasked DEF MonitorInv

LEMMA LoadKeeps ==
    ASSUME MonitorInv, Load
    PROVE  MonitorInv'
<1>1. /\ pc[Vm] = "load" /\ GoOn(Vm, "run") /\ "run" \in VmPcs /\ vm' = ret
      /\ UNCHANGED <<inUse, complete, callee, ret, regs, hwVars, vesaVars>>
  BY DEF Load, VmPcs
<1>2. /\ running = Vm /\ running' = Vm /\ active' = active
      /\ Processor' /\ Early'
      /\ pc'[Vm] = "run" /\ \A q \in Procs : pc'[q] = pc[q]
  BY <1>1, VmGoesOn
<1>3. ModeTable' /\ Installing' /\ Display' /\ RealModes' = RealModes
           /\ \A q \in Procs : Question(q)' = Question(q) /\ (Shown(q)' <=> Shown(q))
  BY <1>1, <1>2, VmKept
<1>4. ASSUME NEW q \in Procs, pc[q] = "answer" PROVE Answering(q)'
  <2>1. Answering(q)
    BY <1>2, <1>4, VmRuns, TurnPcs
  <2>2. Waits(q)
    BY <1>1, <2>1 DEF Answering
  <2>3. vm'.asked = Question(q)'
    BY <1>1, <1>3, <2>2 DEF Waits
  <2> QED
    BY <1>2, <2>3 DEF Answering
<1>5. Turns' /\ \A q \in Procs : HandOver(q)'
  BY <1>1, <1>2, <1>4, VmTurns
<1>6. Resting'
  BY <1>1, <1>2, VmRuns DEF Resting
<1>7. Registers'
  BY <1>1 DEF MonitorInv, Registers, hwVars
<1> QED
  BY <1>2, <1>3, <1>5, <1>6, <1>7 DEF MonitorInv

-----------------------------------------------------------------------------
(* Every step                                                              *)

LEMMA KeyboardKeepsMonitor ==
    ASSUME MonitorInv, UNCHANGED <<cpuVars, biosVars>>
    PROVE  MonitorInv'
<1>1. UNCHANGED <<pc, running, active, handVars, hwVars, vesaVars, inUse>>
  BY DEF cpuVars, biosVars, handVars
<1>2. Processor' /\ Early' /\ Turns' /\ Registers' /\ RealModes' = RealModes
  BY <1>1, Unasked DEF MonitorInv, Processor, Early, Turns
<1>3. ModeTable' /\ Installing' /\ Display'
  BY <1>1, VmKept
<1>4. ASSUME NEW q \in Procs PROVE HandOver(q)'
  <2>1. /\ (Waits(q)' <=> Waits(q)) /\ (Shown(q)' <=> Shown(q)) /\ Question(q)' = Question(q)
        /\ (Replied(q, vm)' <=> Replied(q, vm)) /\ (Replied(q, ret)' <=> Replied(q, ret))
        /\ (Replied(q, regs[q])' <=> Replied(q, regs[q]))
    BY <1>1, Unasked
  <2>2. UNCHANGED <<pc, active, vm, mapped, modes, want>>
    BY <1>1 DEF handVars, vesaVars
  <2>3. Answering(q) => Answering(q)'
    BY <2>1, <2>2 DEF Answering
  <2> QED
    BY <2>1, <2>2, <2>3 DEF MonitorInv, HandOver
<1>5. Resting'
  BY <1>1 DEF MonitorInv, Resting
<1> QED
  BY <1>2, <1>3, <1>4, <1>5 DEF MonitorInv

LEMMA CallsKeepMonitor ==
    ASSUME MonitorInv, Programmed, NEW p \in Users, QuietStep(p)
    PROVE  MonitorInv'
<1>1. p \in Procs /\ p # Boot
  BY DEF Users
<1>2. CASE ReadTty(p)
  <2>1. PICK to \in Out : GoOn(p, to) /\ pc[p] \in Out /\ UNCHANGED biosVars
    BY <1>2 DEF ReadTty, Calling, Out
  <2> QED
    BY <2>1, GoesAside
<1>3. CASE TestChar(p)
  <2>1. CASE mailbox = None
    <3>1. running = p /\ Give(p, active) /\ pc' = pc /\ pc[p] = "test" /\ UNCHANGED biosVars
      BY <1>3, <2>1 DEF TestChar, Yield
    <3>2. pc' = [pc EXCEPT ![p] = "test"]
      BY <1>1, <3>1 DEF MonitorInv, Processor, All
    <3> QED
      BY <1>1, <3>1, <3>2, GivesAside
  <2>2. CASE mailbox # None
    <3>1. GoOn(p, "take") /\ pc[p] \in Out /\ UNCHANGED biosVars /\ "take" \in Out
      BY <1>3, <2>2 DEF TestChar, Out
    <3> QED
      BY <3>1, GoesAside
  <2> QED
    BY <2>1, <2>2
<1>4. CASE Take(p) \/ Clear(p)
  <2>1. PICK to \in Out : GoOn(p, to) /\ pc[p] \in Out /\ UNCHANGED biosVars
    BY <1>4 DEF Take, Clear, Out
  <2> QED
    BY <2>1, GoesAside
<1>5. CASE Warning(p) \/ Warned(p) \/ QuietWrite(p) \/ QuietDraw(p)
  <2>1. PICK to \in Out : GoOn(p, to) /\ pc[p] \in Out /\ UNCHANGED biosVars
    BY <1>5 DEF Warning, Warned, QuietWrite, WriteTty, QuietDraw, Draw, Calling, Out
  <2> QED
    BY <2>1, GoesAside
<1>6. CASE Set(p)
  BY <1>6, SetKeeps DEF Programmed
<1>7. CASE Exit(p)
  <2>1. /\ pc[p] = "user" /\ running = p /\ pc' = [pc EXCEPT ![p] = "end"] /\ Give(p, active \ {p}) /\ UNCHANGED biosVars
        /\ active \ {p} \in SUBSET active
    BY <1>7 DEF Exit, Go
  <2> QED
    BY <1>1, <2>1, GivesAside
<1>8. CASE Asks(p)
  BY <1>1, <1>8, LockKeeps, LockedKeeps, AskKeeps, WakeKeeps, SleepKeeps, AnswerKeeps DEF Asks
<1>9. CASE Sets(p)
  BY <1>9, SetDoneKeeps, MapKeeps, RecordKeeps DEF Sets
<1> QED
  BY <1>2, <1>3, <1>4, <1>5, <1>6, <1>7, <1>8, <1>9 DEF QuietStep, Others

LEMMA NextMonitor ==
    ASSUME MonitorInv, Programmed, [QuietNext]_vars
    PROVE  MonitorInv'
<1>1. CASE Keyboard \/ UNCHANGED vars
  <2>1. UNCHANGED <<cpuVars, biosVars>>
    BY <1>1 DEF Keyboard, vars
  <2> QED
    BY <2>1, KeyboardKeepsMonitor
<1>2. CASE \E p \in Users : QuietStep(p)
  BY <1>2, CallsKeepMonitor
<1>3. CASE BootStep
  <2>1. Installs \/ Asks(Boot) \/ StartUsers
    BY <1>3 DEF BootStep
  <2> QED
    BY <2>1, Constants, ForkedKeeps, GotInfoKeeps, GotModeKeeps, InstallDoneKeeps, StartUsersKeeps,
       LockKeeps, LockedKeeps, AskKeeps, WakeKeeps, SleepKeeps, AnswerKeeps
    DEF Installs, Asks
<1>4. CASE MonitorStep
  BY <1>4, RunKeeps, DoneKeeps, RestKeeps, CheckKeeps, StartKeeps, LoadKeeps DEF MonitorStep, Monitor
<1>5. CASE QuietTimer
  BY <1>5, TimerKeeps DEF QuietTimer, Timer
<1> QED
  BY <1>1, <1>2, <1>3, <1>4, <1>5 DEF QuietNext

LEMMA InitMonitor == Init => MonitorInv
<1> SUFFICES ASSUME Init PROVE MonitorInv
  OBVIOUS
<1>1. /\ Vm \in All /\ Boot \in All /\ Vm # Boot /\ Boot \in Procs /\ Vm \notin Users
      /\ \A q \in Procs : q \in All /\ q # Vm
  BY Constants DEF All, Users
<1>2. /\ running = Boot /\ active = {Boot, Vm} /\ inUse = FALSE /\ complete = TRUE
      /\ ret = [asked |-> [fn |-> "none", code |-> 0], done |-> FALSE, ok |-> FALSE]
      /\ vm = ret /\ regs = [p \in Procs |-> ret] /\ modeinfo = Garbage /\ vbe \in HasVbe
      /\ modes = <<>> /\ mode = -1 /\ want = [p \in Procs |-> 0]
      /\ pc = [p \in All |-> IF p = Boot THEN "fork" ELSE IF p = Vm THEN "done" ELSE "user"]
  BY DEF Init, BiosInit
<1>3. pc[Boot] = "fork" /\ pc[Vm] = "done" /\ \A p \in Users : pc[p] = "user" /\ p # Boot
  BY <1>1, <1>2 DEF Users
<1>4. \A p \in Procs : pc[p] \notin Turn
  BY <1>3, TurnPcs DEF Users
<1>5. Processor
  <2>1. pc \in [All -> BootPcs \cup UserPcs \cup VmPcs]
    BY <1>2 DEF BootPcs, UserPcs, VmPcs
  <2>2. pc[Boot] \in BootPcs /\ pc[Vm] \in VmPcs /\ \A p \in Users : pc[p] \in UserPcs
    BY <1>3 DEF BootPcs, UserPcs, VmPcs
  <2>3. \A p \in Procs : pc[p] \in Held => running = p
    BY <1>2, <1>3 DEF Users, Held
  <2> QED
    BY <1>1, <1>2, <1>3, <2>1, <2>2, <2>3 DEF Processor, HeldVm
<1>6. Early
  BY <1>1, <1>2, <1>3 DEF Early, Users
<1>7. Turns
  BY <1>4 DEF Turns, Turn, Inside, Between
<1>8. Registers
  BY <1>2, Constants DEF Registers, Replies
<1>9. \A p \in Procs : HandOver(p)
  BY <1>4, TurnPcs DEF HandOver
<1>10. Resting
  BY <1>3, <1>4 DEF Resting
<1>11. DOMAIN modes = {} /\ RealModes = {}
  BY <1>2 DEF RealModes
<1>12. ModeTable
  BY <1>2, <1>3, <1>11, TurnPcs DEF ModeTable
<1>13. Installing
  BY <1>1, <1>2, <1>3 DEF Installing
<1>14. Display
  BY <1>11 DEF Display
<1> QED
  BY <1>5, <1>6, <1>7, <1>8, <1>9, <1>10, <1>12, <1>13, <1>14 DEF MonitorInv

-----------------------------------------------------------------------------
(* Cursors                                                                 *)

LessNat == {ss \in Nat \X Nat : ss[1] < ss[2]}

LEMMA LeastExists ==
    ASSUME NEW S \in SUBSET Nat, S # {}
    PROVE  \E x \in S : \A y \in S : x <= y
<1>1. IsWellFoundedOn(LessNat, Nat)
  BY NatLessThanWellFounded DEF OpToRel, LessNat
<1>2. \E x \in S : \A y \in S : ~ (<<y, x>> \in LessNat)
  BY <1>1, WFMin, Zenon
<1>3. PICK x \in S : \A y \in S : ~ (<<y, x>> \in LessNat)
  BY <1>2
<1>4. ASSUME NEW y \in S, y < x PROVE FALSE
  <2>1. <<y, x>> \in Nat \X Nat /\ <<y, x>>[1] < <<y, x>>[2]
    BY <1>4
  <2> QED
    BY <1>3, <2>1 DEF LessNat
<1> QED
  BY <1>3, <1>4

(* What a backspace stops at is one of the cells it may stop at.           *)
LEMMA MaxMember ==
    ASSUME NEW S, NEW b \in Int, S # {}, \A x \in S : x \in Int /\ x <= b
    PROVE  Max(S) \in S
<1> DEFINE T == {b - x : x \in S}
<1>1. T \in SUBSET Nat /\ T # {}
  OBVIOUS
<1>2. PICK t \in T : \A y \in T : t <= y
  BY <1>1, LeastExists
<1>3. PICK x \in S : t = b - x
  BY <1>2
<1>4. \A y \in S : x >= y
  <2> SUFFICES ASSUME NEW y \in S PROVE x >= y
    OBVIOUS
  <2>1. b - y \in T
    OBVIOUS
  <2>2. t <= b - y
    BY <1>2, <2>1
  <2> HIDE DEF T
  <2> QED
    BY <1>3, <2>2
<1> QED
  BY <1>4 DEF Max

LEMMA Multiples ==
    ASSUME NEW d \in Nat \ {0}, NEW n \in Nat, n % d = 0
    PROVE  n = d * (n \div d) /\ n \div d \in Nat
OBVIOUS

(* The next stop is no further than the next of what consists of stops.    *)
LEMMA NextStop ==
    ASSUME NEW d \in Nat \ {0}, NEW m \in Nat, NEW k \in Nat, k < d * m
    PROVE  /\ d * (k \div d + 1) \in Nat
           /\ d * (k \div d + 1) > k
           /\ d * (k \div d + 1) <= d * m
<1>1. PICK q \in Nat : q = k \div d
  OBVIOUS
<1>2. d * q <= k /\ k < d * q + d
  BY <1>1
<1>3. q < m
  <2>1. SUFFICES ASSUME q >= m PROVE FALSE
    OBVIOUS
  <2>2. d * q >= d * m
    BY <2>1
  <2>3. d * q \in Nat /\ d * m \in Nat
    OBVIOUS
  <2> QED
    BY <1>2, <2>2, <2>3
<1>4. d * (q + 1) <= d * m
  BY <1>3
<1>5. d * (q + 1) = d * q + d /\ d * q \in Nat
  OBVIOUS
<1> QED
  BY <1>1, <1>2, <1>4, <1>5

LEMMA Stops ==
    /\ \A k \in 0 .. TermSize - 1 : AfterTab(k) \in 1 .. TermSize /\ NextLine(k) \in 1 .. TermSize
    /\ \A k \in 0 .. Rows * Width - 1 : AfterTab(k) \in 1 .. Rows * Width /\ NextLine(k) \in 1 .. Rows * Width
<1>1. Width \in Nat \ {0} /\ Tab \in Nat \ {0} /\ Rows \in Nat \ {0} /\ TermSize \in Nat \ {0}
  BY TerminalConstants
<1>2. PICK c \in Nat : Width = Tab * c
  BY <1>1, Multiples, TerminalConstants
<1>3. PICK e \in Nat : TermSize = Width * e
  BY <1>1, Multiples, TerminalConstants
<1>4. c * e \in Nat /\ Rows * c \in Nat /\ TermSize = Tab * (c * e) /\ Rows * Width = Tab * (Rows * c)
  BY <1>1, <1>2, <1>3
<1>5. Rows * Width = Width * Rows
  BY <1>1
<1>6. ASSUME NEW k \in 0 .. TermSize - 1 PROVE AfterTab(k) \in 1 .. TermSize /\ NextLine(k) \in 1 .. TermSize
  <2>1. k \in Nat /\ k < TermSize
    BY <1>1
  <2>2. AfterTab(k) \in Nat /\ AfterTab(k) > k /\ AfterTab(k) <= TermSize
    BY <1>1, <1>4, <2>1, NextStop DEF AfterTab
  <2>3. NextLine(k) \in Nat /\ NextLine(k) > k /\ NextLine(k) <= TermSize
    BY <1>1, <1>3, <2>1, NextStop DEF NextLine
  <2> QED
    BY <1>1, <2>1, <2>2, <2>3
<1>7. ASSUME NEW k \in 0 .. Rows * Width - 1 PROVE AfterTab(k) \in 1 .. Rows * Width /\ NextLine(k) \in 1 .. Rows * Width
  <2>1. PICK n \in Nat : n = Rows * Width
    BY <1>1
  <2>2. k \in Nat /\ k < n
    BY <2>1
  <2>3. AfterTab(k) \in Nat /\ AfterTab(k) > k /\ AfterTab(k) <= n
    BY <1>1, <1>4, <2>1, <2>2, NextStop DEF AfterTab
  <2>4. NextLine(k) \in Nat /\ NextLine(k) > k /\ NextLine(k) <= n
    BY <1>1, <1>5, <2>1, <2>2, NextStop DEF NextLine
  <2> QED
    BY <2>1, <2>2, <2>3, <2>4
<1> QED
  BY <1>6, <1>7

(* A terminal wraps around, the screen scrolls.                            *)
OfTerminal(v) == DOMAIN v = {"pos", "flags", "zeros"} /\ v.pos \in 0 .. TermSize - 1
OfScreen(s) ==
    /\ DOMAIN s = {"cursor", "attrib", "saved", "zeros"}
    /\ s.cursor \in Cells /\ s.zeros \subseteq Cells

LEMMA TypedPos ==
    ASSUME NEW v, NEW c, OfTerminal(v)
    PROVE  /\ OfTerminal(Wrapped(Typed(v, c)))
           /\ Wrapped(Typed(v, c)).flags = v.flags
<1>1. PICK w : w = Typed(v, c)
  OBVIOUS
<1>2. PICK k \in 0 .. TermSize - 1 : k = v.pos
  BY DEF OfTerminal
<1>3. TermSize \in Nat \ {0}
  BY TerminalConstants
<1>4. DOMAIN w = {"pos", "flags", "zeros"} /\ w.flags = v.flags /\ w.pos \in 0 .. TermSize
  <2>1. CASE c = "backspace"
    <3>1. DOMAIN w = {"pos", "flags", "zeros"} /\ w.flags = v.flags /\ w.pos = StepBack(v)
      BY <1>1, <2>1 DEF Typed, OfTerminal
    <3>2. StepBack(v) \in 0 .. TermSize
      <4>1. CASE k = 0
        BY <1>2, <1>3, <4>1 DEF StepBack
      <4>2. CASE k # 0
        <5> DEFINE S == {j \in 0 .. k - 1 : j = 0 \/ j \notin v.zeros}
        <5>1. 0 \in S /\ \A j \in S : j \in Int /\ j <= k - 1
          BY <1>2, <4>2
        <5>2. Max(S) \in S
          <6>1. PICK b \in Int : b = k - 1
            BY <1>2
          <6>2. S # {} /\ \A j \in S : j \in Int /\ j <= b
            BY <5>1, <6>1
          <6> HIDE DEF S
          <6> QED
            BY <6>2, MaxMember
        <5>3. StepBack(v) = 1 + Max(S)
          BY <1>2, <4>2 DEF StepBack
        <5>4. Max(S) \in 0 .. k - 1
          BY <5>2
        <5> QED
          BY <1>2, <1>3, <5>3, <5>4
      <4> QED
        BY <4>1, <4>2
    <3> QED
      BY <3>1, <3>2
  <2>2. CASE c = "tab" \/ c = "newline"
    <3>1. PICK to \in 0 .. TermSize : w = Filled(v, to)
      <4>1. AfterTab(k) \in 0 .. TermSize /\ NextLine(k) \in 0 .. TermSize
        BY Stops
      <4> QED
        BY <1>1, <1>2, <2>2, <4>1 DEF Typed
    <3> QED
      BY <3>1 DEF Filled, OfTerminal
  <2>3. CASE c \notin {"backspace", "tab", "newline"}
    <3>1. w = [v EXCEPT !.pos = @ + 1, !.zeros = @ \ {v.pos}]
      BY <1>1, <2>3 DEF Typed
    <3>2. DOMAIN w = {"pos", "flags", "zeros"} /\ w.flags = v.flags /\ w.pos = k + 1
      BY <1>2, <3>1 DEF OfTerminal
    <3> QED
      BY <1>3, <3>2
  <2> QED
    BY <2>1, <2>2, <2>3
<1>5. OfTerminal(Wrapped(w)) /\ Wrapped(w).flags = w.flags
  <2>1. CASE w.pos >= TermSize
    BY <1>3, <1>4, <2>1 DEF Wrapped, OfTerminal
  <2>2. CASE ~ (w.pos >= TermSize)
    BY <1>3, <1>4, <2>2 DEF Wrapped, OfTerminal
  <2> QED
    BY <2>1, <2>2
<1> QED
  BY <1>1, <1>4, <1>5

LEMMA Scrolled ==
    ASSUME NEW s, DOMAIN s = {"cursor", "attrib", "saved", "zeros"}, s.cursor \in 0 .. Rows * Width,
           s.zeros \subseteq Cells
    PROVE  /\ OfScreen(Scroll(s))
           /\ Scroll(s).attrib = s.attrib /\ Scroll(s).saved = s.saved
<1>1. Width \in Nat \ {0} /\ Rows \in Nat \ {0}
  BY TerminalConstants
<1>2. PICK n \in Nat : n = Rows * Width
  BY <1>1
<1>3. PICK k \in 0 .. n : k = s.cursor
  BY <1>2
<1>4. CASE k < n
  <2>1. Scroll(s) = s
    BY <1>2, <1>3, <1>4 DEF Scroll
  <2> QED
    BY <1>2, <1>3, <1>4, <2>1 DEF OfScreen, Cells
<1>5. CASE k = n
  <2>1. k \div Width = Rows /\ k % Width = 0
    <3>1. PICK r \in Nat \ {0}, w \in Nat \ {0} : r = Rows /\ w = Width
      BY <1>1
    <3>2. k = w * r
      BY <1>1, <1>2, <1>5, <3>1
    <3>3. (w * r) \div w = r /\ (w * r) % w = 0
      OBVIOUS
    <3> QED
      BY <3>1, <3>2, <3>3
  <2>2. PICK b : b = k \div Width - Rows + 1
    OBVIOUS
  <2>3. b = 1 /\ b * Width = Width
    BY <1>1, <2>1, <2>2
  <2>4. PICK z : /\ Scroll(s) = [s EXCEPT !.cursor = (k % Width) + (Rows - 1) * Width, !.zeros = z]
                 /\ z = {x - b * Width : x \in {j \in s.zeros : j >= b * Width}}
    <3>1. ~ (s.cursor < Rows * Width)
      BY <1>2, <1>3, <1>5
    <3> QED
      BY <1>3, <2>2, <3>1 DEF Scroll
  <2>5. (k % Width) + (Rows - 1) * Width = n - Width /\ n - Width \in 0 .. n - 1
    <3>1. (Rows - 1) * Width = n - Width /\ (Rows - 1) * Width \in Nat
      BY <1>1, <1>2
    <3> QED
      BY <1>1, <1>2, <2>1, <3>1
  <2>6. z \subseteq 0 .. n - 1
    BY <1>1, <1>2, <2>3, <2>4 DEF Cells
  <2>7. /\ Scroll(s).cursor = n - Width /\ Scroll(s).zeros = z
        /\ DOMAIN Scroll(s) = {"cursor", "attrib", "saved", "zeros"}
        /\ Scroll(s).attrib = s.attrib /\ Scroll(s).saved = s.saved
    BY <2>4, <2>5
  <2> QED
    BY <1>2, <2>5, <2>6, <2>7 DEF OfScreen, Cells
<1> QED
  BY <1>3, <1>4, <1>5

LEMMA PutchScreen ==
    ASSUME NEW s, NEW c, OfScreen(s), c = "backspace" => s.cursor > 0
    PROVE  /\ OfScreen(Putch(s, c))
           /\ Putch(s, c).attrib = s.attrib /\ Putch(s, c).saved = s.saved
<1>1. Width \in Nat \ {0} /\ Tab \in Nat \ {0} /\ Rows \in Nat \ {0}
  BY TerminalConstants
<1>2. PICK n \in Nat : n = Rows * Width
  BY <1>1
<1>3. PICK k \in 0 .. n - 1 : k = s.cursor
  BY <1>2 DEF OfScreen, Cells
<1>4. PICK w : w = Put(s, c)
  OBVIOUS
<1>5. /\ DOMAIN w = {"cursor", "attrib", "saved", "zeros"} /\ w.attrib = s.attrib /\ w.saved = s.saved
      /\ w.cursor \in 0 .. n /\ w.zeros \subseteq Cells
  <2>1. CASE c = "backspace"
    <3>1. k > 0 /\ w = Before(s)
      BY <1>3, <1>4, <2>1 DEF Put
    <3>2. PICK at : at = s.cursor - 1
      OBVIOUS
    <3>3. at = k - 1 /\ ~ (at < 0) /\ at \in Int
      BY <1>3, <3>1, <3>2
    <3>4. PICK zs : zs = s.zeros \ {at}
      OBVIOUS
    <3> DEFINE S == {j \in -1 .. at - 1 : j = -1 \/ j \notin zs}
    <3>5. w = [s EXCEPT !.cursor = 1 + Max(S), !.zeros = zs]
      <4>1. w = [s EXCEPT !.cursor = IF at < 0 THEN at ELSE 1 + Max(S), !.zeros = zs]
        BY <3>1, <3>2, <3>4, Zenon DEF Before
      <4>2. (IF at < 0 THEN at ELSE 1 + Max(S)) = 1 + Max(S)
        BY <3>3
      <4> QED
        BY <4>1, <4>2, Zenon
    <3>6. Max(S) \in -1 .. k - 2
      <4>1. PICK b \in Int : b = k - 2
        OBVIOUS
      <4>2. -1 \in S /\ \A j \in S : j \in Int /\ j <= b /\ j >= -1
        <5>1. -1 \in -1 .. at - 1
          BY <3>3
        <5> QED
          BY <3>3, <4>1, <5>1
      <4> HIDE DEF S
      <4>3. Max(S) \in S
        BY <4>2, MaxMember
      <4> QED
        BY <4>1, <4>2, <4>3
    <3> HIDE DEF S
    <3>7. w.cursor = 1 + Max(S) /\ w.zeros = zs
      BY <3>5 DEF OfScreen
    <3>8. w.cursor \in 0 .. n /\ w.zeros \subseteq Cells
      BY <1>3, <3>6, <3>7, <3>4 DEF OfScreen
    <3> QED
      BY <3>5, <3>8 DEF OfScreen
  <2>2. CASE c = "tab"
    <3>1. w = PutTab(s)
      BY <1>4, <2>2 DEF Put
    <3>2. AfterTab(k) \in 0 .. n
      BY <1>2, Stops
    <3>3. PICK zs \in SUBSET Cells : w = [s EXCEPT !.cursor = AfterTab(k), !.zeros = zs]
      BY <1>3, <3>1 DEF PutTab, OfScreen
    <3> QED
      BY <3>2, <3>3 DEF OfScreen
  <2>3. CASE c = "newline"
    <3>1. w = [s EXCEPT !.cursor = NextLine(k)]
      BY <1>3, <1>4, <2>3 DEF Put
    <3>2. NextLine(k) \in 0 .. n
      BY <1>2, Stops
    <3> QED
      BY <3>1, <3>2 DEF OfScreen
  <2>4. CASE c \notin {"backspace", "tab", "newline"}
    <3>1. w = [s EXCEPT !.cursor = k + 1, !.zeros = @ \ {k}]
      BY <1>3, <1>4, <2>4 DEF Put
    <3> QED
      BY <3>1 DEF OfScreen
  <2> QED
    BY <2>1, <2>2, <2>3, <2>4
<1>6. Putch(s, c) = Scroll(w)
  BY <1>4 DEF Putch
<1> QED
  BY <1>2, <1>5, <1>6, Scrolled

-----------------------------------------------------------------------------
(* The keyboard                                                            *)

(* What the interrupt does to keys and mailbox.                            *)
LEMMA KeyReleased ==
    ASSUME KeyStates, NEW ch, Release(ch)
    PROVE  KeyStates' /\ UNCHANGED <<mailbox, typed>>
<1>1. PICK h : h = keys.held \ {ch}
  OBVIOUS
<1>2. PICK b \in BOOLEAN : b <=> keys.shift /\ h \cap Shifts # {}
  OBVIOUS
<1>3. keys' = [keys EXCEPT !.layer = 0, !.held = h, !.shift = b]
  <2>1. (keys.shift /\ h \cap Shifts # {}) = b
    BY <1>2
  <2> QED
    BY <1>1, <2>1, Zenon DEF Release
<1>4. pressed' = [pressed EXCEPT !.down = @ \ {ch}] /\ UNCHANGED <<mailbox, typed>>
  BY Zenon DEF Release
<1>5. /\ DOMAIN keys' = {"layer", "held", "shift", "caps"} /\ DOMAIN pressed' = {"down", "caps"}
      /\ keys'.held = h /\ keys'.shift = b /\ keys'.caps = keys.caps
      /\ pressed'.down = pressed.down \ {ch} /\ pressed'.caps = pressed.caps
  BY <1>3, <1>4 DEF KeyStates
<1>6. b <=> h \cap Shifts # {}
  BY <1>1, <1>2 DEF KeyStates
<1> QED
  BY <1>1, <1>4, <1>5, <1>6 DEF KeyStates

LEMMA KeyPressed ==
    ASSUME KeyStates, NEW ch, Press(ch)
    PROVE  /\ KeyStates'
           /\ IF ch \in Printable
              THEN \E b \in BOOLEAN : /\ mailbox' = [n |-> Len(typed) + 1, ch |-> ch, capital |-> b]
                                      /\ typed' = Append(typed, [ch |-> ch, capital |-> b])
              ELSE UNCHANGED <<mailbox, typed>>
<1>1. PICK b \in BOOLEAN : b <=> keys.shift \/ IsShift(ch)
  OBVIOUS
<1>2. PICK c \in BOOLEAN : c <=> keys.caps # (ch = Caps)
  OBVIOUS
<1> DEFINE k == [keys EXCEPT !.layer = 0, !.held = @ \cup {ch}, !.shift = @ \/ IsShift(ch), !.caps = Toggled(ch)]
<1>3. k = [keys EXCEPT !.layer = 0, !.held = @ \cup {ch}, !.shift = b, !.caps = c]
  <2>1. (keys.shift \/ IsShift(ch)) = b /\ Toggled(ch) = c
    BY <1>1, <1>2 DEF Toggled
  <2> QED
    BY <2>1, Zenon
<1>4. /\ DOMAIN k = {"layer", "held", "shift", "caps"}
      /\ k.held = keys.held \cup {ch} /\ k.shift = b /\ k.caps = c
  <2> HIDE DEF k
  <2> QED
    BY <1>3 DEF KeyStates
<1>5. keys' = k /\ pressed' = [down |-> pressed.down \cup {ch}, caps |-> pressed.caps # (ch = Caps)]
  BY Zenon DEF Press
<1>6. pressed'.down = pressed.down \cup {ch} /\ pressed'.caps = c /\ DOMAIN pressed' = {"down", "caps"}
  <2>1. (pressed.caps # (ch = Caps)) = c
    BY <1>2 DEF KeyStates
  <2> QED
    BY <1>5, <2>1, Zenon
<1>7. KeyStates'
  <2> HIDE DEF k
  <2> QED
    BY <1>1, <1>4, <1>5, <1>6 DEF KeyStates, IsShift
<1>8. CASE ch \in Printable
  <2>1. /\ mailbox' = [n |-> Len(typed) + 1, ch |-> ch, capital |-> k.shift # k.caps]
        /\ typed' = Append(typed, [ch |-> ch, capital |-> Capital])
    BY <1>8, Zenon DEF Press
  <2>2. PICK d \in BOOLEAN : d <=> (b # c)
    OBVIOUS
  <2>3. (k.shift # k.caps) = d
    <3> HIDE DEF k
    <3> QED
      BY <1>4, <2>2
  <2>4. Capital = d
    <3>1. b <=> (\E x \in pressed.down : IsShift(x))
      BY <1>1, <1>8, TerminalConstants DEF KeyStates, IsShift
    <3>2. c = pressed.caps
      BY <1>2, <1>8, TerminalConstants DEF KeyStates
    <3> QED
      BY <2>2, <3>1, <3>2 DEF Capital
  <2> QED
    BY <1>7, <1>8, <2>1, <2>3, <2>4
<1>9. CASE ch \notin Printable
  BY <1>7, <1>9, Zenon DEF Press
<1> QED
  BY <1>8, <1>9

LEMMA Handled ==
    ASSUME KeyStates, NEW code, Handle(code)
    PROVE  /\ KeyStates'
           /\ \/ UNCHANGED <<mailbox, typed>>
              \/ mailbox' = [n |-> 0, ch |-> "ack", capital |-> FALSE] /\ typed' = typed
              \/ \E b \in BOOLEAN, ch \in Printable :
                    /\ mailbox' = [n |-> Len(typed) + 1, ch |-> ch, capital |-> b]
                    /\ typed' = Append(typed, [ch |-> ch, capital |-> b])
<1>1. CASE code.key = "ack"
  <2>1. mailbox' = [n |-> 0, ch |-> "ack", capital |-> FALSE] /\ UNCHANGED <<keys, pressed, typed>>
    BY <1>1 DEF Handle
  <2> QED
    BY <2>1 DEF KeyStates
<1>2. CASE code.key \in {"E0", "E1"}
  <2>1. PICK l : keys' = [keys EXCEPT !.layer = l] /\ UNCHANGED <<mailbox, pressed, typed>>
    BY <1>2 DEF Handle
  <2>2. DOMAIN keys' = DOMAIN keys /\ keys'.held = keys.held /\ keys'.shift = keys.shift /\ keys'.caps = keys.caps
    BY <2>1 DEF KeyStates
  <2> QED
    BY <2>1, <2>2 DEF KeyStates
<1>3. CASE code.key \notin {"ack", "E0", "E1"}
  <2>1. Release(Code(keys.layer, code.key)) \/ Press(Code(keys.layer, code.key))
    BY <1>3 DEF Handle
  <2>2. PICK ch : Release(ch) \/ Press(ch)
    BY <2>1
  <2> QED
    BY <2>2, KeyReleased, KeyPressed
<1> QED
  BY <1>1, <1>2, <1>3

(* Typing goes on while a process reads.                                   *)
LEMMA KeyArrives ==
    ASSUME Mailbox, NEW b \in BOOLEAN, NEW ch \in Printable,
           mailbox' = [n |-> Len(typed) + 1, ch |-> ch, capital |-> b],
           typed' = Append(typed, [ch |-> ch, capital |-> b]),
           UNCHANGED <<taken, pc, left>>
    PROVE  Mailbox'
<1>1. PICK k \in Keystrokes : k = [ch |-> ch, capital |-> b]
  BY DEF Keystrokes
<1>2. PICK n \in Nat : n = Len(typed)
  BY DEF Mailbox
<1>3. /\ typed' \in Seq(Keystrokes) /\ Len(typed') = n + 1 /\ typed'[n + 1] = k
      /\ \A i \in 1 .. n : typed'[i] = typed[i]
  BY <1>1, <1>2, AppendProperties DEF Mailbox
<1>4. taken' = taken /\ Keys' = Keys /\ \A i \in Keys : taken[i] \in Mails /\ taken[i].n # 0
  BY DEF Mailbox, Keys
<1>5. ASSUME NEW i \in Keys
      PROVE  taken[i].n \in 1 .. n /\ typed[taken[i].n] = [ch |-> taken[i].ch, capital |-> taken[i].capital]
  <2>1. taken[i] \in Mails /\ taken[i].n # 0
    BY <1>4
  <2>2. OfTyped(taken[i])
    BY DEF Mailbox
  <2>3. taken[i].n \in Nat
    BY <2>1 DEF Mails
  <2> QED
    BY <1>2, <2>1, <2>2, <2>3 DEF OfTyped
<1>6. \A i \in Keys' : OfTyped(taken[i])'
  BY <1>3, <1>4, <1>5 DEF OfTyped
<1>7. mailbox' \in Mails /\ mailbox'.n = n + 1 /\ OfTyped(mailbox)'
  <2>1. mailbox' = [n |-> n + 1, ch |-> ch, capital |-> b]
    BY <1>2
  <2> QED
    BY <1>1, <1>3, <2>1 DEF Mails, OfTyped
<1>8. Fresh'
  <2>1. ASSUME NEW i \in Keys PROVE taken[i].n < n + 1
    <3>1. taken[i].n \in 1 .. n
      BY <1>5
    <3> QED
      BY <1>2, <3>1
  <2>2. taken' = taken /\ mailbox'.n = n + 1
    BY <1>4, <1>7
  <2> QED
    BY <1>4, <2>1, <2>2 DEF Fresh
<1> QED
  BY <1>3, <1>4, <1>6, <1>7, <1>8 DEF Mailbox

LEMMA KeyboardKeeps ==
    ASSUME TerminalInv, Keyboard
    PROVE  TerminalInv'
<1>1. PICK code : Handle(code)
  BY DEF Keyboard
<1>2. UNCHANGED <<pc, taken, vt, screen, todo, left>>
  BY DEF Keyboard, cpuVars
<1>3. KeyStates /\ Mailbox
  BY DEF TerminalInv
<1>4. Mailbox'
  <2>1. CASE UNCHANGED <<mailbox, typed>>
    BY <1>2, <1>3, <2>1 DEF Mailbox, Fresh, Keys, OfTyped
  <2>2. CASE mailbox' = [n |-> 0, ch |-> "ack", capital |-> FALSE] /\ typed' = typed
    <3>1. mailbox' \in Mails /\ mailbox'.n = 0
      BY <2>2 DEF Mails
    <3>2. OfTyped(mailbox)' /\ Fresh'
      BY <3>1 DEF OfTyped, Fresh
    <3> QED
      BY <1>2, <1>3, <2>2, <3>1, <3>2 DEF Mailbox, Keys, OfTyped
  <2>3. CASE \E b \in BOOLEAN, ch \in Printable :
                /\ mailbox' = [n |-> Len(typed) + 1, ch |-> ch, capital |-> b]
                /\ typed' = Append(typed, [ch |-> ch, capital |-> b])
    BY <1>2, <1>3, <2>3, KeyArrives
  <2> QED
    BY <1>1, <1>3, <2>1, <2>2, <2>3, Handled
<1> QED
  BY <1>1, <1>2, <1>3, <1>4, Handled DEF TerminalInv, Terminals, Attributes, Programmed

-----------------------------------------------------------------------------
(* Reading                                                                 *)

Reading == {"test", "take", "clear"}

(* Elsewhere than in tty_read() nothing happens to the mailbox.            *)
LEMMA MailboxKept ==
    ASSUME Mailbox, UNCHANGED keyVars, UNCHANGED <<taken, left>>,
           \A q \in Users : pc[q] \in Reading \/ pc'[q] \in Reading => pc'[q] = pc[q]
    PROVE  Mailbox'
<1>1. UNCHANGED <<mailbox, typed, taken, left>>
  BY DEF keyVars
<1>2. \A q \in Users : /\ pc'[q] = "take" <=> pc[q] = "take"
                       /\ pc'[q] = "clear" <=> pc[q] = "clear"
                       /\ pc'[q] = "test" <=> pc[q] = "test"
  BY DEF Reading
<1> QED
  BY <1>1, <1>2 DEF Mailbox, Keys, Fresh, OfTyped

(* Who is at the mailbox is alone there.                                   *)
LEMMA AloneThere ==
    ASSUME Processor, NEW p \in Users, running = p
    PROVE  \A q \in Users : q # p => pc[q] \notin {"take", "clear", "warn", "warned"}
BY DEF Processor, Held, Users

LEMMA Steps ==
    ASSUME Processor, NEW p \in Users, NEW to, GoOn(p, to)
    PROVE  /\ running = p /\ pc'[p] = to /\ \A q \in Users : q # p => pc'[q] = pc[q]
           /\ \A q \in Users : q # p => pc'[q] \notin {"take", "clear", "warn", "warned"}
<1>1. running = p /\ pc'[p] = to /\ \A q \in Users : q # p => pc'[q] = pc[q]
  BY DEF GoOn, Go, Processor, Users, All
<1> QED
  BY <1>1, AloneThere

LEMMA ReadTtyMailbox ==
    ASSUME Processor, Mailbox, Programmed, NEW p \in Users, ReadTty(p)
    PROVE  Mailbox' /\ Programmed'
<1>1. todo[p] \in Seq(Calls) /\ todo[p] # <<>> /\ Doing(p).do = "read" /\ pc[p] = "user"
  BY DEF ReadTty, Calling, Doing, Programmed
<1>2. Doing(p) \in Calls /\ Tail(todo[p]) \in Seq(Calls)
  BY <1>1, HeadTailProperties DEF Doing
<1>3. Doing(p).len \in Nat
  BY <1>1, <1>2 DEF Calls
<1>4. PICK l \in Nat : l = Doing(p).len
  BY <1>3
<1>5. left' = [left EXCEPT ![p] = l] /\ todo' = [todo EXCEPT ![p] = Tail(todo[p])]
  BY <1>4 DEF ReadTty, Begun
<1>6. Programmed'
  BY <1>2, <1>5 DEF Programmed
<1>7. PICK to : GoOn(p, to) /\ to \in {"test", "user"} /\ (to = "test" => l > 0)
  BY <1>4 DEF ReadTty
<1>8. /\ pc'[p] = to /\ \A q \in Users : q # p => pc'[q] = pc[q] /\ left'[q] = left[q]
      /\ left'[p] = l
  BY <1>5, <1>7, Steps DEF Programmed
<1>9. UNCHANGED <<mailbox, typed, taken>>
  BY DEF ReadTty, terminalVars, keyVars
<1>10. /\ \A q \in Users : pc'[q] = "take" <=> pc[q] = "take"
       /\ \A q \in Users : pc'[q] = "clear" <=> pc[q] = "clear"
       /\ \A q \in Users : pc'[q] \in {"test", "take", "clear"} => left'[q] > 0
  <2>1. \A q \in Users : pc[q] \in {"test", "take", "clear"} => left[q] > 0
    BY DEF Mailbox
  <2> QED
    BY <1>1, <1>7, <1>8, <2>1
<1>11. Mailbox'
  BY <1>9, <1>10 DEF Mailbox, Keys, Fresh, OfTyped
<1> QED
  BY <1>6, <1>11

LEMMA TestCharMailbox ==
    ASSUME Processor, Mailbox, NEW p \in Users, TestChar(p)
    PROVE  Mailbox'
<1>1. UNCHANGED <<mailbox, typed, taken, left>> /\ pc[p] = "test"
  BY DEF TestChar, terminalVars, keyVars, Keep
<1>2. CASE mailbox = None
  <2>1. pc' = pc
    BY <1>2 DEF TestChar, Yield
  <2> QED
    BY <1>1, <2>1 DEF Mailbox, Keys, Fresh, OfTyped
<1>3. CASE mailbox # None
  <2>1. GoOn(p, "take")
    BY <1>3 DEF TestChar
  <2>2. pc'[p] = "take" /\ \A q \in Users : q # p => pc'[q] = pc[q]
    BY <2>1, Steps
  <2>3. \A q \in Users : pc'[q] = "clear" <=> pc[q] = "clear"
    BY <1>1, <2>2
  <2>4. \A q \in Users : pc'[q] \in {"test", "take", "clear"} => left[q] > 0
    BY <1>1, <2>2 DEF Mailbox
  <2> QED
    BY <1>1, <1>3, <2>3, <2>4 DEF Mailbox, Keys, Fresh, OfTyped
<1> QED
  BY <1>2, <1>3

(* The character is newer than what was taken before.                      *)
LEMMA TakeMailbox ==
    ASSUME Processor, Mailbox, NEW p \in Users, Take(p)
    PROVE  Mailbox'
<1>1. /\ pc[p] = "take" /\ GoOn(p, "clear") /\ taken' = Append(taken, mailbox)
      /\ UNCHANGED <<mailbox, typed, left>>
  BY DEF Take, TakeChar, keyVars, Keep
<1>2. /\ pc'[p] = "clear" /\ \A q \in Users : q # p => pc'[q] = pc[q]
      /\ \A q \in Users : q # p => pc[q] \notin {"take", "clear"}
  BY <1>1, Steps
<1>3. mailbox \in Mails /\ OfTyped(mailbox) /\ Fresh
  BY <1>1, <1>2 DEF Mailbox
<1>4. PICK n \in Nat : n = Len(taken)
  BY DEF Mailbox
<1>5. /\ taken' \in Seq(Mails) /\ Len(taken') = n + 1 /\ taken'[n + 1] = mailbox
      /\ \A i \in 1 .. n : taken'[i] = taken[i]
  BY <1>1, <1>3, <1>4, AppendProperties DEF Mailbox
<1>6. DOMAIN taken = 1 .. n /\ DOMAIN taken' = 1 .. n + 1
  BY <1>4, <1>5 DEF Mailbox
<1>7. \A i \in Keys' : (i \in Keys /\ taken'[i] = taken[i] /\ i \in 1 .. n) \/ (i = n + 1 /\ taken'[i] = mailbox /\ mailbox.n # 0)
  BY <1>5, <1>6 DEF Keys
<1>8. \A i \in Keys' : OfTyped(taken[i])'
  BY <1>1, <1>3, <1>7 DEF Mailbox, OfTyped
<1>9. \A i, j \in Keys' : i < j => taken'[i].n < taken'[j].n
  <2> SUFFICES ASSUME NEW i \in Keys', NEW j \in Keys', i < j PROVE taken'[i].n < taken'[j].n
    OBVIOUS
  <2>1. i \in Keys /\ i \in 1 .. n /\ taken'[i] = taken[i]
    BY <1>5, <1>6, <1>7 DEF Keys
  <2>2. CASE j \in Keys /\ taken'[j] = taken[j]
    BY <2>1, <2>2 DEF Mailbox
  <2>3. CASE taken'[j] = mailbox /\ mailbox.n # 0
    BY <1>3, <2>1, <2>3 DEF Fresh
  <2> QED
    BY <1>7, <2>2, <2>3
<1>10. \A q \in Users : pc'[q] # "take"
  BY <1>2
<1>11. \A q \in Users : pc'[q] \in {"test", "take", "clear"} => left'[q] > 0
  BY <1>1, <1>2 DEF Mailbox
<1>12. OfTyped(mailbox)'
  BY <1>1, <1>3 DEF OfTyped
<1> QED
  BY <1>1, <1>2, <1>3, <1>5, <1>8, <1>9, <1>10, <1>11, <1>12 DEF Mailbox

(* What was typed in between is lost, and nothing is taken again.          *)
LEMMA ClearMailbox ==
    ASSUME Processor, Mailbox, Programmed, NEW p \in Users, Clear(p)
    PROVE  Mailbox' /\ Programmed'
<1>1. /\ pc[p] = "clear" /\ GoOn(p, IF left[p] = 1 THEN "user" ELSE "test") /\ mailbox' = None
      /\ left' = [left EXCEPT ![p] = @ - 1] /\ UNCHANGED <<typed, taken, todo>>
  BY DEF Clear, ClearChar
<1>2. left[p] \in Nat /\ left[p] > 0
  BY <1>1 DEF Mailbox, Programmed
<1>3. PICK to \in {"user", "test"} : GoOn(p, to) /\ (to = "test" => left[p] # 1)
  BY <1>1
<1>4. /\ pc'[p] = to /\ \A q \in Users : q # p => pc'[q] = pc[q]
      /\ \A q \in Users : q # p => pc'[q] \notin {"take", "clear"}
  BY <1>3, Steps
<1>5. left'[p] = left[p] - 1 /\ \A q \in Users : q # p => left'[q] = left[q]
  BY <1>1 DEF Programmed
<1>6. left' \in [Users -> Nat]
  BY <1>1, <1>2 DEF Programmed
<1>7. \A q \in Users : pc'[q] \in {"test", "take", "clear"} => left'[q] > 0
  BY <1>2, <1>3, <1>4, <1>5 DEF Mailbox
<1>8. \A q \in Users : pc'[q] # "take"
  BY <1>4
<1>9. Mailbox'
  BY <1>1, <1>7, <1>8 DEF Mailbox, Keys, OfTyped
<1> QED
  BY <1>1, <1>6, <1>9 DEF Programmed

-----------------------------------------------------------------------------
(* Writing                                                                 *)

LEMMA ScreenAndTerminals ==
    Terminals <=> DOMAIN vt = Terms /\ (\A t \in Terms : OfTerminal(vt[t])) /\ OfScreen(screen)
BY DEF Terminals, OfTerminal, OfScreen

LEMMA EscapedPos ==
    ASSUME NEW v, NEW c \in Escapes, OfTerminal(v)
    PROVE  /\ OfTerminal(Wrapped(Escape(v, c)))
           /\ Wrapped(Escape(v, c)).flags = IF c = "clear" THEN v.flags ELSE Colour(c)
<1>1. TermSize \in Nat \ {0}
  BY TerminalConstants
<1>2. PICK w : w = Escape(v, c)
  OBVIOUS
<1>3. CASE c = "clear"
  <2>1. w = [v EXCEPT !.pos = 0, !.zeros = @ \ (0 .. TermSize - 1)]
    BY <1>2, <1>3 DEF Escape
  <2>2. DOMAIN w = {"pos", "flags", "zeros"} /\ w.pos = 0 /\ w.flags = v.flags
    BY <2>1 DEF OfTerminal
  <2>3. Wrapped(w) = w
    BY <1>1, <2>2 DEF Wrapped
  <2> QED
    BY <1>1, <1>2, <1>3, <2>2, <2>3 DEF OfTerminal
<1>4. CASE c # "clear"
  <2>1. w = [v EXCEPT !.flags = Colour(c)]
    BY <1>2, <1>4 DEF Escape
  <2>2. DOMAIN w = {"pos", "flags", "zeros"} /\ w.pos = v.pos /\ w.flags = Colour(c)
    BY <2>1 DEF OfTerminal
  <2>3. ~ (w.pos >= TermSize)
    BY <1>1, <2>2 DEF OfTerminal
  <2>4. Wrapped(w) = w
    BY <2>3 DEF Wrapped
  <2> QED
    BY <1>2, <1>4, <2>2, <2>4 DEF OfTerminal
<1> QED
  BY <1>3, <1>4

LEMMA EscapedScreen ==
    ASSUME NEW c \in Escapes, OfScreen(screen)
    PROVE  /\ OfScreen(EscapeOn(c))
           /\ EscapeOn(c).attrib = (IF c = "clear" THEN screen.attrib ELSE Colour(c))
           /\ EscapeOn(c).saved = screen.saved
<1>1. 0 \in Cells
  <2>1. PICK n \in Nat : n = Rows * Width /\ n > 0
    BY TerminalConstants
  <2> QED
    BY <2>1 DEF Cells
<1>2. CASE c = "clear"
  BY <1>1, <1>2 DEF EscapeOn, Cleared, OfScreen
<1>3. CASE c # "clear"
  BY <1>3 DEF EscapeOn, OfScreen
<1> QED
  BY <1>2, <1>3

(* What a terminal and the screen are asked for they are both asked for.   *)
LEMMA WriteKeeps ==
    ASSUME Terminals, NEW t \in Terms, NEW c, Write(t, c), (c = "backspace" /\ t = Current) => screen.cursor > 0
    PROVE  /\ Terminals'
           /\ \/ vt'[Current].flags = vt[Current].flags /\ screen'.attrib = screen.attrib
              \/ screen'.attrib = vt'[Current].flags
<1>1. PICK v : v = Wrapped(IF c \in Escapes THEN Escape(vt[t], c) ELSE Typed(vt[t], c))
  OBVIOUS
<1>2. vt' = [vt EXCEPT ![t] = v]
  BY <1>1 DEF Write
<1>3. OfTerminal(vt[t]) /\ OfScreen(screen) /\ DOMAIN vt = Terms /\ Current \in Terms
  BY ScreenAndTerminals, TerminalConstants
<1>4. vt'[t] = v /\ DOMAIN vt' = Terms /\ \A u \in Terms : u # t => vt'[u] = vt[u]
  BY <1>2, <1>3
<1>5. OfTerminal(v) /\ v.flags = IF c \in Escapes /\ c # "clear" THEN Colour(c) ELSE vt[t].flags
  <2>1. CASE c \in Escapes
    BY <1>1, <1>3, <2>1, EscapedPos
  <2>2. CASE c \notin Escapes
    BY <1>1, <1>3, <2>2, TypedPos
  <2> QED
    BY <2>1, <2>2
<1>6. CASE t # Current
  <2>1. screen' = screen /\ vt'[Current] = vt[Current]
    BY <1>3, <1>4, <1>6 DEF Write
  <2>2. Terminals'
    BY <1>3, <1>4, <1>5, <2>1 DEF Terminals, OfTerminal, OfScreen
  <2> QED
    BY <2>1, <2>2
<1>7. CASE t = Current
  <2>1. OfScreen(screen') /\ screen'.attrib = IF c \in Escapes /\ c # "clear" THEN Colour(c) ELSE screen.attrib
    <3>1. CASE c \in Escapes
      <4>1. screen' = EscapeOn(c)
        BY <1>7, <3>1 DEF Write
      <4> QED
        BY <1>3, <3>1, <4>1, EscapedScreen
    <3>2. CASE c \notin Escapes
      <4>1. screen' = Putch(screen, c)
        BY <1>7, <3>2 DEF Write
      <4> QED
        BY <1>3, <1>7, <3>2, <4>1, PutchScreen
    <3> QED
      BY <3>1, <3>2
  <2>2. Terminals'
    BY <1>3, <1>4, <1>5, <2>1, ScreenAndTerminals DEF Terminals, OfTerminal, OfScreen
  <2> QED
    BY <1>4, <1>5, <1>7, <2>1, <2>2
<1> QED
  BY <1>6, <1>7

(* With nobody else in a warning.                                          *)
LEMMA QuietWriteKeeps ==
    ASSUME Processor, TerminalInv, NEW p \in Users, QuietWrite(p)
    PROVE  TerminalInv'
<1>1. /\ Calling(p, "write") /\ GoOn(p, "user") /\ Write(Doing(p).term, Doing(p).char) /\ Begun(p)
      /\ UNCHANGED left
      /\ (Doing(p).char = "backspace" /\ Doing(p).term = Current) => screen.cursor > 0
  BY DEF QuietWrite, WriteTty
<1>2. todo[p] \in Seq(Calls) /\ todo[p] # <<>> /\ Doing(p).do = "write" /\ pc[p] = "user"
  BY <1>1 DEF Calling, Doing, TerminalInv, Programmed
<1>3. Doing(p) \in Calls /\ Tail(todo[p]) \in Seq(Calls)
  BY <1>2, HeadTailProperties DEF Doing
<1>4. Doing(p).term \in Terms
  BY <1>2, <1>3 DEF Calls
<1>5. PICK t \in Terms : t = Doing(p).term
  BY <1>4
<1>6. Terminals' /\ ((vt'[Current].flags = vt[Current].flags /\ screen'.attrib = screen.attrib) \/ screen'.attrib = vt'[Current].flags)
  <2>1. PICK c : c = Doing(p).char
    OBVIOUS
  <2>2. Write(t, c) /\ ((c = "backspace" /\ t = Current) => screen.cursor > 0)
    BY <1>1, <1>5, <2>1
  <2> QED
    BY <2>2, WriteKeeps DEF TerminalInv
<1>7. UNCHANGED keyVars /\ UNCHANGED taken
  BY <1>1 DEF Write
<1>8. /\ pc'[p] = "user" /\ \A q \in Users : q # p => pc'[q] = pc[q]
      /\ \A q \in Users : q # p => pc'[q] \notin {"take", "clear", "warn", "warned"}
  BY <1>1, Steps
<1>9. Mailbox'
  <2>1. \A q \in Users : pc[q] \in Reading \/ pc'[q] \in Reading => pc'[q] = pc[q]
    BY <1>2, <1>8 DEF Reading
  <2> QED
    BY <1>1, <1>7, <2>1, MailboxKept DEF TerminalInv
<1>10. Programmed'
  BY <1>1, <1>3 DEF TerminalInv, Programmed, Begun
<1>11. \A q \in Users : pc[q] # "warned" /\ pc'[q] # "warned"
  BY <1>2, <1>8
<1>12. Attributes'
  BY <1>6, <1>11 DEF TerminalInv, Attributes
<1>13. KeyStates'
  BY <1>7 DEF keyVars, TerminalInv, KeyStates
<1> QED
  BY <1>6, <1>9, <1>10, <1>12, <1>13 DEF TerminalInv

LEMMA WarningKeeps ==
    ASSUME Processor, TerminalInv, NEW p \in Users, Warning(p)
    PROVE  TerminalInv'
<1>1. pc[p] = "warn" /\ GoOn(p, "warned") /\ Warn /\ UNCHANGED <<todo, left>>
  BY DEF Warning, Keep
<1>2. PICK s : s = [screen EXCEPT !.saved = screen.attrib, !.attrib = Yellow]
  OBVIOUS
<1>3. screen' = Putch(s, "newline") /\ UNCHANGED <<keyVars, taken, vt>>
  BY <1>1, <1>2 DEF Warn
<1>4. OfScreen(s) /\ s.saved = screen.attrib
  BY <1>2, ScreenAndTerminals DEF TerminalInv, OfScreen
<1>5. OfScreen(screen') /\ screen'.saved = screen.attrib
  BY <1>3, <1>4, PutchScreen
<1>6. Terminals'
  BY <1>3, <1>5 DEF TerminalInv, Terminals, OfScreen
<1>7. /\ pc'[p] = "warned" /\ \A q \in Users : q # p => pc'[q] = pc[q]
      /\ \A q \in Users : q # p => pc'[q] # "warned"
  BY <1>1, Steps
<1>8. \A q \in Users : pc[q] # "warned"
  BY <1>1, <1>7
<1>9. Attributes'
  BY <1>3, <1>5, <1>7, <1>8 DEF TerminalInv, Attributes
<1>10. Mailbox'
  <2>1. \A q \in Users : pc[q] \in Reading \/ pc'[q] \in Reading => pc'[q] = pc[q]
    BY <1>1, <1>7 DEF Reading
  <2> QED
    BY <1>1, <1>3, <2>1, MailboxKept DEF TerminalInv
<1> QED
  BY <1>1, <1>3, <1>6, <1>9, <1>10 DEF TerminalInv, keyVars, KeyStates, Programmed

LEMMA WarnedKeeps ==
    ASSUME Processor, TerminalInv, NEW p \in Users, Warned(p)
    PROVE  TerminalInv'
<1>1. pc[p] = "warned" /\ GoOn(p, "user") /\ Restore /\ UNCHANGED <<todo, left>>
  BY DEF Warned, Keep
<1>2. screen' = [screen EXCEPT !.attrib = screen.saved] /\ UNCHANGED <<keyVars, taken, vt>>
  BY <1>1 DEF Restore
<1>3. /\ DOMAIN screen' = DOMAIN screen /\ screen'.cursor = screen.cursor /\ screen'.zeros = screen.zeros
      /\ screen'.attrib = screen.saved
  BY <1>2 DEF TerminalInv, Terminals
<1>4. Terminals'
  BY <1>2, <1>3 DEF TerminalInv, Terminals
<1>5. /\ pc'[p] = "user" /\ \A q \in Users : q # p => pc'[q] = pc[q]
      /\ \A q \in Users : q # p => pc'[q] # "warned"
  BY <1>1, Steps
<1>6. Attributes'
  <2>1. screen'.attrib = vt'[Current].flags
    BY <1>1, <1>2, <1>3 DEF TerminalInv, Attributes
  <2>2. \A q \in Users : pc'[q] # "warned"
    BY <1>5
  <2> QED
    BY <2>1, <2>2 DEF Attributes
<1>7. Mailbox'
  <2>1. \A q \in Users : pc[q] \in Reading \/ pc'[q] \in Reading => pc'[q] = pc[q]
    BY <1>1, <1>5 DEF Reading
  <2> QED
    BY <1>1, <1>2, <2>1, MailboxKept DEF TerminalInv
<1> QED
  BY <1>1, <1>2, <1>4, <1>6, <1>7 DEF TerminalInv, keyVars, KeyStates, Programmed

-----------------------------------------------------------------------------
(* Every step                                                              *)

(* What is not at the console.                                             *)
LEMMA Elsewhere ==
    ASSUME Processor, TerminalInv, UNCHANGED terminalVars, UNCHANGED left, Programmed',
           NEW p \in All, NEW to, pc' = pc \/ pc' = [pc EXCEPT ![p] = to],
           pc[p] \notin Reading \cup {"warned"}, to \notin Reading \cup {"warned"}
    PROVE  TerminalInv'
<1>1. \A q \in Users : pc[q] \in Reading \cup {"warned"} \/ pc'[q] \in Reading \cup {"warned"} => pc'[q] = pc[q]
  BY DEF Processor, Users, All
<1>2. UNCHANGED keyVars /\ UNCHANGED <<taken, vt, screen>>
  BY DEF terminalVars
<1>3. Mailbox'
  BY <1>1, <1>2, MailboxKept DEF TerminalInv
<1>4. Attributes'
  BY <1>1, <1>2 DEF TerminalInv, Attributes
<1>5. KeyStates' /\ Terminals'
  BY <1>2 DEF TerminalInv, keyVars, KeyStates, Terminals
<1> QED
  BY <1>3, <1>4, <1>5 DEF TerminalInv

LEMMA Begins ==
    ASSUME Programmed, NEW p \in Users, todo[p] # <<>>, Begun(p), UNCHANGED left
    PROVE  Programmed'
<1>1. Tail(todo[p]) \in Seq(Calls)
  BY HeadTailProperties DEF Programmed
<1> QED
  BY <1>1 DEF Programmed, Begun

LEMMA CallsKeepTerminal ==
    ASSUME Processor, TerminalInv, NEW p \in Users, QuietStep(p)
    PROVE  TerminalInv'
<1>1. Programmed /\ Mailbox /\ p \in All /\ p # Boot
  BY DEF TerminalInv, Users, All
<1>2. CASE ReadTty(p)
  <2>1. Mailbox' /\ Programmed'
    BY <1>1, <1>2, ReadTtyMailbox
  <2>2. UNCHANGED terminalVars /\ pc[p] = "user"
    BY <1>2 DEF ReadTty, Calling
  <2>3. PICK to \in {"test", "user"} : GoOn(p, to)
    BY <1>2 DEF ReadTty
  <2>4. pc'[p] = to /\ \A q \in Users : q # p => pc'[q] = pc[q]
    BY <2>3, Steps
  <2> QED
    BY <2>1, <2>2, <2>4 DEF TerminalInv, terminalVars, keyVars, KeyStates, Terminals, Attributes
<1>3. CASE TestChar(p)
  <2>1. Mailbox'
    BY <1>1, <1>3, TestCharMailbox
  <2>2. UNCHANGED terminalVars /\ UNCHANGED <<todo, left>> /\ pc[p] = "test"
    BY <1>3 DEF TestChar, Keep
  <2>3. pc' = pc \/ GoOn(p, "take")
    BY <1>3 DEF TestChar, Yield
  <2>4. \A q \in Users : pc[q] = "warned" <=> pc'[q] = "warned"
    BY <2>2, <2>3, Steps
  <2> QED
    BY <2>1, <2>2, <2>4 DEF TerminalInv, terminalVars, keyVars, KeyStates, Terminals, Attributes, Programmed
<1>4. CASE Take(p)
  <2>1. Mailbox'
    BY <1>1, <1>4, TakeMailbox
  <2>2. /\ UNCHANGED <<keyVars, vt, screen, todo, left>> /\ pc[p] = "take" /\ GoOn(p, "clear")
    BY <1>4 DEF Take, TakeChar, Keep
  <2>3. \A q \in Users : pc[q] = "warned" <=> pc'[q] = "warned"
    BY <2>2, Steps
  <2> QED
    BY <2>1, <2>2, <2>3 DEF TerminalInv, keyVars, KeyStates, Terminals, Attributes, Programmed
<1>5. CASE Clear(p)
  <2>1. Mailbox' /\ Programmed'
    BY <1>1, <1>5, ClearMailbox
  <2>2. /\ UNCHANGED <<keys, pressed, vt, screen>> /\ pc[p] = "clear"
        /\ GoOn(p, IF left[p] = 1 THEN "user" ELSE "test")
    BY <1>5 DEF Clear, ClearChar
  <2>3. \A q \in Users : pc[q] = "warned" <=> pc'[q] = "warned"
    BY <2>2, Steps
  <2> QED
    BY <2>1, <2>2, <2>3 DEF TerminalInv, KeyStates, Terminals, Attributes
<1>6. CASE Warning(p) \/ Warned(p) \/ QuietWrite(p)
  BY <1>6, WarningKeeps, WarnedKeeps, QuietWriteKeeps
<1>7. CASE QuietDraw(p) \/ Set(p)
  <2>1. /\ pc[p] = "user" /\ todo[p] # <<>> /\ Begun(p) /\ UNCHANGED terminalVars /\ UNCHANGED left
        /\ \E to \in {"user", "warn", "lock"} : GoOn(p, to)
    BY <1>7 DEF QuietDraw, Draw, Set, SetMode, Calling
  <2>2. PICK to \in {"user", "warn", "lock"} : pc' = [pc EXCEPT ![p] = to]
    BY <2>1 DEF GoOn, Go
  <2> QED
    BY <1>1, <2>1, <2>2, Begins, Elsewhere DEF Reading
<1>8. CASE Exit(p) \/ ((Asks(p) \/ Sets(p)) /\ UNCHANGED terminalVars /\ Keep)
  <2>1. UNCHANGED terminalVars /\ UNCHANGED <<todo, left>>
    BY <1>8 DEF Exit, Keep
  <2>2. Programmed'
    BY <1>1, <2>1 DEF Programmed
  <2>3. \/ pc' = pc /\ pc[p] \notin Reading \cup {"warned"}
        \/ \E to : /\ pc' = [pc EXCEPT ![p] = to]
                   /\ pc[p] \notin Reading \cup {"warned"} /\ to \notin Reading \cup {"warned"}
    BY <1>8 DEF Exit, Asks, Sets, Lock, Locked, Ask, Wake, Sleep, Answer, SetDone, Unlock, Map, Record,
       GoOn, Go, Yield, Reading
  <2>4. CASE pc' = pc /\ pc[p] \notin Reading \cup {"warned"}
    <3>1. "user" \notin Reading \cup {"warned"}
      BY DEF Reading
    <3> QED
      BY <1>1, <2>1, <2>2, <2>4, <3>1, Elsewhere
  <2>5. CASE pc' # pc
    <3>1. PICK to : /\ pc' = [pc EXCEPT ![p] = to]
                    /\ pc[p] \notin Reading \cup {"warned"} /\ to \notin Reading \cup {"warned"}
      BY <2>3, <2>5
    <3> QED
      BY <1>1, <2>1, <2>2, <3>1, Elsewhere
  <2> QED
    BY <2>3, <2>4, <2>5
<1> QED
  BY <1>2, <1>3, <1>4, <1>5, <1>6, <1>7, <1>8 DEF QuietStep, Others

LEMMA NextTerminal ==
    ASSUME MonitorInv, TerminalInv, [QuietNext]_vars
    PROVE  TerminalInv'
<1>1. Processor
  BY DEF MonitorInv
<1>2. CASE Keyboard
  BY <1>2, KeyboardKeeps
<1>3. CASE \E p \in Users : QuietStep(p)
  BY <1>1, <1>3, CallsKeepTerminal
<1>4. CASE BootStep \/ MonitorStep \/ QuietTimer \/ UNCHANGED vars
  <2>1. UNCHANGED terminalVars /\ UNCHANGED <<todo, left>>
    BY <1>4 DEF BootStep, MonitorStep, QuietTimer, Timer, Keep, vars
  <2>2. \A q \in Users : pc'[q] = pc[q]
    <3>1. CASE BootStep
      <4>1. \/ pc' = pc
            \/ \E to : pc' = [pc EXCEPT ![Boot] = to]
        BY <3>1 DEF BootStep, Installs, Forked, GotInfo, GotMode, InstallDone, Unlock, StartUsers,
           Asks, Lock, Locked, Ask, Wake, Sleep, Answer, GoOn, Go, Yield
      <4> QED
        BY <1>1, <4>1 DEF Users, Processor, All
    <3>2. CASE MonitorStep
      <4>1. pc' = pc \/ \E to : pc' = [pc EXCEPT ![Vm] = to]
        BY <3>2 DEF MonitorStep, Monitor, Run, Done, Rest, Check, Start, Load, GoOn, Go, Yield
      <4> QED
        BY <1>1, <4>1, Constants DEF Users, Processor, All
    <3>3. CASE QuietTimer \/ UNCHANGED vars
      BY <3>3 DEF QuietTimer, Timer, Preempt, vars, cpuVars
    <3> QED
      BY <1>4, <3>1, <3>2, <3>3
  <2>3. Mailbox'
    BY <2>1, <2>2, MailboxKept DEF TerminalInv, terminalVars
  <2> QED
    BY <2>1, <2>2, <2>3 DEF TerminalInv, terminalVars, keyVars, KeyStates, Terminals, Attributes, Programmed
<1> QED
  BY <1>2, <1>3, <1>4 DEF QuietNext

LEMMA InitTerminal == Init => TerminalInv
<1> SUFFICES ASSUME Init PROVE TerminalInv
  OBVIOUS
<1> USE DEF Init, TerminalInit
<1>1. KeyStates
  BY DEF KeyStates
<1>2. \A q \in Users : pc[q] = "user"
  BY Constants DEF Users, All
<1>3. Mailbox
  BY <1>2 DEF Mailbox, Keys, Fresh
<1>4. Terminals
  <2>1. TermSize \in Nat \ {0}
    BY TerminalConstants
  <2>2. 0 \in Cells
    <3>1. PICK n \in Nat : n = Rows * Width /\ n > 0
      BY TerminalConstants
    <3> QED
      BY <3>1 DEF Cells
  <2> QED
    BY <2>1, <2>2 DEF Terminals
<1>5. Attributes
  BY <1>2, TerminalConstants DEF Attributes
<1>6. Programmed
  BY ConsoleConstants DEF Programmed
<1> QED
  BY <1>1, <1>3, <1>4, <1>5, <1>6 DEF TerminalInv

-----------------------------------------------------------------------------
(* The theorems                                                            *)

(* ConsoleInv is an invariant of every behaviour in which the kernel is not*)
(* interrupted by the timer, nothing is deleted at the start of the screen *)
(* and nothing drawn before a mode is set.                                 *)
THEOREM ConsoleInvariant == QuietSpec => []ConsoleInv
<1>1. Init => ConsoleInv
  BY InitMonitor, InitTerminal DEF ConsoleInv
<1>2. ConsoleInv /\ [QuietNext]_vars => ConsoleInv'
  <2> SUFFICES ASSUME ConsoleInv, [QuietNext]_vars PROVE ConsoleInv'
    OBVIOUS
  <2>1. MonitorInv /\ TerminalInv /\ Programmed
    BY DEF ConsoleInv, TerminalInv
  <2> QED
    BY <2>1, NextMonitor, NextTerminal DEF ConsoleInv
<1> QED
  BY <1>1, <1>2, PTL DEF QuietSpec

(* Cursors stay on the screen and in their terminals, whatever is written  *)
(* (tty_write() and putch()), only who is active has the processor, and the*)
(* mode that is recorded is one of the table's.                            *)
THEOREM ConsoleTyped == QuietSpec => []TypeOK
<1>1. ConsoleInv => TypeOK
  <2> SUFFICES ASSUME ConsoleInv PROVE TypeOK
    OBVIOUS
  <2>1. TerminalTypeOK
    BY DEF ConsoleInv, TerminalInv, Terminals, TerminalTypeOK
  <2>2. running \in active \cup {Nobody} /\ mode \in DOMAIN modes \cup {-1}
    BY DEF ConsoleInv, MonitorInv, Processor, ModeTable
  <2>3. \A p \in Users : left[p] >= 0
    BY DEF ConsoleInv, TerminalInv, Programmed
  <2> QED
    BY <2>1, <2>2, <2>3 DEF TypeOK
<1> QED
  BY <1>1, ConsoleInvariant, PTL

(* What any process reads was typed, in that order, once and capital where *)
(* it should be, though one byte that the interrupt writes is all there is *)
(* between (kb_lastChar); and the one place there is for the attributes    *)
(* during a warning is enough.                                             *)
THEOREM TerminalAlwaysRight == QuietSpec => []TerminalRight
<1>1. ConsoleInv => TerminalRight
  BY DEF ConsoleInv, TerminalInv, Mailbox, Attributes, OfTyped, KeysRight, TerminalRight, Keys
<1> QED
  BY <1>1, ConsoleInvariant, PTL

(* Whoever calls the monitor gets the answer to what it asked, the table of*)
(* modes describes the modes it has the codes of, and the display is in the*)
(* mode that is recorded with that mode's frame buffer mapped.             *)
THEOREM DisplayAlwaysRight == QuietSpec => []DisplayRight
<1>1. ConsoleInv => DisplayRight
  <2> SUFFICES ASSUME ConsoleInv PROVE DisplayRight
    OBVIOUS
  <2>1. \A p \in Procs : pc[p] = "got" => regs[p].done /\ regs[p].asked = Question(p)
    BY DEF ConsoleInv, MonitorInv, HandOver, Replied
  <2>2. Installed => \A i \in RealModes : modes[i].of = modes[i].code
    BY DEF ConsoleInv, MonitorInv, Installing, Described, Installed
  <2>3. mode \in RealModes /\ (\A p \in Procs : pc[p] \notin Between) => hw = modes[mode].code /\ mapped = hw
    BY DEF ConsoleInv, MonitorInv, Display
  <2> QED
    BY <2>1, <2>2, <2>3 DEF DisplayRight
<1> QED
  BY <1>1, ConsoleInvariant, PTL
=============================================================================
