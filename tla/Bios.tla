-------------------------------- MODULE Bios --------------------------------
(***************************************************************************)
(* The VM8086 monitor (AcessOS/vm8086.c): a process that runs the BIOS for *)
(* the others, one at a time, and how it and they wake each other; and the *)
(* VESA driver (CommonCode/drv_vbe.c), whose user it is.                   *)
(*                                                                         *)
(* There is one processor; which active process has it next is for module  *)
(* Scheduler, and any may be here.  So is a sleep that the interrupt of a  *)
(* device ends before its time: here a sleeper sleeps until it is woken.   *)
(***************************************************************************)
EXTENDS Integers, Sequences, FiniteSets, SequencesExt

CONSTANTS
    Procs,          \* the processes that call
    Boot,           \* the one that installs the driver
    Vm,             \* the monitor's process
    Nobody,         \* for the processor
    Codes,          \* gVesa_Modes[].code, 0 for the text mode's
    Sizes,          \* Sizes[c]: pages of the frame buffer of mode c, 0 if it has none
    HasVbe,         \* the BIOS has VBE: the answers it may have to that
    Garbage         \* what memory holds that was never written

ASSUME BiosConstants ==
    /\ Boot \in Procs /\ Vm \notin Procs /\ Nobody \notin Procs \cup {Vm}
    /\ Codes \in Seq(Nat)
    /\ 0 \in DOMAIN Sizes
    /\ HasVbe \subseteq BOOLEAN

VARIABLES
    running,        \* the process the processor runs
    active,         \* gpProcsActive; the others sleep or have ended
    pc,             \* where each is
    inUse,          \* gbVM8086_InUse
    complete,       \* gbVM8086_Complete
    callee,         \* giVM8086_Callee
    ret,            \* gVM8086_Ret: a question or its answer
    vm,             \* the registers of the monitor's process
    regs,           \* those of the callers
    hw,             \* the mode the hardware is in
    modeinfo,       \* the mode the buffer in low memory describes
    vbe,            \* whether the BIOS has VBE
    modes,          \* gVesa_Modes: code, and the mode its data is of
    mode,           \* giVesaCurrentMode
    mapped,         \* gVesaFramebuffer: the mode it is of, and giVesaPageCount
    want            \* the mode each caller sets, or the boot asks about

cpuVars == <<running, active, pc>>
handVars == <<inUse, complete, callee, ret, vm, regs>>
hwVars == <<hw, modeinfo, vbe>>
vesaVars == <<modes, mode, mapped, want>>
biosVars == <<handVars, hwVars, vesaVars>>

All == Procs \cup {Vm}
-----------------------------------------------------------------------------
(* The processor                                                           *)

(* Whoever is active may be next; p goes on if nobody else is.             *)
Give(p, s) ==
    /\ active' = s
    /\ running' \in IF s \ {p} # {} THEN s \ {p} ELSE IF p \in s THEN {p} ELSE {Nobody}

Go(p, to) == pc' = [pc EXCEPT ![p] = to]
GoOn(p, to) == running = p /\ Go(p, to) /\ UNCHANGED <<running, active>>
Yield(p) == running = p /\ Give(p, active) /\ UNCHANGED pc

(* The timer takes the processor away.                                     *)
Preempt ==
    /\ running # Nobody
    /\ active \ {running} # {}
    /\ Give(running, active)
    /\ UNCHANGED <<pc, biosVars>>
-----------------------------------------------------------------------------
(* VM8086_Lock(), VM8086_Int() and VM8086_Unlock()                         *)

Barge(p) == pc[p] = "lock" /\ GoOn(p, "locked") /\ UNCHANGED biosVars
Lock(p) ==
    /\ pc[p] = "lock"
    /\ IF inUse THEN Yield(p) ELSE GoOn(p, "locked")
    /\ UNCHANGED biosVars

Locked(p) ==
    /\ pc[p] = "locked"
    /\ GoOn(p, "ask")
    /\ inUse' = TRUE
    /\ UNCHANGED <<complete, callee, ret, vm, regs, hwVars, vesaVars>>

(* What is asked: about the BIOS, about a mode, or for a mode.             *)
Question(p) ==
    [fn |-> IF p # Boot THEN "set" ELSE IF want[p] = 0 THEN "info" ELSE "mode",
     code |-> IF p = Boot /\ want[p] = 0 THEN 0 ELSE modes[want[p]].code]

Ask(p) ==
    /\ pc[p] = "ask"
    /\ GoOn(p, "wake")
    /\ ret' = [asked |-> Question(p), done |-> FALSE, ok |-> FALSE]
    /\ callee' = p
    /\ complete' = FALSE
    /\ UNCHANGED <<inUse, vm, regs, hwVars, vesaVars>>

Wake(p) ==
    /\ pc[p] = "wake"
    /\ running = p
    /\ Go(p, "sleep")
    /\ active' = active \cup {Vm}
    /\ UNCHANGED <<running, biosVars>>

Sleep(p) ==
    /\ pc[p] = "sleep"
    /\ running = p
    /\ Go(p, "answer")
    /\ Give(p, active \ {p})
    /\ UNCHANGED biosVars

Answer(p) ==
    /\ pc[p] = "answer"
    /\ GoOn(p, "got")
    /\ regs' = [regs EXCEPT ![p] = ret]
    /\ UNCHANGED <<inUse, complete, callee, ret, vm, hwVars, vesaVars>>

Unlock(p, to) ==
    /\ GoOn(p, to)
    /\ inUse' = FALSE
    /\ UNCHANGED <<complete, callee, ret, vm, regs, hwVars>>
-----------------------------------------------------------------------------
(* VM8086_GPF(), in the monitor's process                                  *)

(* The BIOS runs, the instructions it may not execute emulated one by one. *)
(* What it does not know it leaves alone.                                  *)
Known(q) == IF q.fn = "info" THEN vbe ELSE q.code \in DOMAIN Sizes

Run ==
    /\ pc[Vm] = "run"
    /\ GoOn(Vm, "done")
    /\ vm' = [vm EXCEPT !.done = TRUE, !.ok = Known(vm.asked)]
    /\ hw' = IF vm.asked.fn = "set" /\ Known(vm.asked) THEN vm.asked.code ELSE hw
    /\ modeinfo' = IF vm.asked.fn = "mode" /\ Known(vm.asked) THEN vm.asked.code ELSE modeinfo
    /\ UNCHANGED <<inUse, complete, callee, ret, regs, vbe, vesaVars>>

Done ==
    /\ pc[Vm] = "done"
    /\ GoOn(Vm, "rest")
    /\ ret' = vm
    /\ complete' = TRUE
    /\ UNCHANGED <<inUse, callee, vm, regs, hwVars, vesaVars>>

Rest ==
    /\ pc[Vm] = "rest"
    /\ running = Vm
    /\ Go(Vm, "check")
    /\ Give(Vm, active \ {Vm})
    /\ UNCHANGED biosVars

Check ==
    /\ pc[Vm] = "check"
    /\ IF complete THEN Yield(Vm) ELSE GoOn(Vm, "start")
    /\ UNCHANGED biosVars

(* The caller is woken before the BIOS has run.                            *)
WakesNobody == active' = active
WakesCallee == active' = active \cup ({callee} \cap Procs)
Start ==
    /\ pc[Vm] = "start"
    /\ running = Vm
    /\ Go(Vm, "load")
    /\ WakesCallee
    /\ UNCHANGED <<running, biosVars>>

Load ==
    /\ pc[Vm] = "load"
    /\ GoOn(Vm, "run")
    /\ vm' = ret
    /\ UNCHANGED <<inUse, complete, callee, ret, regs, hwVars, vesaVars>>

Monitor == Run \/ Done \/ Rest \/ Check \/ Start \/ Load
-----------------------------------------------------------------------------
(* The VESA driver                                                         *)

Installed == modes # <<>> /\ pc[Boot] = "end"

(* VM8086_Install() lets the monitor start, which finds its first call     *)
(* complete.                                                               *)
Forked ==
    /\ pc[Boot] = "fork"
    /\ running = Boot
    /\ Go(Boot, "lock")
    /\ Give(Boot, active)
    /\ UNCHANGED biosVars

(* Vesa_Install(): the codes of the modes are never copied to the table.   *)
(* Without VBE it returns with the monitor locked.                         *)
Table == <<[code |-> 0, of |-> Garbage]>> \o [i \in 1 .. Len(Codes) |-> [code |-> Codes[i], of |-> Garbage]]

GotInfo ==
    /\ pc[Boot] = "got" /\ want[Boot] = 0
    /\ GoOn(Boot, IF ~ regs[Boot].ok THEN "end" ELSE IF Codes = <<>> THEN "unlock" ELSE "ask")
    /\ modes' = IF regs[Boot].ok THEN [i \in 0 .. Len(Codes) |-> Table[i + 1]] ELSE modes
    /\ want' = [want EXCEPT ![Boot] = IF regs[Boot].ok THEN 1 ELSE 0]
    /\ UNCHANGED <<handVars, hwVars, mode, mapped>>

GotMode ==
    LET i == want[Boot]
    IN  /\ pc[Boot] = "got" /\ i > 0
        /\ GoOn(Boot, IF i = Len(Codes) THEN "unlock" ELSE "ask")
        /\ modes' = [modes EXCEPT ![i].of = modeinfo]
        /\ want' = [want EXCEPT ![Boot] = IF i = Len(Codes) THEN i ELSE i + 1]
        /\ UNCHANGED <<handVars, hwVars, mode, mapped>>

InstallDone ==
    /\ pc[Boot] = "unlock"
    /\ Unlock(Boot, "end")
    /\ UNCHANGED vesaVars

(* Vesa_Int_SetMode(), which refuses numbers that are too high by more than*)
(* one (of module Console, nobody asks for the one).                       *)
SetMode(p, m) ==
    /\ GoOn(p, IF m = mode \/ m < 0 \/ m > Len(Codes) + 1 THEN "user" ELSE "lock")
    /\ want' = [want EXCEPT ![p] = m]
    /\ UNCHANGED <<handVars, hwVars, modes, mode, mapped>>

SetDone(p) ==
    /\ p # Boot /\ pc[p] = "got"
    /\ Unlock(p, "map")
    /\ UNCHANGED vesaVars

Map(p) ==
    /\ pc[p] = "map"
    /\ GoOn(p, "record")
    /\ mapped' = modes[want[p]].of
    /\ UNCHANGED <<handVars, hwVars, modes, mode, want>>

Record(p) ==
    /\ pc[p] = "record"
    /\ GoOn(p, "user")
    /\ mode' = want[p]
    /\ UNCHANGED <<handVars, hwVars, modes, mapped, want>>

(* Vesa_Write() up to the page before end                                  *)
Pages(c) == IF c \in DOMAIN Sizes THEN Sizes[c] ELSE 0
Draws(end) == Pages(modes[mode].of) > 0 /\ end <= Pages(modes[mode].of)

(* Vesa_Int_FindMode(): the first mode that is the one asked for, else the *)
(* first of those whose size is nearest to its.                            *)
Size(m) == m.width * m.height * m.bpp
Factor(m, d) == ((IF Size(m) < Size(d) THEN Size(d) - Size(m) ELSE Size(m) - Size(d)) * 100) \div Size(d)
FindMode(ms, d) ==
    FoldLeft(LAMBDA best, i :
                 IF best.exact THEN best
                 ELSE IF ms[i] = d THEN [exact |-> TRUE, factor |-> 0, id |-> i]
                 ELSE IF Factor(ms[i], d) < best.factor THEN [exact |-> FALSE, factor |-> Factor(ms[i], d), id |-> i]
                 ELSE best,
             [exact |-> FALSE, factor |-> 1000, id |-> -1],
             [i \in DOMAIN ms |-> i]).id

Asks(p) == Lock(p) \/ Locked(p) \/ Ask(p) \/ Wake(p) \/ Sleep(p) \/ Answer(p)
Sets(p) == SetDone(p) \/ Map(p) \/ Record(p)

Installs == Forked \/ GotInfo \/ GotMode \/ InstallDone

BiosInit ==
    /\ running = Boot
    /\ active = {Boot, Vm}
    /\ inUse = FALSE
    /\ complete = TRUE
    /\ callee = Nobody
    /\ ret = [asked |-> [fn |-> "none", code |-> 0], done |-> FALSE, ok |-> FALSE]
    /\ vm = ret
    /\ regs = [p \in Procs |-> ret]
    /\ hw = 0
    /\ modeinfo = Garbage
    /\ vbe \in HasVbe
    /\ modes = <<>>
    /\ mode = -1
    /\ mapped = Garbage
    /\ want = [p \in Procs |-> 0]

(* An answer is the answer to one's own question; the table describes the  *)
(* modes it has the codes of; and with nobody in between the hardware is   *)
(* in the mode that is recorded, and its frame buffer mapped.              *)
Between == {"locked", "ask", "wake", "sleep", "answer", "got", "map", "record"}
RealModes == {i \in DOMAIN modes \ {0} : modes[i].code \in DOMAIN Sizes}
DisplayRight ==
    /\ \A p \in Procs : pc[p] = "got" => regs[p].done /\ regs[p].asked = Question(p)
    /\ Installed => \A i \in RealModes : modes[i].of = modes[i].code
    /\ mode \in RealModes /\ (\A p \in Procs : pc[p] \notin Between) => hw = modes[mode].code /\ mapped = hw
=============================================================================
