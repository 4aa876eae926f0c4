------------------------------ MODULE Console ------------------------------
(***************************************************************************)
(* What processes do at the console: they read what is typed, write to a   *)
(* terminal, set a graphics mode and draw, each by a program of its own,   *)
(* on one processor, with the keyboard interrupting at any moment.         *)
(***************************************************************************)
EXTENDS Terminal, Bios

CONSTANTS
    Programs,       \* what the processes may run: for each a sequence of calls
    Typings         \* scancodes that may come

Users == Procs \ {Boot}
Calls ==
    [do : {"read"}, term : Terms, len : Nat] \cup [do : {"write"}, term : Terms, char : STRING]
        \cup [do : {"set"}, mode : Int \ {Len(Codes) + 1}] \cup [do : {"draw"}, end : Nat]

ASSUME ConsoleConstants == \A t \in Programs : t \in [Users -> Seq(Calls)]

VARIABLES
    todo,           \* the calls a process has still to make
    left,           \* the characters tty_read() has still to get
    scancodes       \* that will come

vars == <<cpuVars, biosVars, terminalVars, todo, left, scancodes>>

(* A step of a process, or the keyboard's handler.                         *)
Calling(p, call) == pc[p] = "user" /\ todo[p] # <<>> /\ Head(todo[p]).do = call
Doing(p) == Head(todo[p])
Begun(p) == todo' = [todo EXCEPT ![p] = Tail(@)]
Keep == UNCHANGED <<todo, left, scancodes>>

Keyboard ==
    /\ scancodes # <<>>
    /\ Handle(Head(scancodes))
    /\ scancodes' = Tail(scancodes)
    /\ UNCHANGED <<cpuVars, biosVars, taken, vt, screen, todo, left>>

(* tty_read() of a terminal that is not the current one fails.             *)
ReadTty(p) ==
    /\ Calling(p, "read")
    /\ GoOn(p, IF Doing(p).term = Current /\ Doing(p).len > 0 THEN "test" ELSE "user")
    /\ left' = [left EXCEPT ![p] = Doing(p).len]
    /\ Begun(p)
    /\ UNCHANGED <<biosVars, terminalVars, scancodes>>

TestChar(p) ==
    /\ pc[p] = "test"
    /\ IF mailbox = None THEN Yield(p) ELSE GoOn(p, "take")
    /\ UNCHANGED <<biosVars, terminalVars>> /\ Keep

Take(p) ==
    /\ pc[p] = "take"
    /\ GoOn(p, "clear")
    /\ TakeChar
    /\ UNCHANGED biosVars /\ Keep

Clear(p) ==
    /\ pc[p] = "clear"
    /\ GoOn(p, IF left[p] = 1 THEN "user" ELSE "test")
    /\ ClearChar
    /\ left' = [left EXCEPT ![p] = @ - 1]
    /\ UNCHANGED <<biosVars, todo, scancodes>>

WriteTty(p) ==
    /\ Calling(p, "write")
    /\ GoOn(p, "user")
    /\ Write(Doing(p).term, Doing(p).char)
    /\ Begun(p)
    /\ UNCHANGED <<biosVars, left, scancodes>>

(* What does not fit is refused with a warning.                            *)
Draw(p) ==
    /\ Calling(p, "draw")
    /\ GoOn(p, IF ~ Installed \/ Draws(Doing(p).end) THEN "user" ELSE "warn")
    /\ Begun(p)
    /\ UNCHANGED <<biosVars, terminalVars, left, scancodes>>

(* Without the driver there is no file to make the call on.                *)
Set(p) ==
    /\ Calling(p, "set")
    /\ IF Installed THEN SetMode(p, Doing(p).mode) ELSE GoOn(p, "user") /\ UNCHANGED biosVars
    /\ Begun(p)
    /\ UNCHANGED <<terminalVars, left, scancodes>>

Warning(p) ==
    /\ pc[p] = "warn"
    /\ GoOn(p, "warned")
    /\ Warn
    /\ UNCHANGED biosVars /\ Keep

Warned(p) ==
    /\ pc[p] = "warned"
    /\ GoOn(p, "user")
    /\ Restore
    /\ UNCHANGED biosVars /\ Keep

(* At the end of its program a process exits.                              *)
Exit(p) ==
    /\ pc[p] = "user" /\ todo[p] = <<>>
    /\ running = p
    /\ Go(p, "end")
    /\ Give(p, active \ {p})
    /\ UNCHANGED <<biosVars, terminalVars>> /\ Keep

(* The boot over, the programs are started.                                *)
StartUsers ==
    /\ pc[Boot] = "end"
    /\ running = Boot
    /\ Give(Boot, (active \ {Boot}) \cup Users)
    /\ UNCHANGED <<pc, biosVars>>

Others(p) ==
    \/ ReadTty(p) \/ TestChar(p) \/ Take(p) \/ Clear(p) \/ Warning(p) \/ Warned(p) \/ Set(p) \/ Exit(p)
    \/ (Asks(p) \/ Sets(p)) /\ UNCHANGED terminalVars /\ Keep

Step(p) == Others(p) \/ WriteTty(p) \/ Draw(p)

BootStep == (Installs \/ Asks(Boot) \/ StartUsers) /\ UNCHANGED terminalVars /\ Keep
MonitorStep == Monitor /\ UNCHANGED terminalVars /\ Keep
Timer == Preempt /\ UNCHANGED terminalVars /\ Keep

Init ==
    /\ BiosInit
    /\ TerminalInit
    /\ pc = [p \in All |-> IF p = Boot THEN "fork" ELSE IF p = Vm THEN "done" ELSE "user"]
    /\ todo \in Programs
    /\ left = [p \in Users |-> 0]
    /\ scancodes \in Typings

Next ==
    \/ Keyboard
    \/ \E p \in Users : Step(p)
    \/ BootStep
    \/ MonitorStep
    \/ Timer

Spec == Init /\ [][Next]_vars

(* The cases it handles: the timer does not interrupt the kernel or the    *)
(* BIOS, nothing is deleted at the start of the screen, and nothing drawn  *)
(* before a mode is set.                                                   *)
QuietWrite(p) ==
    /\ Calling(p, "write")
    /\ Doing(p).char = "backspace" /\ Doing(p).term = Current => screen.cursor > 0
    /\ WriteTty(p)

QuietDraw(p) ==
    /\ Calling(p, "draw")
    /\ Installed => mode # -1
    /\ Draw(p)

QuietTimer == running # Nobody /\ pc[running] = "user" /\ Timer

QuietStep(p) == Others(p) \/ QuietWrite(p) \/ QuietDraw(p)

QuietNext ==
    \/ Keyboard
    \/ \E p \in Users : QuietStep(p)
    \/ BootStep
    \/ MonitorStep
    \/ QuietTimer

(* Module Scheduler: who is active gets the processor again and again (the *)
(* boot has it whenever the monitor does not); and it does not stop.       *)
Gets(p) == running # p /\ running' = p
QuietSpec ==
    /\ Init /\ [][QuietNext]_vars
    /\ WF_vars(QuietNext)
    /\ \A p \in Users \cup {Vm} : SF_vars(QuietNext /\ Gets(p))
-----------------------------------------------------------------------------
TypeOK ==
    /\ TerminalTypeOK
    /\ running \in active \cup {Nobody}
    /\ mode \in DOMAIN modes \cup {-1}
    /\ \A p \in Users : left[p] >= 0

(* What is read is what was typed, in order and once; and text appears in  *)
(* the colours its terminal asked for, but for warnings.                   *)
TerminalRight ==
    /\ KeysRight
    /\ (\A p \in Users : pc[p] # "warned") => screen.attrib = vt[Current].flags

(* Who calls the monitor, to install the driver or to set a mode, gets its *)
(* turn and its answer, and goes on.                                       *)
Served == \A p \in Procs : pc[p] = "lock" ~> pc[p] \in {"user", "end"}
=============================================================================
