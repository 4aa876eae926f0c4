---------------------------- MODULE PrivateMemory ----------------------------
(***************************************************************************)
(* What fork() and copy-on-write promise: "a process that is a complete    *)
(* clone of the current process" (AcessOS/proc.c), after which neither     *)
(* sees what the other one writes.  Module Paging is shown to implement it.*)
(***************************************************************************)

CONSTANTS Pids, VPages, Values, NoPage

VARIABLES
    alive,      \* address spaces in use
    memory      \* memory[p][v]: what p reads at page v, NoPage if nothing is there

Init ==
    /\ \E p \in Pids : alive = {p}
    /\ memory = [p \in Pids |-> [v \in VPages |-> NoPage]]

(* A new page holds what was left in the memory it is made of.             *)
Map(p, v) ==
    /\ p \in alive
    /\ memory[p][v] = NoPage
    /\ \E x \in Values : memory' = [memory EXCEPT ![p][v] = x]
    /\ UNCHANGED alive

Unmap(p, v) ==
    /\ p \in alive
    /\ memory' = [memory EXCEPT ![p][v] = NoPage]
    /\ UNCHANGED alive

Store(p, v, x) ==
    /\ p \in alive
    /\ memory[p][v] # NoPage
    /\ memory' = [memory EXCEPT ![p][v] = x]
    /\ UNCHANGED alive

Fork(p, q) ==
    /\ p \in alive
    /\ q \notin alive
    /\ alive' = alive \cup {q}
    /\ memory' = [memory EXCEPT ![q] = memory[p]]

Exit(p) ==
    /\ p \in alive
    /\ alive' = alive \ {p}
    /\ memory' = [memory EXCEPT ![p] = [v \in VPages |-> NoPage]]

Next ==
    \E p \in Pids :
        \/ \E v \in VPages : Map(p, v) \/ Unmap(p, v) \/ \E x \in Values : Store(p, v, x)
        \/ \E q \in Pids : Fork(p, q)
        \/ Exit(p)

Spec == Init /\ [][Next]_<<alive, memory>>
=============================================================================
