------------------------------- MODULE Timers -------------------------------
(***************************************************************************)
(* The timer slots of CommonCode/time.c.  A slot is free or holds the call *)
(* to make when its time has come.  When that is, is left open: a timer    *)
(* that is set can go off at any moment.  The only user, the floppy driver,*)
(* sets one-shot timers.                                                   *)
(***************************************************************************)
EXTENDS Integers

CONSTANTS
    TimerCount,     \* TIMER_COUNT
    Calls,          \* callbacks with their arguments
    NoTimer         \* the id -1, and a slot that is not in use

ASSUME TimersConstants == TimerCount \in Nat /\ NoTimer \notin Calls \cup Nat

VARIABLE timers     \* timers[i]: the call slot i is set to make

TimerIds == 0 .. TimerCount - 1

TimersInit == timers = [i \in TimerIds |-> NoTimer]

Unset == {i \in TimerIds : timers[i] = NoTimer}

(* One past the last slot.                                                 *)
FoundPast == IF Unset = {} THEN NoTimer ELSE TimerCount

(* The slot time_createTimer() takes, looking from the last one down.      *)
FoundTimer ==
    IF Unset = {} THEN NoTimer
    ELSE CHOOSE i \in Unset : \A j \in Unset : j <= i

Created(i, call) == [timers EXCEPT ![i] = call]

(* time_removeTimer() takes any id: whoever set the timer, it is gone.     *)
Removed(i) == [j \in TimerIds |-> IF j = i THEN NoTimer ELSE timers[j]]

Pending(call) == \E i \in TimerIds : timers[i] = call

TimersTypeOK == timers \in [TimerIds -> Calls \cup {NoTimer}]
=============================================================================
