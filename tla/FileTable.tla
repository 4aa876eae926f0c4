------------------------------ MODULE FileTable ------------------------------
(***************************************************************************)
(* What vfs_open() and vfs_close() promise: a handle means the file it was *)
(* opened for until it is closed, whatever is done to other handles.       *)
(* Module Files is shown to implement it.                                  *)
(***************************************************************************)

CONSTANTS Tables, Slots, Things, Closed

VARIABLE opened         \* opened[t][i]: what handle i of table t is open on

Nothing == [i \in Slots |-> Closed]

Init == opened = [t \in Tables |-> Nothing]

Open(t, i) ==
    /\ opened[t][i] = Closed
    /\ \E x \in Things : opened' = [opened EXCEPT ![t][i] = x]

Close(t, i) == opened' = [opened EXCEPT ![t][i] = Closed]

(* A child has the handles of its parent.                                  *)
Inherit(t, u) ==
    /\ opened[u] = Nothing
    /\ opened' = [opened EXCEPT ![u] = opened[t]]

CloseAll(t) == opened' = [opened EXCEPT ![t] = Nothing]

Next ==
    \E t \in Tables :
        \/ \E i \in Slots : Open(t, i) \/ Close(t, i)
        \/ \E u \in Tables : Inherit(t, u)
        \/ CloseAll(t)

Spec == Init /\ [][Next]_opened
=============================================================================
