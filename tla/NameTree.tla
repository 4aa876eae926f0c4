------------------------------ MODULE NameTree ------------------------------
(***************************************************************************)
(* What a tree of names promises: what a path leads to changes only when   *)
(* something is put there or above, and what is opened is what its path    *)
(* leads to, by somebody who may.  Module Namespace is shown to implement  *)
(* it.                                                                     *)
(***************************************************************************)
EXTENDS Naturals, Sequences

CONSTANTS Paths, Users, Modes, Nothing, NoHandle, Allows(_, _, _)

VARIABLES
    leads,          \* leads[p]: the node of path p
    opened          \* opened[h]: what is open: [node, mode]

Handles == DOMAIN Users

Above(p, q) == Len(p) <= Len(q) /\ SubSeq(q, 1, Len(p)) = p

(* Something else is at p, and so maybe below.                             *)
Put(p) ==
    /\ leads'[p] # leads[p]
    /\ \A q \in Paths : leads'[q] # leads[q] => Above(p, q)
    /\ UNCHANGED opened

Open(h, p, m) ==
    /\ opened[h] = NoHandle
    /\ leads[p] # Nothing
    /\ Allows(Users[h], leads[p], m)
    /\ opened' = [opened EXCEPT ![h] = [node |-> leads[p], mode |-> m]]
    /\ UNCHANGED leads

Close(h) ==
    /\ opened' = [opened EXCEPT ![h] = NoHandle]
    /\ UNCHANGED leads

Next ==
    \/ \E p \in Paths : Put(p)
    \/ \E h \in Handles : Close(h) \/ \E p \in Paths, m \in Modes : Open(h, p, m)

Spec == opened = [h \in Handles |-> NoHandle] /\ [][Next]_<<leads, opened>>
=============================================================================
