------------------------------- MODULE TaskSet -------------------------------
(***************************************************************************)
(* What the create of a task promises, with no request, record, session or *)
(* screen in it: a set of tasks, keyed by the client's id, in which a task *)
(* is made once and for all; the user is told of those that were made; and *)
(* there is one for the wish unless it was let go.  TaskCreate implements  *)
(* it.                                                                     *)
(***************************************************************************)
CONSTANTS Keys, Values, None

VARIABLES
    value,      \* what each key's task was made from, None while there is none
    told,       \* the keys whose task the user was told of
    letGo       \* the wish is no longer followed: a second task may come of it

vars == <<value, told, letGo>>

Init ==
    /\ value = [k \in Keys |-> None]
    /\ told = {}
    /\ letGo = FALSE

Make(k, v) ==
    /\ letGo \/ \A j \in Keys : value[j] = None
    /\ value[k] = None
    /\ value' = [value EXCEPT ![k] = v]
    /\ UNCHANGED <<told, letGo>>

Tell(k) ==
    /\ value[k] # None
    /\ told' = told \cup {k}
    /\ UNCHANGED <<value, letGo>>

LetGo ==
    /\ letGo' = TRUE
    /\ UNCHANGED <<value, told>>

Next ==
    \/ \E k \in Keys, v \in Values : Make(k, v)
    \/ \E k \in Keys : Tell(k)
    \/ LetGo

Spec == Init /\ [][Next]_vars
=============================================================================
