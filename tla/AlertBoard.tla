----------------------------- MODULE AlertBoard ------------------------------
(***************************************************************************)
(* What the alert service promises (docs/alert-email-triggers.md, "state   *)
(* change detection"): for each subject, a rule with the device it is      *)
(* about, an alert is raised and cleared in turn; every raise and every    *)
(* clearing is owed one notification, which is sent at once or lost with   *)
(* the cycle that owed it, never sent twice and never sent later.          *)
(***************************************************************************)
EXTENDS Naturals

CONSTANT Subjects

VARIABLES
    open,       \* subjects whose alert stands
    due,        \* the notification owed: {} or {<<kind, subject>>}
    raised,     \* per subject, alerts raised
    told        \* per subject and kind, notifications sent

board == <<open, due, raised, told>>

Kinds == {"alert", "resolved"}

Init ==
    /\ open = {}
    /\ due = {}
    /\ raised = [s \in Subjects |-> 0]
    /\ told = [k \in Kinds |-> [s \in Subjects |-> 0]]

Raise(s) ==
    /\ s \notin open
    /\ due = {}
    /\ open' = open \cup {s}
    /\ due' = {<<"alert", s>>}
    /\ raised' = [raised EXCEPT ![s] = @ + 1]
    /\ UNCHANGED told

Clear(s) ==
    /\ s \in open
    /\ due = {}
    /\ open' = open \ {s}
    /\ due' = {<<"resolved", s>>}
    /\ UNCHANGED <<raised, told>>

Tell(k, s) ==
    /\ <<k, s>> \in due
    /\ due' = {}
    /\ told' = [told EXCEPT ![k][s] = @ + 1]
    /\ UNCHANGED <<open, raised>>

Lose ==
    /\ due # {}
    /\ due' = {}
    /\ UNCHANGED <<open, raised, told>>

Next ==
    \/ \E s \in Subjects : Raise(s) \/ Clear(s)
    \/ \E k \in Kinds, s \in Subjects : Tell(k, s)
    \/ Lose

Spec == Init /\ [][Next]_board
=============================================================================
