----------------------------- MODULE Mentoring ------------------------------
(***************************************************************************)
(* What the rest of the system may rely on about the vratmitras of one     *)
(* journey and of its owner: people are assigned to the journey and        *)
(* withdrawn from it, or begin and cease to mentor the owner, one person   *)
(* at a time and one of the two at a time.  Nothing bounds how many there  *)
(* are: neither table has a unique constraint.                             *)
(*                                                                         *)
(* ErcItems takes it for its environment, and Vratmitra implements it.     *)
(***************************************************************************)
CONSTANT Vratmitra

VARIABLES
    assigned,  \* who has an ACTIVE assignment for the journey
    globals    \* who has an ACTIVE relationship with its owner

vars == <<assigned, globals>>

Assign(v) == /\ v \notin assigned
             /\ assigned' = assigned \cup {v}
             /\ UNCHANGED globals

Unassign(v) == /\ v \in assigned
               /\ assigned' = assigned \ {v}
               /\ UNCHANGED globals

GlobalBegin(v) == /\ v \notin globals
                  /\ globals' = globals \cup {v}
                  /\ UNCHANGED assigned

GlobalEnd(v) == /\ v \in globals
                /\ globals' = globals \ {v}
                /\ UNCHANGED assigned

Init == assigned = {} /\ globals = {}

Next == \E v \in Vratmitra : Assign(v) \/ Unassign(v) \/ GlobalBegin(v) \/ GlobalEnd(v)

Spec == Init /\ [][Next]_vars
=============================================================================
