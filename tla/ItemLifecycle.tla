--------------------------- MODULE ItemLifecycle ---------------------------
(***************************************************************************)
(* The documented life of an item: selected, worked on, submitted, then    *)
(* approved for good or returned.  A deactivated item stands still until   *)
(* it is reactivated or removed.                                           *)
(***************************************************************************)
CONSTANT ItemId

VARIABLES stage, off

vars == <<stage, off>>

Add(i) ==
    /\ stage[i] = "absent"
    /\ stage' = [stage EXCEPT ![i] = "not_started"]
    /\ UNCHANGED off

Move(i, from, to) ==
    /\ stage[i] = from /\ ~off[i]
    /\ stage' = [stage EXCEPT ![i] = to]
    /\ UNCHANGED off

Work(i) ==
    \/ Move(i, "not_started", "in_progress")
    \/ Move(i, "in_progress", "submitted")
    \/ Move(i, "submitted", "approved")
    \/ Move(i, "submitted", "revisit")

Toggle(i) ==
    /\ stage[i] \notin {"absent", "removed"}
    /\ off' = [off EXCEPT ![i] = ~@]
    /\ UNCHANGED stage

Remove(i) ==
    /\ stage[i] \notin {"absent", "removed"}
    /\ stage' = [stage EXCEPT ![i] = "removed"]
    /\ UNCHANGED off

Init ==
    /\ stage = [i \in ItemId |-> "absent"]
    /\ off = [i \in ItemId |-> FALSE]

Next == \E i \in ItemId : Add(i) \/ Work(i) \/ Toggle(i) \/ Remove(i)

Spec == Init /\ [][Next]_vars
=============================================================================
