-------------------------- MODULE JourneyLifecycle --------------------------
(***************************************************************************)
(* The life of one journey as the product documents it: started, then      *)
(* active, paused by its owner or put to sleep after thirty days without   *)
(* an update, resumed from either, and completed from active for good.     *)
(***************************************************************************)
CONSTANT JourneyId

VARIABLES
    stage,  \* per journey, "absent" before it is started
    stale   \* per journey, thirty days have passed since the last update

TypeOK ==
    /\ stage \in [JourneyId -> {"absent", "active", "paused", "dormant", "completed"}]
    /\ stale \in [JourneyId -> BOOLEAN]

Init ==
    /\ stage = [j \in JourneyId |-> "absent"]
    /\ stale = [j \in JourneyId |-> FALSE]

(* An update of j that moves it from one stage to another. *)
Move(j, from, to) ==
    /\ stage[j] = from
    /\ stage' = [stage EXCEPT ![j] = to]
    /\ stale' = [stale EXCEPT ![j] = FALSE]

Start(j) == Move(j, "absent", "active")
Pause(j) == Move(j, "active", "paused")
Sleep(j) == stale[j] /\ Move(j, "active", "dormant")
Resume(j) == Move(j, "paused", "active") \/ Move(j, "dormant", "active")
Complete(j) == Move(j, "active", "completed")
Touch(j) == stage[j] # "absent" /\ Move(j, stage[j], stage[j])

Age(j) ==
    /\ stage[j] # "absent"
    /\ stale' = [stale EXCEPT ![j] = TRUE]
    /\ UNCHANGED stage

Next ==
    \E j \in JourneyId :
       Start(j) \/ Pause(j) \/ Sleep(j) \/ Resume(j) \/ Complete(j) \/ Touch(j) \/ Age(j)

Spec == Init /\ [][Next]_<<stage, stale>>
=============================================================================
