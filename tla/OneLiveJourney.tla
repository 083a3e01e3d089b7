--------------------------- MODULE OneLiveJourney ---------------------------
(***************************************************************************)
(* What the platform promises about starting journeys, with nothing of how *)
(* it is done: for each slot (a person and a sentence) at most one journey *)
(* is live, and a slot is handed from one journey to the next only through *)
(* a moment at which it is empty.                                          *)
(***************************************************************************)
CONSTANTS Slot, JourneyId

VARIABLE live  \* per slot, the journeys that are live in it

TypeOK == live \in [Slot -> SUBSET JourneyId]

Init == live = [p \in Slot |-> {}]

Open(p, j) ==
    /\ live[p] = {}
    /\ \A q \in Slot : j \notin live[q]
    /\ live' = [live EXCEPT ![p] = {j}]

Close(p) ==
    /\ live[p] # {}
    /\ live' = [live EXCEPT ![p] = {}]

Next == \E p \in Slot : Close(p) \/ \E j \in JourneyId : Open(p, j)

Spec == Init /\ [][Next]_live
=============================================================================
