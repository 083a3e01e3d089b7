----------------------------- MODULE MCJourneys -----------------------------
(* Journeys on a small instance: who holds which role is fixed by the cfg. *)
EXTENDS Journeys, TLC

(* Ids and slots are interchangeable: handed out and picked by \E alone. *)
Symmetry == Permutations(JourneyId) \cup Permutations(Req)
=============================================================================
