---------------------------- MODULE MCErcItems ----------------------------
(* ErcItems on a small instance. *)
EXTENDS ErcItems, TLC

(* Ids and slots are interchangeable: handed out and picked by \E alone. *)
Symmetry == Permutations(ItemId) \cup Permutations(Req)
=============================================================================
