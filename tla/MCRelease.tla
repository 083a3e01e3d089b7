----------------------------- MODULE MCRelease ------------------------------
(* Release on a small instance. *)
EXTENDS Release, TLC

(* Tags are interchangeable: picked by \E alone. *)
Symmetry == Permutations(Tag)
=============================================================================
