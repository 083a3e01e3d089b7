---------------------------- MODULE MCVratmitra ----------------------------
(* Vratmitra on a small instance. *)
EXTENDS Vratmitra, TLC

CONSTANT va  \* the vratarthi whose journeys they are

OwnedByVa == [j \in Journey |-> va]

(* Ids, slots and addresses are interchangeable: picked by \E alone. *)
Symmetry == Permutations(InvId) \cup Permutations(LinkId) \cup Permutations(Req)
               \cup Permutations(Address)
=============================================================================
