---------------------------- MODULE MCIdentities ----------------------------
(* Identities on a small instance. *)
EXTENDS Identities, TLC

(* Rows, requests and links are interchangeable. *)
Symmetry ==
    Permutations(User) \cup Permutations(Address) \cup Permutations(RowId)
    \cup Permutations(Token) \cup Permutations(Req)
=============================================================================
