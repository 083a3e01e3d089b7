--------------------------- MODULE MCCredentials ----------------------------
(* Credentials on a small instance. *)
EXTENDS Credentials, TLC

(* Rows and requests are interchangeable. *)
Symmetry == Permutations(Session) \cup Permutations(Token) \cup Permutations(Req)
=============================================================================
