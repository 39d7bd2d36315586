--------------------------- MODULE MCCommentsPage ----------------------------
(* Instances of CommentsPage for TLC. *)
EXTENDS CommentsPage, TLC

CONSTANTS u1, u2, s1, s2, b1, b2

(* A user, and beside it another one or the administrator. *)
TwoClients == {s1 :> u1 @@ s2 :> a : a \in {u2, Admin}}

(* The first has written about a book. *)
OneComment == <<[book |-> b1, user |-> u1, version |-> 0]>>
=============================================================================
