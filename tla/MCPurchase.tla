----------------------------- MODULE MCPurchase -----------------------------
(* Instances of Purchase for TLC. *)
EXTENDS Purchase, TLC

CONSTANTS u1, s1, s2

(* One user logged in on two clients. *)
OneUserTwice == s1 :> u1 @@ s2 :> u1
=============================================================================
