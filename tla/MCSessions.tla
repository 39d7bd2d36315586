----------------------------- MODULE MCSessions -----------------------------
(* Instances of Sessions for TLC. *)
EXTENDS Sessions, TLC

CONSTANTS c1, c2, p1, p2, n1, n2, n3

(* Two accounts, each on a client of its own. *)
TwoAccounts == c1 :> p1 @@ c2 :> p2

Names == p1 :> n1 @@ p2 :> n2

(* Nobody changes names; or each leaves the name of the first login and may    *)
(* take over the other one.                                                    *)
NoNewNames == c1 :> {} @@ c2 :> {}
TakenOver == c1 :> {n2} @@ c2 :> {n1, n3}

(* Addresses differ in nothing. *)
SocketSymmetry == Permutations(Socket)
=============================================================================
