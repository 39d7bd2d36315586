----------------------------- MODULE MCAccounts -----------------------------
EXTENDS Accounts, TLC

CONSTANTS u1, u2, c1, c2, n1, n2, n3

\* Clients differ in nothing.
Clients == Permutations({c1, c2})
Names == u1 :> n1 @@ u2 :> n2
=============================================================================
