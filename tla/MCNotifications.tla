--------------------------- MODULE MCNotifications ---------------------------
EXTENDS Notifications

CONSTANTS c1, c2

\* Clients differ in nothing.
Alike == Permutations({c1, c2})
=============================================================================
