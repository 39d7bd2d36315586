----------------------------- MODULE MCCardPages -----------------------------
EXTENDS CardPages, TLC

CONSTANTS i1, i2

\* Rows differ in nothing.
Items == Permutations({i1, i2})
=============================================================================
