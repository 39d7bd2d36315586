----------------------------- MODULE MCBookPages -----------------------------
EXTENDS BookPages, TLC

CONSTANTS b1, b2

\* Books differ in nothing.
Books == Permutations({b1, b2})
=============================================================================
