----------------------------- MODULE MCLibrary ------------------------------
EXTENDS Library

CONSTANTS c1, c2, b1, n1, n2, n3

TwoShelves == <<n1, n2>>
=============================================================================
