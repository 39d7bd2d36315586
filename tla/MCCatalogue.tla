---------------------------- MODULE MCCatalogue ----------------------------
EXTENDS Catalogue, TLC

CONSTANTS b1, w1, w2, t1, t2

Forms == {[title |-> t1, price |-> 1, percent |-> 50]}
Edits == {[fields |-> [title |-> t2], files |-> {}],
          [fields |-> [price |-> 2], files |-> {"cover"}],
          [fields |-> <<>>, files |-> Kind]}

Workers == Permutations(Worker)
=============================================================================
