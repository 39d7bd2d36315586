\* A book is added, then edited, discounted, switched off and deleted by two workers.
SPECIFICATION Spec
CONSTANTS
  w1 = w1  w2 = w2
  t1 = t1  t2 = t2
  b1 = b1
  Book = {b1}
  Worker = {w1, w2}
  Title = {t1, t2}
  Price = {1, 2}
  Percent = {0, 50}
  Form <- Forms
  Edit <- Edits
  MaxStamp = 3
  MaxCrashes = 1
  NoRow = NoRow  NoWork = NoWork
\* Nothing has to go on: no client need send a request.
CHECK_DEADLOCK FALSE
SYMMETRY Workers
INVARIANTS
  TypeOK
  FilesThere
  NoStrays
  AmountExact
PROPERTIES
  OthersKept
  ImplementsBookshop
