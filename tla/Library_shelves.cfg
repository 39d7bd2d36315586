\* Two clients of one user, two shelves and a book.
SPECIFICATION Spec
CONSTANTS
  c1 = c1  c2 = c2
  b1 = b1
  n1 = n1  n2 = n2  n3 = n3
  Client = {c1, c2}
  Book = {b1}
  Name = {n1, n2, n3}
  First <- TwoShelves
  MaxActs = 2
  MaxCrashes = 1
  NoName = NoName  NoShelf = NoShelf
\* Nothing has to go on: no user need click.
CHECK_DEADLOCK FALSE
INVARIANTS
  TypeOK
  NamesOnce
  PlacedOnce
  BooksKept
  PageCurrent
PROPERTY
  PagesSettle
