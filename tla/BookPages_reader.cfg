\* Two books, two pages, one act of others.
SPECIFICATION Spec
CONSTANTS
  b1 = b1  b2 = b2
  Book = {b1, b2}
  Page = {1, 2}
  MaxActs = 3
  MaxFaults = 1
  MaxOthers = 1
  NoBook = NoBook
\* Nothing has to go on: nobody need click.
CHECK_DEADLOCK FALSE
SYMMETRY Books
INVARIANTS
  TypeOK
  ButtonsRight
  ReaderRight
  ProgressLast
