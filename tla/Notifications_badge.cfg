\* Two clients of one user.
SPECIFICATION NotesSpec
CONSTANTS
  c1 = c1  c2 = c2
  User = {u1}
  Client = {c1, c2}
  MaxNotes = 2
  Limit = 1
  MaxAsks = 3
  MaxFaults = 1
  NoNote = NoNote  NoClient = NoClient
\* Nothing has to go on: nobody need announce anything or look at a page.
CHECK_DEADLOCK FALSE
SYMMETRY Alike
INVARIANTS
  NotesTypeOK
  BadgeExact
  CardsExact
